------------------------- MODULE GhostAudit_proofs -------------------------
(***************************************************************************)
(* Theorems about GhostAudit, for any number of decisions, horizons,       *)
(* prices, faults and restarts.                                            *)
(***************************************************************************)
EXTENDS GhostAudit, TLAPS

----------------------------------------------------------------------------
(* What the operations on an audit record return: records, in which a lead is only ever set  *)
(* by the receipt of a target and an acknowledgement only by SetStatus.                      *)

\* issue() creates a record of the right shape.
LEMMA NewRecordType ==
  ASSUME NEW aim \in [Horizons -> Stamps], NEW avail \in SUBSET Horizons
  PROVE  NewRecord(aim, avail) \in Record
BY DEF NewRecord, Record, Target, TargetStatus, PubStatus, OpenStatus

\* Every change of a row (_changed, and the statuses _publish writes) keeps its shape.
LEMMA BumpType ==
  ASSUME NEW r \in Record
  PROVE  /\ Bump(r) \in Record /\ Bump(r).ver = r.ver + 1
         /\ Bump(r).st = r.st /\ Bump(r).term = r.term
BY DEF Bump, Record

LEMMA SetStatusType ==
  ASSUME NEW r \in Record, NEW s \in PubStatus
  PROVE  /\ SetStatus(r, s) \in Record
         /\ SetStatus(r, s).st = s /\ SetStatus(r, s).term = r.term
<1>1. \A q \in Record : /\ [q EXCEPT !.st = s] \in Record
                        /\ [q EXCEPT !.st = s].st = s /\ [q EXCEPT !.st = s].term = q.term
  BY DEF Record
<1> QED
  BY <1>1, BumpType DEF SetStatus

\* The targets of a row may be replaced; the publication outcome stays.
LEMMA RetargetType ==
  ASSUME NEW r \in Record, NEW new \in [Horizons -> Target]
  PROVE  LET q == [Bump(r) EXCEPT !.tgt = new]
         IN  q \in Record /\ q.st = r.st /\ q.term = r.term
<1>1. \A q \in Record : /\ [q EXCEPT !.tgt = new] \in Record
                        /\ [q EXCEPT !.tgt = new].st = q.st /\ [q EXCEPT !.tgt = new].term = q.term
  BY DEF Record
<1> QED
  BY <1>1, BumpType

LEMMA EligibleType ==
  ASSUME NEW r \in Record
  PROVE  Eligible(r) \in SUBSET Horizons
BY DEF Eligible

\* observe_target yields a target of the right shape.
LEMMA ObservedTargetType ==
  ASSUME NEW r \in Record, NEW h \in Horizons, NEW v \in Values, NEW elapsed \in BOOLEAN
  PROVE  ObservedTarget(r, h, v, elapsed) \in Target
<1>1. r.tgt[h] \in Target
  BY DEF Record
<1>2. EarnsLead(r, h) \in BOOLEAN
  BY DEF EarnsLead, Record
<1> QED
  BY <1>1, <1>2 DEF ObservedTarget, Target, TargetStatus

LEMMA ObservedType ==
  ASSUME NEW r \in Record, NEW s \in Stamps, NEW v \in Values, NEW elapsed \in BOOLEAN
  PROVE  LET q == Observed(r, s, v, elapsed)
         IN  q \in Record /\ q.st = r.st /\ q.term = r.term
<1> DEFINE new == [h \in Horizons |-> IF r.aim[h] = s THEN ObservedTarget(r, h, v, elapsed) ELSE r.tgt[h]]
<1>1. new \in [Horizons -> Target]
  BY ObservedTargetType DEF Record
<1>2. LET q == [Bump(r) EXCEPT !.tgt = new]
      IN  q \in Record /\ q.st = r.st /\ q.term = r.term
  BY <1>1, RetargetType
<1> QED
  BY <1>2 DEF Observed

LEMMA ClosedType ==
  ASSUME NEW r \in Record, NEW verdict \in TargetStatus
  PROVE  /\ Closed(r, verdict) \in Record
         /\ Closed(r, verdict).st = r.st /\ Closed(r, verdict).term
<1> DEFINE new == [h \in Horizons |-> IF r.tgt[h].st = "pending"
                                      THEN [r.tgt[h] EXCEPT !.st = verdict] ELSE r.tgt[h]]
<1>1. new \in [Horizons -> Target]
  BY DEF Record, Target
<1>2. \A q \in Record : /\ [q EXCEPT !.term = TRUE, !.tgt = new] \in Record
                        /\ [q EXCEPT !.term = TRUE, !.tgt = new].st = q.st
                        /\ [q EXCEPT !.term = TRUE, !.tgt = new].term
  BY <1>1 DEF Record
<1> QED
  BY <1>2, BumpType DEF Closed

LEMMA InvalidatedType ==
  ASSUME NEW r \in Record
  PROVE  /\ Invalidated(r) \in Record
         /\ Invalidated(r).st = r.st /\ Invalidated(r).term = r.term
<1> DEFINE new == [h \in Horizons |-> [r.tgt[h] EXCEPT !.lead = FALSE]]
<1>1. new \in [Horizons -> Target]
  BY DEF Record, Target
<1>2. \A q \in Record : /\ [q EXCEPT !.inv = TRUE, !.tgt = new] \in Record
                        /\ [q EXCEPT !.inv = TRUE, !.tgt = new].st = q.st
                        /\ [q EXCEPT !.inv = TRUE, !.tgt = new].term = q.term
  BY <1>1 DEF Record
<1> QED
  BY <1>2, BumpType DEF Invalidated

\* note_late_target annotates, and leaves the publication outcome alone.
LEMMA NotedType ==
  ASSUME NEW r \in Record, NEW s \in Stamps, NEW v \in Values
  PROVE  LET q == Noted(r, s, v)
         IN  q \in Record /\ q.st = r.st /\ q.term = r.term
<1> DEFINE new == [h \in Horizons |-> IF r.aim[h] = s THEN NotedTarget(r.tgt[h], v) ELSE r.tgt[h]]
<1>1. \A t \in Target : NotedTarget(t, v) \in Target
  BY DEF NotedTarget, Target
<1>2. new \in [Horizons -> Target]
  BY <1>1 DEF Record
<1>3. LET q == [Bump(r) EXCEPT !.tgt = new]
      IN  q \in Record /\ q.st = r.st /\ q.term = r.term
  BY <1>2, RetargetType
<1> QED
  BY <1>3 DEF Noted

\* persist() leaves either the stored record or the new one.
LEMMA StoredType ==
  ASSUME NEW old \in Slot, NEW new \in Record
  PROVE  Stored(old, new) \in Record /\ Stored(old, new) \in {old, new}
BY NoneIsApart DEF Stored, Slot

----------------------------------------------------------------------------
(* The helpers every action is built from. *)

Rows == [Decisions -> Slot]

\* q is what r may become while its publication is not decided.
Same(r, q) == q \in Record /\ q.term = r.term /\ q.st = r.st
SameRows(rows, new) ==
  /\ new \in Rows
  /\ \A d \in Decisions : IF rows[d] = None THEN new[d] = None
                                              ELSE new[d] # None /\ Same(rows[d], new[d])

LEMMA SlotCases ==
  ASSUME NEW r \in Slot
  PROVE  r # None <=> r \in Record
BY NoneIsApart DEF Slot

LEMMA SameItself ==
  ASSUME NEW rows \in Rows
  PROVE  SameRows(rows, rows)
BY SlotCases DEF SameRows, Same, Rows

\* stop() and suspend() touch every row and change none but its version.
LEMMA TouchedSame ==
  ASSUME NEW rows \in Rows
  PROVE  SameRows(rows, Touched(rows))
<1>1. \A d \in Decisions : rows[d] # None => Bump(rows[d]) \in Record /\ Same(rows[d], Bump(rows[d]))
  BY BumpType, SlotCases DEF Same, Rows
<1>2. Touched(rows) \in Rows
  BY <1>1 DEF Touched, Rows, Slot
<1> QED
  BY <1>1, <1>2, NoneIsApart DEF Touched, SameRows

LEMMA SameTransitive ==
  ASSUME NEW a, NEW b, NEW c, SameRows(a, b), SameRows(b, c)
  PROVE  SameRows(a, c)
BY DEF SameRows, Same

\* The state of rows and halts after a handler that leaves rows behind.
HaltType == /\ dirty \subseteq Decisions /\ fresh \subseteq Decisions /\ susp \subseteq Scopes
            /\ stopped \in BOOLEAN /\ campDirty \in BOOLEAN

LEMMA StopRows ==
  ASSUME HaltType, NEW rows \in Rows, NEW also \in SUBSET Decisions, StopWith(rows, also)
  PROVE  HaltType' /\ SameRows(rows, row') /\ stopped'
<1>1. row' = (IF stopped THEN rows ELSE Touched(rows)) /\ dirty' \subseteq Decisions
  BY DEF StopWith, SetRows, HaltType
<1>2. SameRows(rows, row')
  BY <1>1, TouchedSame, SameItself
<1> QED
  BY <1>1, <1>2 DEF StopWith, HaltType

LEMMA SuspendRows ==
  ASSUME HaltType, NEW rows \in Rows, NEW also \in SUBSET Decisions,
         NEW scope \in Scopes, SuspendWith(scope, rows, also)
  PROVE  HaltType' /\ SameRows(rows, row') /\ stopped' = stopped
<1>1. row' \in {rows, Touched(rows)} /\ dirty' \subseteq Decisions
  BY DEF SuspendWith, SetRows, HaltType
<1>2. SameRows(rows, row')
  BY <1>1, TouchedSame, SameItself
<1> QED
  BY <1>1, <1>2 DEF SuspendWith, HaltType

LEMMA ProceedRows ==
  ASSUME HaltType, NEW rows \in Rows, NEW also \in SUBSET Decisions, ProceedWith(rows, also)
  PROVE  HaltType' /\ SameRows(rows, row') /\ stopped' = stopped
BY SameItself DEF ProceedWith, SetRows, HaltType

LEMMA IoFailureRows ==
  ASSUME HaltType, NEW rows \in Rows, NEW also \in SUBSET Decisions,
         NEW scope \in Scopes, IoFailure(scope, rows, also)
  PROVE  HaltType' /\ SameRows(rows, row') /\ (stopped => stopped')
BY StopRows, SuspendRows, ProceedRows DEF IoFailure, HaltType

LEMMA DecidedRows ==
  ASSUME HaltType, row \in Rows, NEW d \in Decisions, NEW r \in Record, Decided(d, r)
  PROVE  HaltType' /\ row' = With(d, r) /\ row' \in Rows
BY DEF Decided, SetRows, With, HaltType, Rows, Slot

LEMMA SpendType ==
  ASSUME WorldType, NEW k \in {"prices", "faults", "restarts"}, Spend(k)
  PROVE  spent' \in [prices : Nat, faults : Nat, restarts : Nat]
BY DEF Spend, WorldType

LEMMA NewestType ==
  ASSUME NEW old \in Slot, NEW new \in Record
  PROVE  Newest(old, new) \in Record /\ Newest(old, new) \in {old, new}
BY NoneIsApart DEF Newest, Slot

----------------------------------------------------------------------------
(* The invariant that makes the actions well defined: what the tasks refer *)
(* to exists, and each phase of the process has only the tasks it can have. *)

TaskInv ==
  /\ pending # None => row[pending] # None
  /\ pub # Idle => row[pub.d] # None
  /\ aud.at \in {"spool", "persist", "remove"} => row[aud.d] # None
  /\ aud.at = "remove" => row[aud.d].term /\ Unclaimed(aud.d)
  /\ \A d \in Decisions : row[d] # None => d \in issued
  /\ \A d \in due : row[d] # None /\ ~row[d].term
  /\ \A d \in toSave : row[d] # None

PhaseInv ==
  /\ phase \in {"down", "recovering"} => pub = Idle /\ \A d \in Decisions : row[d] = None
  /\ phase # "running" => pending = None
  /\ phase = "down" => aud = Idle
  /\ phase = "recovering" => aud = Idle \/ aud.at = "recovered"
  /\ aud.at = "recovered" => phase = "recovering"
  /\ phase \in {"preserving", "draining", "leaving"} => pub = Idle
  /\ phase = "preserving" => aud = Idle
  /\ toSave # {} => phase = "preserving"
  /\ due # {} => phase \in {"running", "quiescing", "cancelling"}

Inv == TypeOK /\ TaskInv /\ PhaseInv

LEMMA InitInv == Init => Inv
<1> SUFFICES ASSUME Init PROVE Inv
  OBVIOUS
<1> USE DEF Init
<1>1. RowsType
  BY DEF RowsType, Slot
<1>2. TasksType
  BY DEF TasksType, PubType, AudType, Prices
<1>3. DurableType /\ WorldType
  BY DEF DurableType, WorldType, Slot
<1>4. TaskInv /\ PhaseInv
  BY DEF TaskInv, PhaseInv, Idle
<1> QED
  BY <1>1, <1>2, <1>3, <1>4 DEF Inv, TypeOK
----------------------------------------------------------------------------
(* Preservation, one lemma per task. *)

\* What an action leaves alone is typed as before, and rows that stay the same keep
\* TaskInv.
LEMMA SameRowsTask ==
  ASSUME TypeOK, TaskInv, SameRows(row, row'),
         UNCHANGED <<pending, pub, aud, issued, toSave>>, due' \subseteq due
  PROVE  TaskInv'
<1>1. \A d \in Decisions : row[d] # None => row'[d] # None /\ row'[d].term = row[d].term
  BY DEF SameRows, Same
<1>2. \A d \in Decisions : row'[d] # None => row[d] # None
  BY DEF SameRows
<1>3. /\ pending \in Decisions \cup {None} /\ (pub # Idle => pub.d \in Decisions)
      /\ aud.at \in {"spool", "persist", "remove"} => aud.d \in Decisions
      /\ due \subseteq Decisions /\ toSave \subseteq Decisions
  BY DEF TypeOK, TasksType, PubType, AudType, Idle
<1> QED
  BY <1>1, <1>2, <1>3 DEF TaskInv, Unclaimed

LEMMA SameRowsInv ==
  ASSUME Inv, SameRows(row, row'), HaltType', TasksType', DurableType', WorldType',
         UNCHANGED <<phase, pending, pub, aud, issued, toSave>>, due' \in SUBSET due
  PROVE  Inv'
<1>1. TaskInv'
  BY SameRowsTask DEF Inv
<1>2. RowsType'
  BY DEF RowsType, HaltType, SameRows, Rows
<1>3. PhaseInv'
  BY DEF Inv, PhaseInv, SameRows
<1> QED
  BY <1>1, <1>2, <1>3 DEF Inv, TypeOK

\* A fault, a price or a restart is counted, or nothing is.
LEMMA WorldKept ==
  ASSUME WorldType, UNCHANGED <<redis, mask, issued>>,
         UNCHANGED spent \/ \E k \in {"prices", "faults", "restarts"} : Spend(k)
  PROVE  WorldType'
BY SpendType DEF WorldType

\* Prices received are observed by every row (observe_target), a clock fault withdraws every
\* lead (stop): the rows stay the same otherwise.
LEMMA ObservedSame ==
  ASSUME row \in Rows, NEW s \in Stamps, NEW v \in Values
  PROVE  SameRows(row, [d \in Decisions |-> IF row[d] = None THEN None
                                            ELSE Observed(row[d], s, v, d \in due)])
<1>1. ASSUME NEW d \in Decisions, row[d] # None
      PROVE  LET q == Observed(row[d], s, v, d \in due) IN q \in Record /\ Same(row[d], q)
  <2>1. row[d] \in Record /\ (d \in due) \in BOOLEAN
    BY <1>1, SlotCases DEF Rows
  <2>2. LET q == Observed(row[d], s, v, d \in due)
        IN  q \in Record /\ q.st = row[d].st /\ q.term = row[d].term
    BY <2>1, ObservedType, Zenon
  <2> QED
    BY <2>2 DEF Same
<1> QED
  BY <1>1, NoneIsApart DEF SameRows, Rows, Slot

LEMMA InvalidatedSame ==
  ASSUME row \in Rows
  PROVE  SameRows(row, [d \in Decisions |-> IF row[d] = None THEN None ELSE Invalidated(row[d])])
<1>1. \A d \in Decisions : row[d] # None =>
        Invalidated(row[d]) \in Record /\ Same(row[d], Invalidated(row[d]))
  BY InvalidatedType, SlotCases DEF Same, Rows
<1> QED
  BY <1>1, NoneIsApart DEF SameRows, Rows, Slot

LEMMA CalculateInv == Inv /\ Calculate => Inv'
<1> SUFFICES ASSUME Inv, Calculate PROVE Inv'
  OBVIOUS
<1> USE DEF Inv, TypeOK
<1>r. row \in Rows /\ HaltType
  BY DEF RowsType, Rows, HaltType
<1>1. ASSUME NEW d \in Decisions, NEW avail \in Priced, Issue(d, avail) PROVE Inv'
  <2> DEFINE coalesced == IF pending = None THEN row
                          ELSE With(pending, SetStatus(row[pending], "coalesced_before_publication"))
             new == NewRecord(Aim[d], avail)
  <2>1. new \in Record /\ ~new.term
    BY <1>1, NewRecordType, AimType DEF NewRecord
  <2>2. coalesced \in Rows /\ \A e \in Decisions : row[e] = None => coalesced[e] = None
    BY <1>r, SetStatusType, SlotCases
       DEF TasksType, PubStatus, DeniedStatus, TaskInv, With, Rows, Slot
  <2>3. \A e \in Decisions : row[e] # None =>
          coalesced[e] # None /\ coalesced[e].term = row[e].term
    BY <1>r, SetStatusType, SlotCases, NoneIsApart
       DEF TasksType, PubStatus, DeniedStatus, TaskInv, With, Rows, Slot
  <2>4. row' = [coalesced EXCEPT ![d] = new] /\ dirty' \subseteq Decisions
    BY <1>1 DEF Issue, SetRows, RowsType
  <2>5. row' \in Rows /\ row'[d] # None /\ row[d] = None
    BY <1>1, <2>1, <2>2, <2>4, NoneIsApart, <1>r DEF Rows, Slot, Issue, TaskInv
  <2>6. RowsType'
    BY <1>1, <2>4, <2>5 DEF RowsType, Rows, Issue, CheckpointMayBeDue
  <2>7. TasksType' /\ DurableType' /\ WorldType'
    BY <1>1 DEF Issue, TasksType, DurableType, WorldType, PubType, AudType, durable
  <2>8. TaskInv'
    BY <1>1, <2>1, <2>2, <2>3, <2>4, <2>5, <1>r, NoneIsApart DEF TaskInv, Issue, Unclaimed, Rows, TasksType, Idle, PubType, AudType
  <2>9. PhaseInv'
    BY <1>1 DEF PhaseInv, Issue
  <2> QED
    BY <2>6, <2>7, <2>8, <2>9
<1>2. CASE OfferGap
  <2>1. TypeOK'
    BY <1>2 DEF OfferGap, RowsType, TasksType, DurableType, WorldType, PubType, AudType, durable, world
  <2>2. TaskInv' /\ PhaseInv'
    BY <1>2 DEF OfferGap, TaskInv, PhaseInv, Unclaimed, world
  <2> QED
    BY <2>1, <2>2
<1>3. ASSUME NEW s \in Stamps, NEW v \in Values, OfferTwap(s, v) PROVE Inv'
  <2> DEFINE seen == [d \in Decisions |-> IF row[d] = None THEN None
                                          ELSE Observed(row[d], s, v, d \in due)]
  <2>1. SameRows(row, seen) /\ seen \in Rows
    BY <1>r, ObservedSame DEF SameRows
  <2>2. HaltType' /\ SameRows(row, row')
    <3>1. CASE Len(late) >= LateMax
      BY <1>3, <3>1, <2>1, <1>r, StopRows, SameTransitive DEF OfferTwap
    <3>2. CASE ~(Len(late) >= LateMax)
      BY <1>3, <3>2, <2>1, <1>r, ProceedRows, SameTransitive DEF OfferTwap, Proceed
    <3> QED
      BY <3>1, <3>2
  <2>3. TasksType'
    <3> DEFINE price == [stamp |-> s, value |-> v]
    <3>0. price \in Prices /\ late \in Seq(Prices)
      BY DEF Prices, TasksType
    <3>1. late' \in Seq(Prices) /\ heard' \subseteq Decisions \X Prices
      <4>1. CASE Len(late) >= LateMax
        BY <1>3, <4>1 DEF OfferTwap, TasksType
      <4>2. CASE ~(Len(late) >= LateMax)
        <5>1. late' = Append(late, price) /\ heard' = heard \cup (issued \X {price})
          BY <1>3, <4>2 DEF OfferTwap
        <5>2. late' \in Seq(Prices)
          BY <3>0, <5>1
        <5> QED
          BY <3>0, <5>1, <5>2 DEF TasksType, WorldType
      <4> QED
        BY <4>1, <4>2
    <3> QED
      BY <1>3, <3>1 DEF OfferTwap, TasksType, PubType, AudType
  <2>4. DurableType' /\ WorldType'
    BY <1>3, WorldKept DEF OfferTwap, DurableType, durable
  <2> QED
    BY <1>3, <2>2, <2>3, <2>4, SameRowsInv DEF OfferTwap
<1>4. CASE ClockFault
  <2> DEFINE rows == [d \in Decisions |-> IF row[d] = None THEN None ELSE Invalidated(row[d])]
  <2>1. SameRows(row, rows) /\ rows \in Rows
    BY <1>r, InvalidatedSame DEF SameRows
  <2>2. HaltType' /\ SameRows(row, row')
    BY <1>4, <2>1, <1>r, StopRows, SameTransitive DEF ClockFault
  <2>3. TasksType' /\ DurableType' /\ WorldType'
    BY <1>4, WorldKept DEF ClockFault, CanFail, TasksType, PubType, AudType, DurableType, durable
  <2> QED
    BY <1>4, <2>2, <2>3, SameRowsInv DEF ClockFault
<1>5. CASE OtherStop
  <2>1. HaltType' /\ SameRows(row, row')
    BY <1>5, <1>r, StopRows DEF OtherStop
  <2>2. TasksType' /\ DurableType' /\ WorldType'
    BY <1>5, WorldKept DEF OtherStop, CanFail, TasksType, PubType, AudType, DurableType, durable
  <2> QED
    BY <1>5, <2>1, <2>2, SameRowsInv DEF OtherStop
<1>6. ASSUME NEW d \in Decisions, WindowElapses(d) PROVE Inv'
  <2>1. TypeOK'
    BY <1>6 DEF WindowElapses, RowsType, TasksType, DurableType, WorldType, PubType, AudType, durable, world
  <2>2. TaskInv' /\ PhaseInv'
    BY <1>6 DEF WindowElapses, TaskInv, PhaseInv, Unclaimed, world, Live
  <2> QED
    BY <2>1, <2>2
<1>7. CASE FinalizeDue
  <2> DEFINE rows == [d \in Decisions |-> IF d \in due THEN Closed(row[d], "missing") ELSE row[d]]
  <2>1. \A d \in Decisions : d \in due => Closed(row[d], "missing") \in Record /\ Closed(row[d], "missing").term
    BY <1>r, ClosedType, SlotCases DEF TaskInv, TargetStatus, Rows
  <2>2. rows \in Rows
    BY <2>1, <1>r DEF Rows, Slot
  <2>3. HaltType' /\ row' = rows
    BY <1>7, <2>2, <1>r, ProceedRows DEF FinalizeDue, Proceed, ProceedWith, SetRows
  <2>4. TypeOK'
    BY <1>7, <2>2, <2>3 DEF FinalizeDue, RowsType, HaltType, Rows, TasksType, DurableType, WorldType,
       PubType, AudType, durable, world
  <2>5. TaskInv'
    BY <1>7, <2>1, <2>3, NoneIsApart DEF FinalizeDue, TaskInv, Unclaimed, world, TasksType, PubType, AudType, Idle
  <2>6. PhaseInv'
    BY <1>7, <2>1, <2>3 DEF FinalizeDue, PhaseInv
  <2> QED
    BY <2>4, <2>5, <2>6
<1> QED
  BY <1>1, <1>2, <1>3, <1>4, <1>5, <1>6, <1>7 DEF Calculate
----------------------------------------------------------------------------
\* A change of publication outcome keeps the rows and whether they are terminal.
Kept(new) ==
  /\ new \in Rows
  /\ \A e \in Decisions : IF row[e] = None THEN new[e] = None
                                            ELSE new[e] # None /\ new[e].term = row[e].term

LEMMA SameKept ==
  ASSUME NEW new, SameRows(row, new)
  PROVE  Kept(new)
BY DEF SameRows, Same, Kept

LEMMA WithKept ==
  ASSUME row \in Rows, NEW d \in Decisions, row[d] # None,
         NEW r \in Record, r.term = row[d].term
  PROVE  Kept(With(d, r))
BY NoneIsApart DEF Kept, With, Rows, Slot

LEMMA KeptSame ==
  ASSUME NEW a, NEW b, Kept(a), SameRows(a, b)
  PROVE  Kept(b)
BY DEF SameRows, Same, Kept

LEMMA RefuseKept ==
  ASSUME HaltType, row \in Rows, NEW d \in Decisions, row[d] # None, NEW s \in PubStatus,
         Refuse(d, s)
  PROVE  HaltType' /\ Kept(row')
<1> DEFINE r == SetStatus(row[d], s)
<1>1. r \in Record /\ r.term = row[d].term
  BY SetStatusType, SlotCases DEF Rows
<1>2. Kept(With(d, r)) /\ With(d, r) \in Rows
  BY <1>1, WithKept DEF Kept
<1>3. CASE Decided(d, r)
  BY <1>1, <1>2, <1>3, DecidedRows
<1>4. CASE SuspendWith("guard", With(d, r), {})
  <2>1. HaltType' /\ SameRows(With(d, r), row')
    BY <1>2, <1>4, SuspendRows DEF Scopes
  <2> QED
    BY <1>2, <2>1, KeptSame
<1> QED
  BY <1>3, <1>4 DEF Refuse

LEMMA DecidedKept ==
  ASSUME HaltType, row \in Rows, NEW d \in Decisions, row[d] # None, NEW r \in Record,
         r.term = row[d].term, Decided(d, r)
  PROVE  HaltType' /\ Kept(row')
BY DecidedRows, WithKept

\* The publication task leaves the other tasks and the phase alone; what it takes it leaves
\* to nobody.
LEMMA PublisherInv ==
  ASSUME Inv, Kept(row'), HaltType', PublisherKeeps, redis' \in [Decisions -> {"never", "sent", "applied"}],
         mask' \in [Decisions -> SUBSET Horizons], spent' \in [prices : Nat, faults : Nat, restarts : Nat],
         spool' \in Rows, pending' \in {pending, None},
         \/ pub' = Idle
         \/ /\ pub' \in [at : {"spool", "eval"}, d : Decisions, rec : Record]
            /\ row[pub'.d] # None /\ phase \notin {"preserving", "draining", "leaving"}
            /\ pub'.d = pending \/ pub'.d = pub.d
  PROVE  Inv'
<1> USE DEF Inv, TypeOK
<1>1. RowsType'
  BY DEF RowsType, HaltType, Kept, Rows
<1>2. TasksType' /\ DurableType' /\ WorldType'
  BY DEF TasksType, DurableType, WorldType, PubType, AudType, PublisherKeeps, Rows
<1>3. /\ pending \in Decisions \cup {None}
      /\ aud.at \in {"spool", "persist", "remove"} => aud.d \in Decisions
      /\ due \subseteq Decisions /\ toSave \subseteq Decisions
  BY DEF TasksType, AudType, Idle
<1>4. TaskInv'
  <2>1. \A d \in Decisions : /\ row[d] # None => row'[d] # None /\ row'[d].term = row[d].term
                             /\ row[d] = None => row'[d] = None
    BY DEF Kept
  <2>2. pub' # Idle => pub'.d \in Decisions /\ row'[pub'.d] # None
    BY <2>1
  <2>3. pending' # None => row'[pending'] # None
    BY <1>3, <2>1 DEF TaskInv
  <2>4. aud.at = "remove" => Unclaimed(aud.d)'
    BY <1>3, NoneIsNoDecision DEF TaskInv, Unclaimed, PublisherKeeps, Idle
  <2> QED
    BY <1>3, <2>1, <2>2, <2>3, <2>4 DEF TaskInv, PublisherKeeps
<1>5. PhaseInv'
  BY DEF PhaseInv, PublisherKeeps, Kept, Idle, TaskInv
<1> QED
  BY <1>1, <1>2, <1>4, <1>5

LEMMA PublishInv == Inv /\ Publish => Inv'
<1> SUFFICES ASSUME Inv, Publish PROVE Inv'
  OBVIOUS
<1>r. /\ row \in Rows /\ HaltType /\ spool \in Rows
      /\ redis \in [Decisions -> {"never", "sent", "applied"}] /\ mask \in [Decisions -> SUBSET Horizons]
      /\ spent \in [prices : Nat, faults : Nat, restarts : Nat]
      /\ pending \in Decisions \cup {None}
  BY DEF Inv, TypeOK, RowsType, TasksType, DurableType, WorldType, Rows, HaltType
<1>n. PublisherKeeps /\ pub' = Idle /\ HaltType' /\ Kept(row') /\ pending' \in {pending, None}
      /\ spool' \in Rows /\ spent' \in [prices : Nat, faults : Nat, restarts : Nat]
      /\ UNCHANGED <<redis, mask>>
      => Inv'
  BY <1>r, PublisherInv
<1>p. pending # None => pending \in Decisions /\ row[pending] # None
  BY <1>r DEF Inv, TaskInv
<1>s. \A d \in Decisions : row[d] # None => \A s \in PubStatus :
        SetStatus(row[d], s) \in Record /\ SetStatus(row[d], s).term = row[d].term
  BY <1>r, SetStatusType, SlotCases DEF Rows
<1>t. DeniedStatus \subseteq PubStatus /\ OpenStatus \subseteq PubStatus /\ WireStatus \subseteq PubStatus
  BY DEF PubStatus
<1>e. ASSUME NEW d \in Decisions, pub.at \in {"spool", "eval"}, pub.d = d
      PROVE  row[d] # None /\ pub.rec \in Record /\ pub # Idle
             /\ phase \notin {"preserving", "draining", "leaving"}
  BY <1>e DEF Inv, TypeOK, TasksType, PubType, TaskInv, PhaseInv, Idle
<1>w. ASSUME NEW d \in Decisions, Spooled(d)
      PROVE  spool' \in Rows /\ row[d] # None /\ pub # Idle
             /\ phase \notin {"preserving", "draining", "leaving"}
  <2>1. pub.rec \in Record /\ row[d] # None /\ pub # Idle
        /\ phase \notin {"preserving", "draining", "leaving"}
    BY <1>w, <1>e DEF Spooled
  <2>2. Newest(spool[d], pub.rec) \in Record
    BY <2>1, <1>r, NewestType DEF Rows
  <2> QED
    BY <1>r, <1>w, <2>1, <2>2 DEF Spooled, Rows, Slot
<1>1. CASE PublishRefused
  BY <1>1, <1>r, <1>n, <1>p, <1>t, RefuseKept DEF PublishRefused, DeniedStatus
<1>2. CASE PublishWithheld
  <2> DEFINE r == SetStatus(row[pending], "intent")
  <2>1. r \in Record /\ r.term = row[pending].term
    BY <1>2, <1>p, <1>s, <1>t DEF PublishWithheld, OpenStatus
  <2>2. SetStatus(r, "no_eligible_horizons") \in Record
        /\ SetStatus(r, "no_eligible_horizons").term = row[pending].term
    BY <2>1, <1>t, SetStatusType DEF DeniedStatus
  <2>3. HaltType' /\ Kept(row')
    BY <1>2, <1>r, <1>p, <2>2, DecidedKept DEF PublishWithheld
  <2> QED
    BY <1>2, <1>r, <1>n, <2>3 DEF PublishWithheld
<1>3. CASE PublishIntent
  <2> DEFINE rec == SetStatus(row[pending], "intent")
  <2>1. pending \in Decisions /\ row[pending] # None /\ rec \in Record /\ rec.term = row[pending].term
    BY <1>3, <1>p, <1>s, <1>t DEF PublishIntent, OpenStatus
  <2>2. Kept(With(pending, rec))
    BY <1>r, <2>1, WithKept
  <2>3. HaltType' /\ row' = With(pending, rec)
    <3>1. ProceedWith(With(pending, rec), {})
      BY <1>3 DEF PublishIntent, Proceed
    <3>2. HaltType'
      BY <1>r, <2>2, <3>1, ProceedRows DEF Kept
    <3>3. row' = With(pending, rec)
      BY <3>1 DEF ProceedWith, SetRows
    <3> QED
      BY <3>2, <3>3
  <2>4. pub' = [at |-> "spool", d |-> pending, rec |-> rec] /\ pub'.d = pending
    BY <1>3 DEF PublishIntent
  <2>5. pub' \in [at : {"spool", "eval"}, d : Decisions, rec : Record] /\ row[pub'.d] # None
        /\ phase \notin {"preserving", "draining", "leaving"}
    BY <1>3, <2>1, <2>4 DEF PublishIntent
  <2> QED
    BY <1>3, <1>r, <2>2, <2>3, <2>4, <2>5, PublisherInv DEF PublishIntent
<1>4. ASSUME NEW d \in Decisions, PublishPreempted(d) PROVE Inv'
  BY <1>4, <1>r, <1>n, <1>w, <1>t, RefuseKept DEF PublishPreempted, DeniedStatus
<1>5. ASSUME NEW d \in Decisions, PublishMasked(d) PROVE Inv'
  <2>1. HaltType' /\ Kept(row')
    BY <1>5, <1>r, <1>w, <1>s, <1>t, DecidedKept DEF PublishMasked, DeniedStatus
  <2> QED
    BY <1>5, <1>r, <1>n, <1>w, <2>1 DEF PublishMasked
<1>a. ASSUME NEW d \in Decisions, row[d] # None
      PROVE  Attempt(d) \in Record /\ Attempt(d).term = row[d].term
  <2>1. \A q \in Record, m \in SUBSET Horizons :
          [q EXCEPT !.sel = m] \in Record /\ [q EXCEPT !.sel = m].term = q.term
    BY DEF Record
  <2>2. Eligible(row[d]) \in SUBSET Horizons
    BY DEF Eligible
  <2> QED
    BY <1>a, <1>s, <1>t, <2>1, <2>2 DEF Attempt, OpenStatus
<1>6. ASSUME NEW d \in Decisions, PublishAttempt(d) PROVE Inv'
  <2>1. HaltType' /\ Kept(row')
    BY <1>6, <1>r, <1>w, <1>a, DecidedKept DEF PublishAttempt
  <2>2. redis' \in [Decisions -> {"never", "sent", "applied"}] /\ mask' \in [Decisions -> SUBSET Horizons]
    BY <1>6, <1>r, EligibleType, SlotCases DEF PublishAttempt, Rows, Eligible
  <2>3. pub \in [at : {"spool", "eval"}, d : Decisions, rec : Record]
    BY <1>6, <1>w DEF PublishAttempt, Inv, TypeOK, TasksType, PubType
  <2>4. pub' \in [at : {"spool", "eval"}, d : Decisions, rec : Record] /\ pub'.d = d /\ pub.d = d
    BY <1>6, <2>3 DEF PublishAttempt, Spooled
  <2> QED
    BY <1>6, <1>r, <1>w, <2>1, <2>2, <2>4, PublisherInv DEF PublishAttempt
<1>7. ASSUME NEW d \in Decisions, PublishTooLate(d) PROVE Inv'
  <2> DEFINE r == SetStatus(Attempt(d), "expired_before_attempt")
  <2>1. r \in Record /\ r.term = row[d].term
    BY <1>7, <1>w, <1>a, <1>t, SetStatusType DEF PublishTooLate, DeniedStatus
  <2>2. HaltType' /\ Kept(row')
    BY <1>7, <1>r, <1>w, <2>1, DecidedKept DEF PublishTooLate
  <2> QED
    BY <1>7, <1>r, <1>n, <1>w, <2>2 DEF PublishTooLate
<1>8. ASSUME NEW d \in Decisions, PublishSpoolFails(d) PROVE Inv'
  <2> DEFINE r == SetStatus(row[d], "spool_unavailable")
  <2>1. row[d] # None /\ r \in Record /\ r.term = row[d].term
    BY <1>8, <1>e, <1>s, <1>t DEF PublishSpoolFails, DeniedStatus
  <2>2. Kept(With(d, r))
    BY <1>r, <2>1, WithKept
  <2>3. HaltType' /\ SameRows(With(d, r), row')
    BY <1>8, <1>r, <2>2, IoFailureRows DEF PublishSpoolFails, Kept, Scopes
  <2>4. Kept(row')
    BY <2>2, <2>3, KeptSame
  <2>5. spool' \in Rows
    BY <1>8, <1>r, <1>w DEF PublishSpoolFails
  <2>6. spent' \in [prices : Nat, faults : Nat, restarts : Nat]
    BY <1>8, SpendType DEF PublishSpoolFails, CanFail, Inv, TypeOK
  <2> QED
    BY <1>8, <1>n, <2>3, <2>4, <2>5, <2>6 DEF PublishSpoolFails
<1>9. ASSUME NEW d \in Decisions, RedisApplies(d) PROVE Inv'
  <2>1. TypeOK'
    BY <1>9 DEF RedisApplies, memory, durable, Inv, TypeOK, RowsType, TasksType, PubType, AudType,
                DurableType, WorldType
  <2>2. TaskInv' /\ PhaseInv'
    BY <1>9 DEF RedisApplies, memory, durable, Inv, TaskInv, PhaseInv, Unclaimed
  <2> QED
    BY <2>1, <2>2 DEF Inv
<1>10. ASSUME NEW d \in Decisions, NEW status \in WireStatus, PublishEnds(d, status) PROVE Inv'
  <2>1. row[d] # None
    BY <1>10, <1>e DEF PublishEnds
  <2>2. HaltType' /\ Kept(row')
    BY <1>10, <1>r, <1>s, <1>t, <2>1, DecidedKept DEF PublishEnds
  <2> QED
    BY <1>10, <1>r, <1>n, <2>2 DEF PublishEnds
<1>11. ASSUME NEW d \in Decisions, PublishCancelled(d) PROVE Inv'
  <2>1. HaltType' /\ Kept(row')
    BY <1>11, <1>r, SameItself, SameKept DEF PublishCancelled, HaltType
  <2> QED
    BY <1>11, <1>r, <1>n, <1>w, <2>1 DEF PublishCancelled
<1> QED
  BY <1>1, <1>2, <1>3, <1>4, <1>5, <1>6, <1>7, <1>8, <1>9, <1>10, <1>11 DEF Publish, WireStatus
----------------------------------------------------------------------------
\* The audit task changes no row but the one it removes.
LEMMA SpoolWriteType ==
  ASSUME NEW old \in Rows, NEW d \in Decisions, NEW r \in Slot
  PROVE  [old EXCEPT ![d] = r] \in Rows
BY DEF Rows

LEMMA EffectType ==
  ASSUME Inv, TakesEffect
  PROVE  DurableType'
<1>1. CASE aud.at = "campaign"
  BY <1>1 DEF TakesEffect, Inv, TypeOK, TasksType, AudType, DurableType, Idle
<1>2. CASE aud.at \in {"spool", "persist", "remove"}
  <2>1. aud.d \in Decisions /\ aud.rec \in Record
    BY <1>2 DEF Inv, TypeOK, TasksType, AudType, Idle
  <2>2. spool \in Rows /\ db \in Rows /\ durStop \in BOOLEAN
    BY DEF Inv, TypeOK, DurableType, Rows
  <2>3. Newest(spool[aud.d], aud.rec) \in Slot /\ Stored(db[aud.d], aud.rec) \in Slot /\ None \in Slot
    BY <2>1, <2>2, NewestType, StoredType DEF Rows, Slot
  <2> QED
    BY <1>2, <2>1, <2>2, <2>3, SpoolWriteType DEF TakesEffect, DurableType, Rows
<1> QED
  BY <1>1, <1>2 DEF TakesEffect

LEMMA NotingType ==
  ASSUME Inv, late # <<>>, Noting
  PROVE  DurableType'
<1>1. Head(late) \in Prices
  BY DEF Inv, TypeOK, TasksType
<1>2. db \in Rows
  BY DEF Inv, TypeOK, DurableType, Rows
<1>3. \A d \in Decisions : db[d] # None => Noted(db[d], Head(late).stamp, Head(late).value) \in Record
  BY <1>1, <1>2, NotedType, SlotCases DEF Prices, Rows
<1> QED
  BY <1>2, <1>3 DEF Noting, DurableType, Rows, Slot, Inv, TypeOK

\* What AuditKeeps and AudType leave to show of an audit step that keeps the rows.
LEMMA AuditorInv ==
  ASSUME Inv, AuditKeeps, SameRows(row, row'), HaltType', DurableType',
         spent' \in [prices : Nat, faults : Nat, restarts : Nat], late' \in Seq(Prices),
         AudType',
         \/ aud' \in {Idle, aud}
         \/ /\ aud'.at \in {"campaign", "spool", "persist", "remove"}
            /\ phase \in {"running", "quiescing", "cancelling", "draining", "leaving"}
            /\ aud'.at # "campaign" => row[aud'.d] # None
            /\ aud'.at = "remove" => row[aud'.d].term /\ Unclaimed(aud'.d)
  PROVE  Inv'
<1>1. RowsType'
  BY DEF RowsType, HaltType, SameRows, Rows
<1>2. TasksType' /\ WorldType'
  BY DEF Inv, TypeOK, TasksType, WorldType, PubType, AuditKeeps
<1>3. /\ pending \in Decisions \cup {None} /\ (pub # Idle => pub.d \in Decisions)
      /\ aud'.at \in {"spool", "persist", "remove"} => aud'.d \in Decisions
      /\ due \subseteq Decisions /\ toSave \subseteq Decisions
  BY DEF Inv, TypeOK, TasksType, PubType, AudType, Idle
<1>4. \A d \in Decisions : /\ row[d] # None => row'[d] # None /\ row'[d].term = row[d].term
                           /\ row[d] = None => row'[d] = None
  BY DEF SameRows, Same
<1>5. TaskInv'
  BY <1>3, <1>4 DEF Inv, TaskInv, Unclaimed, AuditKeeps, Idle
<1>6. PhaseInv'
  BY <1>4 DEF Inv, PhaseInv, AuditKeeps, Idle
<1> QED
  BY <1>1, <1>2, <1>5, <1>6 DEF Inv, TypeOK

LEMMA AuditInv == Inv /\ Audit => Inv'
<1> SUFFICES ASSUME Inv, Audit PROVE Inv'
  OBVIOUS
<1>r. /\ row \in Rows /\ HaltType /\ DurableType /\ late \in Seq(Prices) /\ AudType
      /\ spent \in [prices : Nat, faults : Nat, restarts : Nat]
  BY DEF Inv, TypeOK, RowsType, TasksType, WorldType, Rows, HaltType
<1>u. (UNCHANGED row) => SameRows(row, row')
  BY <1>r, SameItself
<1>i. AudType' <=> \/ aud' = Idle
                   \/ aud' \in [at : {"campaign"}, d : {None}, rec : BOOLEAN]
                   \/ aud' \in [at : {"spool", "persist", "remove", "recovered"}, d : Decisions, rec : Record]
  BY DEF AudType
<1>t. ASSUME aud.at \in {"spool", "persist", "remove"}
      PROVE  /\ aud \in [at : {"spool", "persist", "remove", "recovered"}, d : Decisions, rec : Record]
             /\ row[aud.d] # None
             /\ phase \in {"running", "quiescing", "cancelling", "draining", "leaving"}
  <2>1. phase \notin {"down", "recovering", "preserving"}
    BY <1>t DEF Inv, PhaseInv, Idle
  <2> QED
    BY <1>t, <1>r, <2>1 DEF AudType, Idle, Inv, TypeOK, TasksType, TaskInv
<1>1. CASE CampaignBegin
  BY <1>1, <1>r, <1>u, <1>i, AuditorInv DEF CampaignBegin, durable, DurableType, NoHalt, HaltType, Auditing
<1>2. ASSUME NEW d \in Decisions, AuditBegin(d) PROVE Inv'
  <2>1. row[d] \in Record /\ row[d] # None
    BY <1>2, <1>r, SlotCases DEF AuditBegin, Live, Rows
  <2> QED
    BY <1>2, <1>r, <1>u, <1>i, <2>1, AuditorInv
       DEF AuditBegin, durable, DurableType, NoHalt, HaltType, Auditing
<1>3. CASE CampaignSaved
  <2>1. DurableType'
    BY <1>3, EffectType DEF CampaignSaved
  <2>2. HaltType' /\ SameRows(row, row')
    BY <1>3, <1>r, <1>u DEF CampaignSaved, HaltType
  <2> QED
    BY <1>3, <1>r, <1>i, <2>1, <2>2, SpendType, AuditorInv DEF CampaignSaved, CanFail, Inv, TypeOK
<1>4. CASE AuditSpooled
  <2>1. DurableType'
    BY <1>4, EffectType DEF AuditSpooled
  <2>2. HaltType' /\ SameRows(row, row')
    BY <1>4, <1>r, <1>u DEF AuditSpooled, NoHalt, HaltType
  <2>3. /\ aud' \in [at : {"spool", "persist", "remove", "recovered"}, d : Decisions, rec : Record]
        /\ aud'.at = "persist" /\ aud'.d = aud.d
    BY <1>4, <1>t DEF AuditSpooled
  <2> QED
    BY <1>4, <1>r, <1>i, <1>t, <2>1, <2>2, <2>3, AuditorInv DEF AuditSpooled
<1>5. CASE AuditPersisted
  <2>1. DurableType'
    BY <1>5, EffectType DEF AuditPersisted
  <2>2. HaltType' /\ SameRows(row, row')
    BY <1>5, <1>r, <1>u DEF AuditPersisted, NoHalt, HaltType
  <2>3. CASE aud' = Idle
    BY <1>5, <1>r, <1>i, <2>1, <2>2, <2>3, AuditorInv DEF AuditPersisted
  <2>4. CASE aud' = [aud EXCEPT !.at = "remove"] /\ row[aud.d].term /\ Unclaimed(aud.d)
    <3>1. /\ aud' \in [at : {"spool", "persist", "remove", "recovered"}, d : Decisions, rec : Record]
          /\ aud'.at = "remove" /\ aud'.d = aud.d
      BY <1>5, <1>t, <2>4 DEF AuditPersisted
    <3> QED
      BY <1>5, <1>r, <1>i, <1>t, <2>1, <2>2, <2>4, <3>1, AuditorInv DEF AuditPersisted
  <2> QED
    BY <1>5, <2>3, <2>4 DEF AuditPersisted
<1>6. CASE AuditRemoved
  <2>1. DurableType'
    BY <1>6, EffectType DEF AuditRemoved
  <2>2. CASE row' = row
    <3>1. HaltType' /\ SameRows(row, row')
      BY <1>6, <1>r, <1>u, <2>2 DEF AuditRemoved, NoHalt, HaltType
    <3> QED
      BY <1>6, <1>r, <1>i, <2>1, <3>1, AuditorInv DEF AuditRemoved
  <2>3. CASE row' = With(aud.d, None)
    <3> DEFINE d == aud.d
    <3>1. d \in Decisions /\ row[d].term /\ pending # d /\ pub.d # d /\ aud.at = "remove"
      BY <1>6, <1>t DEF AuditRemoved, Inv, TaskInv, Unclaimed
    <3>2. \A e \in Decisions : row'[e] = IF e = d THEN None ELSE row[e]
      BY <2>3, <3>1, <1>r DEF With, Rows
    <3>3. toSave = {} /\ d \notin due
      BY <1>6, <3>1 DEF Inv, PhaseInv, TaskInv, Idle
    <3>4. row' \in Rows
      BY <2>3, <3>1, <1>r, SpoolWriteType DEF With, Slot
    <3>5. RowsType'
      BY <1>6, <3>4 DEF AuditRemoved, Inv, TypeOK, RowsType, Rows, NoHalt
    <3>6. TasksType' /\ WorldType'
      BY <1>6 DEF AuditRemoved, Inv, TypeOK, TasksType, WorldType, PubType, AudType, AuditKeeps
    <3>7. /\ pending \in Decisions \cup {None} /\ (pub # Idle => pub.d \in Decisions)
          /\ due \subseteq Decisions /\ aud' = Idle
      BY <1>6 DEF AuditRemoved, Inv, TypeOK, TasksType, PubType, Idle
    <3>8. TaskInv'
      BY <1>6, <3>1, <3>2, <3>3, <3>7 DEF AuditRemoved, AuditKeeps, Inv, TaskInv, Unclaimed, Idle
    <3>9. PhaseInv'
      BY <1>6, <3>2, <3>7 DEF AuditRemoved, AuditKeeps, Inv, PhaseInv, Idle
    <3> QED
      BY <2>1, <3>5, <3>6, <3>8, <3>9 DEF Inv, TypeOK
  <2> QED
    BY <1>6, <2>2, <2>3 DEF AuditRemoved
<1>7. CASE AuditFails
  <2>1. DurableType'
    BY <1>7, <1>r, EffectType DEF AuditFails, durable, DurableType
  <2>2. HaltType' /\ SameRows(row, row')
    BY <1>7, <1>r, IoFailureRows DEF AuditFails, FailedRow, Scopes
  <2>3. spent' \in [prices : Nat, faults : Nat, restarts : Nat]
    BY <1>7, SpendType DEF AuditFails, CanFail, Inv, TypeOK
  <2> QED
    BY <1>7, <1>r, <1>i, <2>1, <2>2, <2>3, AuditorInv DEF AuditFails
<1>8. CASE AuditCancelled
  <2>1. DurableType'
    BY <1>8, <1>r, EffectType DEF AuditCancelled, durable, DurableType
  <2>2. HaltType' /\ SameRows(row, row')
    BY <1>8, <1>r, <1>u DEF AuditCancelled, NoHalt, HaltType
  <2> QED
    BY <1>8, <1>r, <1>i, <2>1, <2>2, AuditorInv DEF AuditCancelled
<1>9. CASE LateNoted
  <2>1. DurableType' /\ late' \in Seq(Prices)
    BY <1>9, <1>r, NotingType DEF LateNoted
  <2>2. HaltType' /\ SameRows(row, row')
    BY <1>9, <1>r, <1>u DEF LateNoted, NoHalt, HaltType
  <2> QED
    BY <1>9, <1>r, <1>i, <2>1, <2>2, AuditorInv DEF LateNoted
<1>10. CASE LateFails
  <2>1. DurableType'
    BY <1>10, <1>r, NotingType DEF LateFails, durable, DurableType
  <2>2. late' \in Seq(Prices)
    BY <1>10, <1>r DEF LateFails
  <2>3. HaltType' /\ SameRows(row, row')
    BY <1>10, <1>r, IoFailureRows DEF LateFails, Scopes
  <2>4. spent' \in [prices : Nat, faults : Nat, restarts : Nat]
    BY <1>10, SpendType DEF LateFails, CanFail, Inv, TypeOK
  <2> QED
    BY <1>10, <1>r, <1>i, <2>1, <2>2, <2>3, <2>4, AuditorInv DEF LateFails
<1>11. CASE FlushEnds
  <2>1. HaltType' /\ SameRows(row, row')
    BY <1>11, <1>r, TouchedSame DEF FlushEnds, Resumes, SetRows, HaltType
  <2> QED
    BY <1>11, <1>r, <1>i, <2>1, AuditorInv DEF FlushEnds, durable, DurableType
<1> QED
  BY <1>1, <1>2, <1>3, <1>4, <1>5, <1>6, <1>7, <1>8, <1>9, <1>10, <1>11 DEF Audit
----------------------------------------------------------------------------
\* The guard task suspends, resumes or stops.
LEMMA GuardianInv ==
  ASSUME Inv, GuardKeeps, SameRows(row, row'), HaltType', guard' \in {"none", "stale", "full", "ok"},
         spent' \in [prices : Nat, faults : Nat, restarts : Nat]
  PROVE  Inv'
<1>1. TasksType' /\ DurableType' /\ WorldType'
  BY DEF Inv, TypeOK, TasksType, PubType, AudType, DurableType, WorldType, GuardKeeps, durable
<1> QED
  BY <1>1, SameRowsInv DEF GuardKeeps

LEMMA GuardInv == Inv /\ Guard => Inv'
<1> SUFFICES ASSUME Inv, Guard PROVE Inv'
  OBVIOUS
<1>r. /\ row \in Rows /\ HaltType /\ guard \in {"none", "stale", "full", "ok"}
      /\ spent \in [prices : Nat, faults : Nat, restarts : Nat]
  BY DEF Inv, TypeOK, RowsType, TasksType, WorldType, Rows, HaltType
<1>f. CanFail => spent' \in [prices : Nat, faults : Nat, restarts : Nat]
  BY SpendType DEF CanFail, Inv, TypeOK
<1>1. CASE GuardMeasured
  <2>1. HaltType' /\ SameRows(row, row')
    BY <1>1, <1>r, ProceedRows, TouchedSame DEF GuardMeasured, Proceed, Resumes, SetRows, HaltType
  <2> QED
    BY <1>1, <1>r, <2>1, GuardianInv DEF GuardMeasured
<1>2. CASE NoCapacity
  BY <1>2, <1>r, <1>f, StopRows, SuspendRows, GuardianInv DEF NoCapacity, HasGuard, Scopes
<1>3. CASE GuardFails
  BY <1>3, <1>r, <1>f, IoFailureRows, GuardianInv DEF GuardFails, Scopes
<1>4. CASE GuardAges
  BY <1>4, <1>r, <1>f, ProceedRows, GuardianInv DEF GuardAges, Proceed
<1>5. CASE StaleGuardSeen
  BY <1>5, <1>r, SuspendRows, GuardianInv DEF StaleGuardSeen, Scopes
<1>6. CASE CheckpointDue
  BY <1>6, <1>r, SameItself, GuardianInv DEF CheckpointDue, HaltType
<1> QED
  BY <1>1, <1>2, <1>3, <1>4, <1>5, <1>6 DEF Guard

\* start(), close() and a crash.
LEMMA ResetInv ==
  ASSUME Inv, NEW stop \in BOOLEAN, NEW camp \in BOOLEAN, Reset(stop, camp),
         phase' \in {"down", "recovering"}, DurableType', WorldType'
  PROVE  Inv'
<1>1. RowsType'
  BY DEF Reset, RowsType, Slot
<1>2. TasksType'
  BY DEF Reset, TasksType, PubType, AudType
<1>3. TaskInv' /\ PhaseInv'
  BY DEF Reset, TaskInv, PhaseInv, Idle
<1> QED
  BY <1>1, <1>2, <1>3 DEF Inv, TypeOK

LEMMA RecoveryInv ==
  ASSUME Inv, RecoveryKeeps, phase = "recovering", DurableType', AudType',
         aud' = Idle \/ aud'.at = "recovered"
  PROVE  Inv'
<1>1. TypeOK'
  BY DEF RecoveryKeeps, NoHalt, AuditKeeps, Inv, TypeOK, RowsType, TasksType, PubType, WorldType
<1>2. TaskInv' /\ PhaseInv'
  BY DEF RecoveryKeeps, NoHalt, AuditKeeps, Inv, TaskInv, PhaseInv, Unclaimed, Idle
<1> QED
  BY <1>1, <1>2 DEF Inv

LEMMA ReconciledType ==
  ASSUME NEW r \in Record
  PROVE  Reconciled(r) \in Record /\ Reconciled(r).st = r.st
BY ClosedType DEF Reconciled, TargetStatus

LEMMA LifecycleInv == Inv /\ Lifecycle => Inv'
<1> SUFFICES ASSUME Inv, Lifecycle PROVE Inv'
  OBVIOUS
<1>r. /\ row \in Rows /\ spool \in Rows /\ db \in Rows /\ HaltType /\ DurableType /\ WorldType
      /\ late \in Seq(Prices) /\ AudType /\ toSave \in SUBSET Decisions /\ saved \in SUBSET Decisions
      /\ durStop \in BOOLEAN
  BY DEF Inv, TypeOK, RowsType, TasksType, DurableType, Rows, HaltType
<1>f. CanFail \/ Restart => spent' \in [prices : Nat, faults : Nat, restarts : Nat]
  BY <1>r, SpendType DEF CanFail, Restart
<1>1. CASE Start
  <2>1. DurableType' /\ WorldType'
    BY <1>1, <1>r, <1>f DEF Start, durable, DurableType, WorldType
  <2>2. PICK stop \in BOOLEAN, camp \in BOOLEAN : Reset(stop, camp)
    BY <1>1, <1>r DEF Start
  <2> QED
    BY <1>1, <2>1, <2>2, ResetInv DEF Start
<1>2. ASSUME NEW d \in Decisions, RecoverSpooled(d) PROVE Inv'
  <2>1. LatestOf(d) \in Record /\ spool[d] \in Record
    BY <1>2, <1>r, SlotCases DEF RecoverSpooled, LatestOf, Rows
  <2>2. Stored(db[d], Reconciled(LatestOf(d))) \in Slot
    BY <1>r, <2>1, ReconciledType, StoredType DEF Rows, Slot
  <2>3. DurableType'
    BY <1>2, <1>r, <2>2 DEF RecoverSpooled, RecoveryKeeps, DurableType, Rows
  <2>4. AudType' /\ aud'.at = "recovered"
    BY <1>2, <2>1 DEF RecoverSpooled, AudType
  <2> QED
    BY <1>2, <2>3, <2>4, RecoveryInv DEF RecoverSpooled
<1>3. CASE RecoverRemoved
  <2>1. aud.d \in Decisions /\ phase = "recovering"
    BY <1>3, <1>r DEF RecoverRemoved, AudType, Inv, PhaseInv, Idle
  <2>2. DurableType' /\ AudType'
    BY <1>3, <1>r, <2>1 DEF RecoverRemoved, RecoveryKeeps, DurableType, AudType, Rows, Slot
  <2> QED
    BY <1>3, <2>1, <2>2, RecoveryInv DEF RecoverRemoved
\* What the second net closes is still a record.
<1>4. StoredClosed \in Rows
  BY <1>r, SlotCases, ReconciledType DEF StoredClosed, Rows, Slot
<1>5. CASE Started
  <2>1. HaltType' /\ SameRows(row, row') /\ guard' \in {"none", "ok"}
    BY <1>5, <1>r, ProceedRows, StopRows, SuspendRows DEF Started, Proceed, Scopes
  <2>2. RowsType'
    BY <2>1 DEF RowsType, HaltType, SameRows, Rows
  <2>3. TasksType' /\ DurableType' /\ WorldType'
    BY <1>4, <1>5, <1>f, <2>1
       DEF Started, Inv, TypeOK, TasksType, PubType, AudType, DurableType, WorldType, Rows
  <2>4. TaskInv'
    BY <1>5, <2>1, SameRowsTask DEF Started, Inv
  <2>5. PhaseInv'
    BY <1>5, <2>1 DEF Started, Inv, PhaseInv, Idle
  <2> QED
    BY <2>2, <2>3, <2>4, <2>5 DEF Inv, TypeOK
<1>6. CASE StartFails
  <2>1. DurableType' /\ WorldType'
    BY <1>6, <1>r, <1>f DEF StartFails, DurableType, WorldType, HaltType
  <2> QED
    BY <1>6, <2>1, ResetInv DEF StartFails
<1>7. CASE Close
  <2>1. TypeOK'
    BY <1>7, <1>f DEF Close, Inv, TypeOK, RowsType, TasksType, PubType, AudType, DurableType, WorldType, durable
  <2>2. TaskInv' /\ PhaseInv'
    BY <1>7, NoneIsNoDecision DEF Close, Inv, TaskInv, PhaseInv, Unclaimed, TypeOK, TasksType, AudType, Idle
  <2> QED
    BY <2>1, <2>2 DEF Inv
<1>8. CASE DeadlinePasses
  <2>1. TypeOK'
    BY <1>8, <1>f DEF DeadlinePasses, Inv, TypeOK, RowsType, TasksType, PubType, AudType, DurableType, WorldType, durable
  <2>2. TaskInv' /\ PhaseInv'
    BY <1>8 DEF DeadlinePasses, Inv, TaskInv, PhaseInv, Unclaimed, Idle
  <2> QED
    BY <2>1, <2>2 DEF Inv
<1>9. CASE Freeze
  <2> DEFINE rows == [d \in Decisions |-> IF row[d] = None THEN None
                                          ELSE Closed(row[d], "restart_unmatched")]
  <2>1. \A d \in Decisions : row[d] # None => Closed(row[d], "restart_unmatched") \in Record
    BY <1>r, SlotCases, ClosedType DEF Rows, TargetStatus
  <2>2. row' = rows /\ rows \in Rows /\ dirty' \subseteq Decisions
    BY <1>9, <1>r, <2>1 DEF Freeze, SetRows, Rows, Slot, HaltType
  <2>3. \A d \in Decisions : (row'[d] # None) <=> (row[d] # None)
    BY <2>1, <2>2, NoneIsApart
  <2>4. TypeOK'
    BY <1>9, <1>r, <2>2 DEF Freeze, Inv, TypeOK, RowsType, TasksType, PubType, AudType, DurableType,
       WorldType, Rows, world, durable, Live
  <2>5. TaskInv'
    BY <1>9, <2>3 DEF Freeze, Inv, TaskInv, PhaseInv, Idle, Live, world
  <2>6. PhaseInv'
    BY <1>9, <2>3 DEF Freeze, Inv, PhaseInv, Idle
  <2> QED
    BY <2>4, <2>5, <2>6 DEF Inv
<1>10. ASSUME NEW d \in Decisions, PreserveRow(d) PROVE Inv'
  <2>1. row[d] \in Record
    BY <1>10, <1>r, SlotCases DEF PreserveRow, Inv, TaskInv, Rows
  <2>2. Newest(spool[d], row[d]) \in Slot
    BY <1>r, <2>1, NewestType DEF Rows, Slot
  <2>3. spool' \in Rows
    BY <1>10, <1>r, <2>2 DEF PreserveRow, Rows
  <2>4. TypeOK'
    BY <1>10, <1>f, <1>r, <2>3 DEF PreserveRow, Inv, TypeOK, RowsType, TasksType, PubType, AudType,
       DurableType, WorldType, Rows, NoHalt
  <2>5. TaskInv' /\ PhaseInv'
    BY <1>10 DEF PreserveRow, Inv, TaskInv, PhaseInv, Unclaimed, NoHalt
  <2> QED
    BY <2>4, <2>5 DEF Inv
<1>11. CASE PreserveEnds
  <2>1. /\ UNCHANGED <<row, dirty, pending, fresh, pub, aud, susp, stopped, guard, late, due, saved,
                       spool, db, redis, mask, issued, heard>>
        /\ phase' = "draining" /\ toSave' = {} /\ campDirty' \in BOOLEAN /\ durStop' \in BOOLEAN
    BY <1>11, <1>r DEF PreserveEnds, HaltType
  <2>2. spent' \in [prices : Nat, faults : Nat, restarts : Nat]
    BY <1>11, <1>f, <1>r DEF PreserveEnds, WorldType
  <2>3. TypeOK'
    BY <2>1, <2>2 DEF Inv, TypeOK, RowsType, TasksType, PubType, AudType, DurableType, WorldType
  <2>4. TaskInv' /\ PhaseInv'
    BY <1>11, <2>1 DEF PreserveEnds, Inv, TaskInv, PhaseInv, Unclaimed
  <2> QED
    BY <2>3, <2>4 DEF Inv
<1>12. CASE Exit
  <2>1. DurableType' /\ WorldType'
    BY <1>12, <1>r DEF Exit, durable, DurableType, WorldType
  <2> QED
    BY <1>12, <2>1, ResetInv DEF Exit
<1>13. CASE Crash
  <2>1. DurableType' /\ WorldType'
    BY <1>13, <1>r, <1>f DEF Crash, durable, DurableType, WorldType
  <2> QED
    BY <1>13, <2>1, ResetInv DEF Crash
<1> QED
  BY <1>1, <1>2, <1>3, <1>4, <1>5, <1>6, <1>7, <1>8, <1>9, <1>10, <1>11, <1>12, <1>13 DEF Lifecycle

LEMMA StutterInv == Inv /\ UNCHANGED vars => Inv'
<1> SUFFICES ASSUME Inv, UNCHANGED vars PROVE Inv'
  OBVIOUS
<1>1. TypeOK'
  BY DEF vars, memory, durable, world, Inv, TypeOK, RowsType, TasksType, PubType, AudType,
         DurableType, WorldType
<1>2. TaskInv' /\ PhaseInv'
  BY DEF vars, memory, durable, world, Inv, TaskInv, PhaseInv, Unclaimed
<1> QED
  BY <1>1, <1>2 DEF Inv
----------------------------------------------------------------------------
(* The theorems. *)

\* Inv is inductive: every task of the runtime preserves it.
THEOREM Invariance == Spec => []Inv
<1>1. Inv /\ [Next]_vars => Inv'
  BY CalculateInv, PublishInv, AuditInv, GuardInv, LifecycleInv, StutterInv DEF Next
<1> QED
  BY <1>1, InitInv, PTL DEF Spec

\* Every variable keeps its type, so every version, status and target of a record stays one
\* that GhostSpool and GhostAuditStore can validate.
THEOREM TypeCorrect == Spec => []TypeOK
BY Invariance, PTL DEF Inv

\* No task of the runtime ever holds a reference to a row that has left memory: the audit
\* task's removal of a settled row races neither the publication task nor the final pass.
THEOREM ReferencesAlive == Spec => []ReferencesLive
<1>1. Inv => ReferencesLive
  BY DEF Inv, TypeOK, TasksType, TaskInv, ReferencesLive, Live
<1> QED
  BY <1>1, Invariance, PTL

----------------------------------------------------------------------------
(* A stop. *)

\* A stop on disk is known to the process, and the campaign write that is under way neither
\* invents a stop nor takes one back.
StopInv ==
  /\ durStop /\ phase # "down" => stopped
  /\ aud.at = "campaign" /\ aud.rec => stopped
  /\ aud.at = "campaign" /\ durStop => aud.rec

\* What the handlers of the running tasks may do to a stop.
LEMMA StopKept ==
  ASSUME StopInv, stopped => stopped', durStop' = durStop, aud' \in {aud, Idle},
         phase' = phase \/ phase # "down"
  PROVE  StopInv'
BY DEF StopInv, Idle

LEMMA CalculateStop == Inv /\ StopInv /\ Calculate => StopInv'
<1> SUFFICES ASSUME Inv, StopInv, Calculate PROVE StopInv'
  OBVIOUS
<1>1. aud' = aud /\ phase' = phase /\ durStop' = durStop
  BY DEF Calculate, Issue, OfferGap, ClockFault, OtherStop, FinalizeDue, OfferTwap, WindowElapses, durable
<1>2. stopped => stopped'
  BY DEF Calculate, Issue, OfferGap, ClockFault, OtherStop, FinalizeDue, OfferTwap, WindowElapses,
         StopWith, Proceed, ProceedWith
<1> QED
  BY <1>1, <1>2, StopKept

LEMMA PublishStop == Inv /\ StopInv /\ Publish => StopInv'
<1> SUFFICES ASSUME Inv, StopInv, Publish PROVE StopInv'
  OBVIOUS
<1>1. aud' = aud /\ phase' = phase /\ durStop' = durStop
  BY DEF Publish, PublishRefused, PublishWithheld, PublishIntent, PublishPreempted, PublishMasked,
         PublishAttempt, PublishTooLate, PublishSpoolFails, PublishCancelled, RedisApplies,
         PublishEnds, PublisherKeeps, durable, memory
<1>2. stopped => stopped'
  BY DEF Publish, PublishRefused, PublishWithheld, PublishIntent, PublishPreempted, PublishMasked,
         PublishAttempt, PublishTooLate, PublishSpoolFails, PublishCancelled, RedisApplies,
         PublishEnds, memory, Refuse, Decided, SuspendWith, Proceed, ProceedWith, IoFailure, StopWith
<1> QED
  BY <1>1, <1>2, StopKept

LEMMA AuditStop == Inv /\ StopInv /\ Audit => StopInv'
<1> SUFFICES ASSUME Inv, StopInv, Audit PROVE StopInv'
  OBVIOUS
<1>1. phase' = phase /\ (stopped => stopped')
  BY DEF Audit, CampaignBegin, CampaignSaved, AuditSpooled, AuditPersisted, AuditRemoved, AuditFails,
         AuditCancelled, LateNoted, LateFails, FlushEnds, AuditBegin, AuditKeeps, NoHalt, Resumes,
         IoFailure, ProceedWith, SuspendWith, StopWith
<1>2. CASE CampaignBegin
  BY <1>1, <1>2 DEF CampaignBegin, durable, StopInv, Auditing
<1>3. CASE TakesEffect /\ aud' = Idle
  BY <1>1, <1>3 DEF TakesEffect, StopInv, Idle
<1>4. CASE durStop' = durStop /\ aud'.at # "campaign"
  BY <1>1, <1>4 DEF StopInv
<1>5. CASE durStop' = durStop /\ aud' = aud
  BY <1>1, <1>5, StopKept
<1>6. CASE AuditSpooled \/ AuditPersisted
  <2>1. durStop' = durStop
    BY <1>6 DEF AuditSpooled, AuditPersisted, TakesEffect
  <2>2. aud'.at # "campaign"
    BY <1>6 DEF AuditSpooled, AuditPersisted, Inv, TypeOK, TasksType, AudType, Idle
  <2> QED
    BY <2>1, <2>2, <1>4
<1>7. CASE CampaignSaved \/ AuditRemoved \/ AuditFails \/ AuditCancelled
  BY <1>3, <1>4, <1>7 DEF CampaignSaved, AuditRemoved, AuditFails, AuditCancelled, durable, Idle
<1>8. CASE LateNoted \/ LateFails \/ FlushEnds
  BY <1>5, <1>8 DEF LateNoted, LateFails, FlushEnds, Noting, durable
<1>9. CASE \E d \in Decisions : AuditBegin(d)
  BY <1>4, <1>9 DEF AuditBegin, durable
<1> QED
  BY <1>2, <1>6, <1>7, <1>8, <1>9 DEF Audit

LEMMA GuardStop == Inv /\ StopInv /\ Guard => StopInv'
<1> SUFFICES ASSUME Inv, StopInv, Guard PROVE StopInv'
  OBVIOUS
<1>1. aud' = aud /\ phase' = phase /\ durStop' = durStop
  BY DEF Guard, GuardMeasured, NoCapacity, GuardFails, GuardAges, CheckpointDue, StaleGuardSeen, GuardKeeps, durable
<1>2. stopped => stopped'
  BY DEF Guard, GuardMeasured, NoCapacity, GuardFails, GuardAges, CheckpointDue, StaleGuardSeen, Resumes, Proceed,
         ProceedWith, SuspendWith, StopWith, IoFailure
<1> QED
  BY <1>1, <1>2, StopKept

LEMMA LifecycleStop == Inv /\ StopInv /\ Lifecycle => StopInv' /\ (durStop => durStop')
<1> SUFFICES ASSUME Inv, StopInv, Lifecycle PROVE StopInv' /\ (durStop => durStop')
  OBVIOUS
<1> USE DEF StopInv
<1>1. CASE Start
  BY <1>1 DEF Start, Reset, durable, Idle
<1>2. CASE RecoverRemoved \/ \E d \in Decisions : RecoverSpooled(d)
  BY <1>2 DEF RecoverRemoved, RecoverSpooled, RecoveryKeeps, NoHalt, AuditKeeps, Idle
<1>3. CASE Started
  BY <1>3 DEF Started, Proceed, ProceedWith, StopWith, SuspendWith, durable, Idle
<1>4. CASE StartFails
  BY <1>4 DEF StartFails, Reset, Idle
<1>5. CASE Close \/ DeadlinePasses \/ Freeze
  BY <1>5 DEF Close, DeadlinePasses, Freeze, durable
<1>6. CASE \E d \in Decisions : PreserveRow(d)
  BY <1>6 DEF PreserveRow, NoHalt
<1>7. CASE PreserveEnds
  BY <1>7 DEF PreserveEnds, Inv, PhaseInv, Idle
<1>8. CASE Exit \/ Crash
  BY <1>8 DEF Exit, Crash, Reset, durable, Idle
<1> QED
  BY <1>1, <1>2, <1>3, <1>4, <1>5, <1>6, <1>7, <1>8 DEF Lifecycle

\* A stop that reached campaign.json is never forgotten, by any number of restarts and failed
\* writes, and no decision is issued and no command sent after it.
THEOREM StopNeverUndone == Spec => StopIsFinal
<1> DEFINE Final == durStop => /\ durStop' /\ issued' = issued
                               /\ \A d \in Decisions : redis[d] = "never" => redis'[d] = "never"
<1>1. Init => StopInv
  BY DEF Init, StopInv, Idle
<1>2. Inv /\ StopInv /\ [Next]_vars => StopInv'
  <2>1. Inv /\ StopInv /\ UNCHANGED vars => StopInv'
    BY DEF StopInv, vars, memory, durable
  <2> QED
    BY <2>1, CalculateStop, PublishStop, AuditStop, GuardStop, LifecycleStop DEF Next
<1>3. ASSUME Inv, StopInv, Next, durStop
      PROVE  Final
  <2>1. CASE Calculate
    BY <2>1, <1>3 DEF Calculate, Issue, OfferGap, ClockFault, OtherStop, FinalizeDue, OfferTwap,
       WindowElapses, durable, world, StopInv
  <2>2. CASE Publish
    <3>1. durStop' = durStop /\ issued' = issued
      BY <2>2 DEF Publish, PublishRefused, PublishWithheld, PublishIntent, PublishPreempted,
         PublishMasked, PublishAttempt, PublishTooLate, PublishSpoolFails, PublishCancelled,
         RedisApplies, PublishEnds, PublisherKeeps, durable
    <3>2. \A d \in Decisions : ~PublishAttempt(d)
      BY <1>3 DEF PublishAttempt, Publishable, Open, Shut, StopInv
    <3>3. redis' = redis \/ \E d \in Decisions : RedisApplies(d)
      BY <2>2, <3>2 DEF Publish, PublishRefused, PublishWithheld, PublishIntent, PublishPreempted,
         PublishMasked, PublishTooLate, PublishSpoolFails, PublishCancelled, PublishEnds
    <3>4. ASSUME NEW d \in Decisions, RedisApplies(d), NEW e \in Decisions, redis[e] = "never"
          PROVE  redis'[e] = "never"
      BY <1>3, <3>4 DEF RedisApplies, Inv, TypeOK, WorldType
    <3> QED
      BY <1>3, <3>1, <3>3, <3>4
  <2>3. CASE Audit
    <3>1. issued' = issued /\ redis' = redis
      BY <2>3 DEF Audit, CampaignBegin, CampaignSaved, AuditSpooled, AuditPersisted, AuditRemoved,
         AuditFails, AuditCancelled, LateNoted, LateFails, FlushEnds, AuditBegin, AuditKeeps
    <3>2. durStop' = durStop \/ TakesEffect
      BY <2>3 DEF Audit, CampaignBegin, CampaignSaved, AuditSpooled, AuditPersisted, AuditRemoved,
         AuditFails, AuditCancelled, LateNoted, LateFails, FlushEnds, AuditBegin, Noting, durable
    <3>3. TakesEffect => durStop'
      BY <1>3 DEF TakesEffect, StopInv
    <3> QED
      BY <1>3, <3>1, <3>2, <3>3
  <2>4. CASE Guard
    BY <2>4, <1>3 DEF Guard, GuardMeasured, NoCapacity, GuardFails, GuardAges, CheckpointDue, StaleGuardSeen,
       GuardKeeps, durable
  <2>5. CASE Lifecycle
    <3>1. issued' = issued /\ redis' = redis
      BY <2>5 DEF Lifecycle, Start, RecoverRemoved, RecoverSpooled, RecoveryKeeps,
         AuditKeeps, Started, StartFails, Close, DeadlinePasses, Freeze, PreserveRow, PreserveEnds,
         Exit, Crash, world
    <3> QED
      BY <1>3, <2>5, <3>1, LifecycleStop
  <2> QED
    BY <1>3, <2>1, <2>2, <2>3, <2>4, <2>5 DEF Next
<1>4. Inv /\ StopInv /\ [Next]_vars => [Final]_vars
  BY <1>3
<1> QED
  BY <1>1, <1>2, <1>4, Invariance, PTL DEF Spec, StopIsFinal
----------------------------------------------------------------------------
(* An acknowledgement. *)

\* A decision waits, is written and is sent at most once, in that order.
SendInv ==
  /\ \A d \in Decisions : d \notin issued => redis[d] = "never"
  /\ pending # None => redis[pending] = "never" /\ pub.d # pending
  /\ pub.at = "spool" => redis[pub.d] = "never"

Quiet(r) == r # None => r.st # "acknowledged"
\* A copy of every record that claims no acknowledgement Redis has not given.
Hush(copy) == \A d \in Decisions : redis[d] # "applied" => Quiet(copy[d])

TruthInv ==
  /\ Hush(row) /\ Hush(spool) /\ Hush(db)
  /\ pub # Idle /\ redis[pub.d] # "applied" => Quiet(pub.rec)
  /\ aud.d # None /\ redis[aud.d] # "applied" => Quiet(aud.rec)

\* The facts of types the steps below need.
LEMMA Typed ==
  ASSUME Inv
  PROVE  /\ row \in Rows /\ spool \in Rows /\ db \in Rows /\ HaltType
         /\ redis \in [Decisions -> {"never", "sent", "applied"}]
         /\ pending # None => pending \in Decisions /\ row[pending] # None
         /\ pub # Idle => pub.d \in Decisions /\ row[pub.d] # None /\ pub.rec \in Record
         /\ pub # Idle => pub.at \in {"spool", "eval"}
         /\ aud.d # None => aud.d \in Decisions /\ aud.rec \in Record
         /\ aud.at \in {"spool", "persist", "remove", "recovered"} => aud.d # None
         /\ pub = Idle => pub.d = None /\ pub.at = "idle"
BY NoneIsNoDecision DEF Inv, TypeOK, RowsType, TasksType, PubType, AudType, DurableType, WorldType, Rows, HaltType,
       TaskInv, Idle

LEMMA SameHush ==
  ASSUME NEW a, NEW b, Hush(a), SameRows(a, b)
  PROVE  Hush(b)
BY DEF Hush, Quiet, SameRows, Same

LEMMA WithHush ==
  ASSUME row \in Rows, Hush(row), NEW d \in Decisions, NEW r, redis[d] # "applied" => Quiet(r)
  PROVE  Hush(With(d, r))
BY DEF Hush, With, Rows

LEMMA NewestHush ==
  ASSUME NEW old \in Rows, Hush(old), NEW d \in Decisions, NEW r,
         redis[d] # "applied" => Quiet(r)
  PROVE  Hush([old EXCEPT ![d] = r])
BY DEF Hush, Rows

\* A step that withdraws no acknowledgement and adds no claim.
LEMMA StepTruth ==
  ASSUME \A d \in Decisions : redis'[d] # "applied" => redis[d] # "applied",
         Hush(row'), Hush(spool'), Hush(db'),
         pub' # Idle => pub'.d \in Decisions /\ (redis[pub'.d] # "applied" => Quiet(pub'.rec)),
         aud'.d # None => aud'.d \in Decisions /\ (redis[aud'.d] # "applied" => Quiet(aud'.rec))
  PROVE  TruthInv'
BY DEF TruthInv, Hush, Quiet

LEMMA CalculateTruth == Inv /\ SendInv /\ TruthInv /\ Calculate => SendInv' /\ TruthInv'
<1> SUFFICES ASSUME Inv, SendInv, TruthInv, Calculate PROVE SendInv' /\ TruthInv'
  OBVIOUS
<1>1. UNCHANGED <<pub, aud, spool, db, redis>>
  BY DEF Calculate, Issue, OfferGap, ClockFault, OtherStop, FinalizeDue, OfferTwap, WindowElapses,
         durable, world
<1>2. Hush(row') => TruthInv'
  BY <1>1, Typed, StepTruth DEF TruthInv
<1>r. row \in Rows /\ HaltType /\ Hush(row)
  BY Typed DEF TruthInv
<1>3. ASSUME NEW d \in Decisions, NEW avail \in Priced, Issue(d, avail) PROVE SendInv' /\ Hush(row')
  <2> DEFINE coalesced == IF pending = None THEN row
                          ELSE With(pending, SetStatus(row[pending], "coalesced_before_publication"))
  <2>1. pending # None =>
          /\ SetStatus(row[pending], "coalesced_before_publication") \in Record
          /\ SetStatus(row[pending], "coalesced_before_publication").st = "coalesced_before_publication"
    BY Typed, SetStatusType, SlotCases DEF Rows, PubStatus, DeniedStatus
  <2>2. Hush(coalesced) /\ coalesced \in Rows
    BY <1>r, <2>1, Typed, WithHush DEF Quiet, With, Rows, Slot
  <2>3. NewRecord(Aim[d], avail).st = "reserved"
    BY DEF NewRecord
  <2>4. row' = [coalesced EXCEPT ![d] = NewRecord(Aim[d], avail)]
    BY <1>3 DEF Issue, SetRows
  <2>5. Hush(row')
    BY <2>2, <2>3, <2>4, NewestHush DEF Quiet
  <2>6. /\ d \notin issued /\ issued' = issued \cup {d} /\ pending' = d /\ row[d] = None
        /\ redis[d] = "never"
    BY <1>3 DEF Issue, Inv, TaskInv, SendInv
  <2>7. pub.d # d
    BY <2>6, Typed, NoneIsNoDecision
  <2>8. SendInv'
    BY <1>1, <2>6, <2>7 DEF SendInv
  <2> QED
    BY <2>5, <2>8
<1>4. UNCHANGED <<pending, issued>> => SendInv'
  BY <1>1 DEF SendInv
<1>5. CASE OfferGap
  BY <1>2, <1>4, <1>5, <1>r DEF OfferGap, world
<1>6. ASSUME NEW s \in Stamps, NEW v \in Values, OfferTwap(s, v) PROVE SendInv' /\ Hush(row')
  <2> DEFINE seen == [d \in Decisions |-> IF row[d] = None THEN None
                                          ELSE Observed(row[d], s, v, d \in due)]
  <2>1. Hush(seen) /\ seen \in Rows
    BY <1>r, ObservedSame, SameHush DEF SameRows
  <2>2. SameRows(seen, row')
    BY <1>6, <2>1, <1>r, StopRows, ProceedRows DEF OfferTwap, Proceed
  <2> QED
    BY <1>4, <1>6, <2>1, <2>2, SameHush DEF OfferTwap
<1>7. CASE ClockFault
  <2> DEFINE rows == [d \in Decisions |-> IF row[d] = None THEN None ELSE Invalidated(row[d])]
  <2>1. Hush(rows) /\ rows \in Rows
    BY <1>r, InvalidatedSame, SameHush DEF SameRows
  <2>2. SameRows(rows, row')
    BY <1>7, <2>1, <1>r, StopRows DEF ClockFault
  <2> QED
    BY <1>2, <1>4, <1>7, <2>1, <2>2, SameHush DEF ClockFault
<1>8. CASE OtherStop
  <2>1. SameRows(row, row')
    BY <1>8, <1>r, StopRows DEF OtherStop
  <2> QED
    BY <1>2, <1>4, <1>8, <1>r, <2>1, SameHush DEF OtherStop
<1>9. ASSUME NEW d \in Decisions, WindowElapses(d) PROVE SendInv' /\ Hush(row')
  BY <1>4, <1>9, <1>r DEF WindowElapses, world
<1>10. CASE FinalizeDue
  <2> DEFINE rows == [d \in Decisions |-> IF d \in due THEN Closed(row[d], "missing") ELSE row[d]]
  <2>1. \A d \in Decisions : d \in due => Closed(row[d], "missing").st = row[d].st /\ row[d] # None
    BY <1>r, ClosedType, SlotCases DEF Inv, TaskInv, TargetStatus, Rows
  <2>2. Hush(rows)
    BY <2>1, <1>r DEF Hush, Quiet
  <2>3. row' = rows
    BY <1>10 DEF FinalizeDue, Proceed, ProceedWith, SetRows
  <2> QED
    BY <1>2, <1>4, <1>10, <2>2, <2>3 DEF FinalizeDue, world
<1> QED
  BY <1>2, <1>3, <1>5, <1>6, <1>7, <1>8, <1>9, <1>10 DEF Calculate

LEMMA RefuseHush ==
  ASSUME Inv, Hush(row), NEW d \in Decisions, row[d] # None, NEW s \in DeniedStatus, Refuse(d, s)
  PROVE  Hush(row')
<1> DEFINE r == SetStatus(row[d], s)
<1>1. s \in PubStatus /\ s # "acknowledged" /\ row \in Rows /\ HaltType
  BY Typed DEF PubStatus, DeniedStatus
<1>2. r \in Record /\ r.st = s
  BY <1>1, SetStatusType, SlotCases DEF Rows
<1>3. Hush(With(d, r)) /\ With(d, r) \in Rows
  BY <1>1, <1>2, WithHush DEF Quiet, With, Rows, Slot
<1>4. CASE Decided(d, r)
  BY <1>3, <1>4 DEF Decided, SetRows
<1>5. CASE SuspendWith("guard", With(d, r), {})
  BY <1>1, <1>3, <1>5, SuspendRows, SameHush DEF Scopes
<1> QED
  BY <1>4, <1>5 DEF Refuse

LEMMA SpooledHush ==
  ASSUME Inv, TruthInv, NEW d \in Decisions, Spooled(d)
  PROVE  Hush(spool') /\ row[d] # None /\ pub # Idle
<1>1. pub # Idle /\ pub.d = d /\ pub.rec \in Record /\ row[d] # None /\ spool \in Rows
  BY Typed DEF Spooled, Idle
<1>2. Newest(spool[d], pub.rec) \in {spool[d], pub.rec}
  BY <1>1, NewestType DEF Rows
<1>3. redis[d] # "applied" => Quiet(Newest(spool[d], pub.rec))
  BY <1>1, <1>2 DEF TruthInv, Hush
<1> QED
  BY <1>1, <1>3, NewestHush DEF Spooled, TruthInv

LEMMA PublishTruth == Inv /\ SendInv /\ TruthInv /\ Publish => SendInv' /\ TruthInv'
<1> SUFFICES ASSUME Inv, SendInv, TruthInv, Publish PROVE SendInv' /\ TruthInv'
  OBVIOUS
<1> USE Typed
<1>r. row \in Rows /\ Hush(row) /\ Hush(spool) /\ Hush(db) /\ HaltType
  BY DEF TruthInv
<1>s. \A d \in Decisions : row[d] # None => \A s \in PubStatus :
        SetStatus(row[d], s) \in Record /\ SetStatus(row[d], s).st = s
  BY SetStatusType, SlotCases DEF Rows
<1>t. DeniedStatus \subseteq PubStatus /\ OpenStatus \subseteq PubStatus /\ WireStatus \subseteq PubStatus
      /\ "acknowledged" \notin DeniedStatus
  BY DEF PubStatus, DeniedStatus
<1>d. ASSUME NEW d \in Decisions, NEW r, Decided(d, r), redis[d] # "applied" => Quiet(r)
      PROVE  Hush(row')
  BY <1>d, <1>r, WithHush DEF Decided, SetRows
\* Steps after which the task holds nothing and Redis has received nothing.
<1>n. PublisherKeeps /\ pub' = Idle /\ pending' \in {pending, None} /\ UNCHANGED redis
      /\ Hush(row') /\ Hush(spool') => SendInv' /\ TruthInv'
  <2> SUFFICES ASSUME PublisherKeeps, pub' = Idle, pending' \in {pending, None}, UNCHANGED redis,
                      Hush(row'), Hush(spool')
               PROVE  SendInv' /\ TruthInv'
    OBVIOUS
  <2>1. SendInv'
    BY DEF SendInv, PublisherKeeps, Idle
  <2>2. TruthInv'
    BY StepTruth DEF PublisherKeeps, TruthInv
  <2> QED
    BY <2>1, <2>2
<1>1. CASE PublishRefused
  BY <1>1, <1>r, <1>n, RefuseHush DEF PublishRefused, DeniedStatus
<1>2. CASE PublishWithheld
  <2> DEFINE r == SetStatus(row[pending], "intent")
  <2>1. pending \in Decisions /\ r \in Record
    BY <1>2, <1>s, <1>t DEF PublishWithheld, OpenStatus
  <2>2. SetStatus(r, "no_eligible_horizons").st = "no_eligible_horizons"
    BY <2>1, <1>t, SetStatusType DEF DeniedStatus
  <2>3. Hush(row')
    BY <1>2, <1>d, <2>1, <2>2 DEF PublishWithheld, Quiet
  <2> QED
    BY <1>2, <1>r, <1>n, <2>3 DEF PublishWithheld
<1>3. CASE PublishIntent
  <2> DEFINE rec == SetStatus(row[pending], "intent")
  <2>1. pending \in Decisions /\ pending # None /\ rec \in Record /\ rec.st = "intent"
    BY <1>3, <1>s, <1>t DEF PublishIntent, OpenStatus
  <2>2. ProceedWith(With(pending, rec), {})
    BY <1>3 DEF PublishIntent, Proceed
  <2>3. Hush(row')
    BY <1>r, <2>1, <2>2, WithHush DEF ProceedWith, SetRows, Quiet
  <2>4. pub' = [at |-> "spool", d |-> pending, rec |-> rec] /\ pending' = None
    BY <1>3 DEF PublishIntent
  <2>5. SendInv'
    BY <1>3, <2>1, <2>4 DEF SendInv, PublishIntent, PublisherKeeps
  <2>6. TruthInv'
    BY <1>3, <1>r, <2>1, <2>3, <2>4, StepTruth DEF PublishIntent, PublisherKeeps, TruthInv, Quiet
  <2> QED
    BY <2>5, <2>6
<1>4. ASSUME NEW d \in Decisions, PublishPreempted(d) PROVE SendInv' /\ TruthInv'
  BY <1>4, <1>r, <1>n, RefuseHush, SpooledHush DEF PublishPreempted, DeniedStatus
<1>5. ASSUME NEW d \in Decisions, PublishMasked(d) PROVE SendInv' /\ TruthInv'
  BY <1>5, <1>n, <1>s, <1>t, <1>d, SpooledHush DEF PublishMasked, DeniedStatus, Quiet
<1>a. ASSUME NEW d \in Decisions, row[d] # None
      PROVE  Attempt(d) \in Record /\ Attempt(d).st = "attempting"
  <2>1. \A q \in Record, m \in SUBSET Horizons :
          [q EXCEPT !.sel = m] \in Record /\ [q EXCEPT !.sel = m].st = q.st
    BY DEF Record
  <2>2. Eligible(row[d]) \in SUBSET Horizons
    BY DEF Eligible
  <2> QED
    BY <1>a, <1>s, <1>t, <2>1, <2>2 DEF Attempt, OpenStatus
<1>6. ASSUME NEW d \in Decisions, PublishAttempt(d) PROVE SendInv' /\ TruthInv'
  <2>1. Hush(spool') /\ row[d] # None /\ pub # Idle /\ pub.d = d /\ pub.at = "spool"
    BY <1>6, SpooledHush DEF PublishAttempt, Spooled
  <2>2. Hush(row')
    BY <1>6, <1>a, <1>d, <2>1 DEF PublishAttempt, Quiet
  <2>3. redis' = [redis EXCEPT ![d] = "sent"] /\ redis[d] = "never"
    BY <1>6, <2>1 DEF PublishAttempt, SendInv
  <2>4. pub \in [at : {"spool", "eval"}, d : Decisions, rec : Record]
    BY <2>1 DEF Inv, TypeOK, TasksType, PubType
  <2>5. pub'.at = "eval" /\ pub'.d = pub.d /\ pub'.rec = pub.rec
    BY <1>6, <2>4 DEF PublishAttempt
  <2>6. pending' = pending /\ issued' = issued /\ aud' = aud /\ db' = db
    BY <1>6 DEF PublishAttempt, PublisherKeeps
  <2>7. d \in issued
    BY <2>1 DEF Inv, TaskInv
  <2>8. SendInv'
    BY <2>1, <2>3, <2>5, <2>6, <2>7 DEF SendInv
  <2>9. TruthInv'
    BY <1>r, <2>1, <2>2, <2>3, <2>5, <2>6, StepTruth DEF TruthInv
  <2> QED
    BY <2>8, <2>9
<1>7. ASSUME NEW d \in Decisions, PublishTooLate(d) PROVE SendInv' /\ TruthInv'
  <2>1. SetStatus(Attempt(d), "expired_before_attempt").st = "expired_before_attempt"
    BY <1>7, <1>a, <1>t, SpooledHush, SetStatusType DEF PublishTooLate, DeniedStatus
  <2>2. Hush(row')
    BY <1>7, <1>d, <2>1 DEF PublishTooLate, Quiet
  <2> QED
    BY <1>7, <1>n, <2>2, SpooledHush DEF PublishTooLate
<1>8. ASSUME NEW d \in Decisions, PublishSpoolFails(d) PROVE SendInv' /\ TruthInv'
  <2> DEFINE r == SetStatus(row[d], "spool_unavailable")
  <2>1. pub # Idle /\ pub.d = d
    BY <1>8 DEF PublishSpoolFails, Idle
  <2>2. r \in Record /\ r.st = "spool_unavailable"
    BY <2>1, <1>s, <1>t DEF DeniedStatus
  <2>3. Hush(With(d, r)) /\ With(d, r) \in Rows
    BY <1>r, <2>2, WithHush DEF Quiet, With, Rows, Slot
  <2>4. SameRows(With(d, r), row')
    BY <1>8, <1>r, <2>3, IoFailureRows DEF PublishSpoolFails, Scopes
  <2>5. Hush(row') /\ Hush(spool')
    BY <1>8, <1>r, <2>3, <2>4, SameHush, SpooledHush DEF PublishSpoolFails
  <2> QED
    BY <1>8, <1>n, <2>5 DEF PublishSpoolFails
<1>9. ASSUME NEW d \in Decisions, RedisApplies(d) PROVE SendInv' /\ TruthInv'
  <2>1. redis[d] = "sent" /\ redis' = [redis EXCEPT ![d] = "applied"]
        /\ UNCHANGED <<row, spool, db, pub, aud, pending, issued>>
    BY <1>9 DEF RedisApplies, memory, durable
  <2>2. SendInv'
    BY <2>1 DEF SendInv
  <2>3. TruthInv'
    BY <1>r, <2>1, StepTruth DEF TruthInv
  <2> QED
    BY <2>2, <2>3
<1>10. ASSUME NEW d \in Decisions, NEW status \in WireStatus, PublishEnds(d, status)
       PROVE  SendInv' /\ TruthInv'
  <2>1. pub # Idle /\ pub.d = d
    BY <1>10 DEF PublishEnds, Idle
  <2>2. SetStatus(row[d], status).st = status
    BY <2>1, <1>s, <1>t
  <2>3. Hush(row')
    BY <1>10, <1>d, <2>2 DEF PublishEnds, Quiet
  <2> QED
    BY <1>10, <1>r, <1>n, <2>3 DEF PublishEnds
<1>11. ASSUME NEW d \in Decisions, PublishCancelled(d) PROVE SendInv' /\ TruthInv'
  BY <1>11, <1>r, <1>n, SpooledHush DEF PublishCancelled
<1> QED
  BY <1>1, <1>2, <1>3, <1>4, <1>5, <1>6, <1>7, <1>8, <1>9, <1>10, <1>11 DEF Publish, WireStatus

LEMMA EffectHush ==
  ASSUME Inv, TruthInv, TakesEffect
  PROVE  Hush(spool') /\ Hush(db')
<1> USE Typed
<1>1. CASE aud.at = "campaign"
  BY <1>1 DEF TakesEffect, TruthInv
<1>2. CASE aud.at \in {"spool", "persist", "remove"}
  <2>1. aud.d \in Decisions /\ aud.rec \in Record /\ aud.d # None
    BY <1>2, NoneIsNoDecision
  <2>2. /\ Newest(spool[aud.d], aud.rec) \in {spool[aud.d], aud.rec}
        /\ Stored(db[aud.d], aud.rec) \in {db[aud.d], aud.rec}
    BY <2>1, NewestType, StoredType DEF Rows
  <2>3. redis[aud.d] # "applied" => /\ Quiet(Newest(spool[aud.d], aud.rec))
                                    /\ Quiet(Stored(db[aud.d], aud.rec))
    BY <2>1, <2>2 DEF TruthInv, Hush
  <2> QED
    BY <1>2, <2>1, <2>3, NewestHush, SMTT(60) DEF TakesEffect, TruthInv, Quiet
<1> QED
  BY <1>1, <1>2 DEF TakesEffect

LEMMA NotingHush ==
  ASSUME Inv, TruthInv, late # <<>>, Noting
  PROVE  Hush(spool') /\ Hush(db')
<1>1. Head(late) \in Prices
  BY DEF Inv, TypeOK, TasksType
<1>2. \A d \in Decisions : db[d] # None =>
        Noted(db[d], Head(late).stamp, Head(late).value).st = db[d].st
  BY <1>1, Typed, NotedType, SlotCases DEF Prices, Rows
<1> QED
  BY <1>2 DEF Noting, Hush, Quiet, TruthInv

LEMMA AuditTruth == Inv /\ SendInv /\ TruthInv /\ Audit => SendInv' /\ TruthInv'
<1> SUFFICES ASSUME Inv, SendInv, TruthInv, Audit PROVE SendInv' /\ TruthInv'
  OBVIOUS
<1> USE Typed
<1>1. UNCHANGED <<redis, pub, pending, issued>>
  BY DEF Audit, CampaignBegin, CampaignSaved, AuditSpooled, AuditPersisted, AuditRemoved, AuditFails,
         AuditCancelled, LateNoted, LateFails, FlushEnds, AuditBegin, AuditKeeps
<1>2. SendInv'
  BY <1>1 DEF SendInv
<1>3. Hush(row')
  <2>1. CASE SameRows(row, row')
    BY <2>1, SameHush DEF TruthInv
  <2>2. CASE UNCHANGED row
    BY <2>2 DEF TruthInv
  <2>3. CASE AuditRemoved
    BY <2>3 DEF AuditRemoved, With, TruthInv, Hush, Quiet, Rows
  <2>4. CASE AuditFails \/ LateFails
    BY <2>1, <2>4, IoFailureRows DEF AuditFails, LateFails, FailedRow, Scopes
  <2>5. CASE FlushEnds
    BY <2>1, <2>5, TouchedSame DEF FlushEnds, Resumes, SetRows
  <2> QED
    BY <2>2, <2>3, <2>4, <2>5 DEF Audit, CampaignBegin, CampaignSaved, AuditSpooled, AuditPersisted,
       AuditCancelled, LateNoted, AuditBegin
<1>4. Hush(spool') /\ Hush(db')
  BY EffectHush, NotingHush DEF Audit, CampaignBegin, CampaignSaved, AuditSpooled, AuditPersisted,
     AuditRemoved, AuditFails, AuditCancelled, LateNoted, LateFails, FlushEnds, AuditBegin, durable,
     TruthInv
<1>5. aud'.d # None => aud'.d \in Decisions /\ (redis[aud'.d] # "applied" => Quiet(aud'.rec))
  <2>1. CASE aud'.d = None
    BY <2>1
  <2>2. CASE aud' = aud
    BY <2>2 DEF TruthInv
  <2>3. ASSUME aud.at \in {"spool", "persist"}, NEW at, aud' = [aud EXCEPT !.at = at]
        PROVE  aud'.d # None => aud'.d \in Decisions /\ (redis[aud'.d] # "applied" => Quiet(aud'.rec))
    BY <2>3 DEF Inv, TypeOK, TasksType, AudType, Idle, TruthInv
  <2>4. ASSUME NEW d \in Decisions, AuditBegin(d)
        PROVE  aud'.d # None => aud'.d \in Decisions /\ (redis[aud'.d] # "applied" => Quiet(aud'.rec))
    BY <2>4 DEF AuditBegin, TruthInv, Hush
  <2>5. CASE AuditSpooled
    BY <2>3, <2>5 DEF AuditSpooled
  <2>6. CASE AuditPersisted
    BY <2>1, <2>3, <2>6 DEF AuditPersisted, Idle
  <2>7. CASE CampaignBegin \/ CampaignSaved \/ AuditRemoved \/ AuditFails \/ AuditCancelled
    BY <2>1, <2>7 DEF CampaignBegin, CampaignSaved, AuditRemoved, AuditFails, AuditCancelled, Idle
  <2>8. CASE LateNoted \/ LateFails \/ FlushEnds
    BY <2>2, <2>8 DEF LateNoted, LateFails, FlushEnds
  <2> QED
    BY <2>4, <2>5, <2>6, <2>7, <2>8 DEF Audit
<1> QED
  BY <1>1, <1>2, <1>3, <1>4, <1>5, StepTruth DEF TruthInv

LEMMA GuardTruth == Inv /\ SendInv /\ TruthInv /\ Guard => SendInv' /\ TruthInv'
<1> SUFFICES ASSUME Inv, SendInv, TruthInv, Guard PROVE SendInv' /\ TruthInv'
  OBVIOUS
<1> USE Typed
<1>1. UNCHANGED <<redis, pub, pending, issued, aud, spool, db>>
  BY DEF Guard, GuardMeasured, NoCapacity, GuardFails, GuardAges, CheckpointDue, StaleGuardSeen, GuardKeeps, durable
<1>2. SameRows(row, row')
  BY StopRows, SuspendRows, ProceedRows, IoFailureRows, TouchedSame, SameItself
     DEF Guard, GuardMeasured, NoCapacity, GuardFails, GuardAges, CheckpointDue, StaleGuardSeen, Proceed, Resumes,
         SetRows, Scopes
<1>3. SendInv'
  BY <1>1 DEF SendInv
<1> QED
  BY <1>1, <1>2, <1>3, SameHush, StepTruth DEF TruthInv

\* The copies a restart throws away make no claim.
LEMMA EmptyHush ==
  ASSUME NEW copy, copy = [d \in Decisions |-> None]
  PROVE  Hush(copy)
BY DEF Hush, Quiet

LEMMA LifecycleTruth == Inv /\ SendInv /\ TruthInv /\ Lifecycle => SendInv' /\ TruthInv'
<1> SUFFICES ASSUME Inv, SendInv, TruthInv, Lifecycle PROVE SendInv' /\ TruthInv'
  OBVIOUS
<1> USE Typed
<1>r. Hush(row) /\ Hush(spool) /\ Hush(db)
  BY DEF TruthInv
<1>1. redis' = redis /\ issued' = issued
  BY DEF Lifecycle, Start, RecoverRemoved, RecoverSpooled, RecoveryKeeps, AuditKeeps,
     Started, StartFails, Close, DeadlinePasses, Freeze, PreserveRow, PreserveEnds, Exit, Crash, world
<1>2. ASSUME pub' \in {pub, Idle}, pending' \in {pending, None} PROVE SendInv'
  BY <1>1, <1>2 DEF SendInv, Idle
<1>3. ASSUME NEW stop, NEW camp, Reset(stop, camp), Hush(spool'), Hush(db') PROVE SendInv' /\ TruthInv'
  <2>1. Hush(row')
    BY <1>3, EmptyHush DEF Reset
  <2>2. TruthInv'
    BY <1>1, <1>3, <2>1, StepTruth DEF Reset, Idle
  <2> QED
    BY <1>2, <1>3, <2>2 DEF Reset
<1>4. CASE Start \/ StartFails \/ Exit \/ Crash
  BY <1>3, <1>4, <1>r DEF Start, StartFails, Exit, Crash, durable
<1>q. ASSUME NEW d \in Decisions, NEW r \in Record, redis[d] # "applied" => Quiet(r)
      PROVE  redis[d] # "applied" => Quiet(Reconciled(r))
  BY <1>q, ReconciledType, NoneIsApart DEF Quiet
<1>5. ASSUME NEW d \in Decisions, RecoverSpooled(d) PROVE SendInv' /\ TruthInv'
  <2>1. LatestOf(d) \in Record /\ LatestOf(d) \in {spool[d], db[d]} /\ spool[d] \in Record
    BY <1>5, SlotCases DEF RecoverSpooled, LatestOf, Rows
  <2>2. redis[d] # "applied" => Quiet(Reconciled(LatestOf(d)))
    BY <1>r, <1>q, <2>1 DEF Hush
  <2>3. Stored(db[d], Reconciled(LatestOf(d))) \in {db[d], Reconciled(LatestOf(d))}
    BY <2>1, ReconciledType, StoredType DEF Rows
  <2>4. Hush(db')
    BY <1>5, <1>r, <2>2, <2>3, NewestHush DEF RecoverSpooled, Hush
  <2>5. aud'.d = d /\ aud'.rec = spool[d] /\ UNCHANGED <<row, spool, pub, pending>>
    BY <1>5 DEF RecoverSpooled, RecoveryKeeps, AuditKeeps
  <2>6. SendInv'
    BY <1>2, <2>5
  <2>7. TruthInv'
    BY <1>1, <1>r, <2>4, <2>5, StepTruth DEF TruthInv, Hush
  <2> QED
    BY <2>6, <2>7
<1>6. CASE RecoverRemoved
  <2>1. aud.d \in Decisions /\ aud' = Idle /\ UNCHANGED <<row, db, pub, pending>>
    BY <1>6, NoneIsNoDecision DEF RecoverRemoved, RecoveryKeeps, AuditKeeps
  <2>2. Hush(spool')
    BY <1>6, <1>r, <2>1, NewestHush DEF RecoverRemoved, Quiet
  <2>3. SendInv'
    BY <1>2, <2>1
  <2>4. TruthInv'
    BY <1>1, <1>r, <2>1, <2>2, StepTruth DEF TruthInv, Idle
  <2> QED
    BY <2>3, <2>4
<1>7. Hush(StoredClosed)
  <2>1. \A d \in Decisions : db[d] # None => db[d] \in Record
    BY SlotCases DEF Rows
  <2>2. ASSUME NEW d \in Decisions, db[d] # None
        PROVE  redis[d] # "applied" => Quiet(Reconciled(db[d]))
    BY <1>r, <1>q, <2>1, <2>2 DEF Hush
  <2> QED
    BY <2>2 DEF StoredClosed, Hush, Quiet
\* The rest of start() and close() keeps what the tasks hold.
<1>k. ASSUME UNCHANGED <<pub, aud, db>>, pending' \in {pending, None}, Hush(row'), Hush(spool')
      PROVE  SendInv' /\ TruthInv'
  <2>1. SendInv'
    BY <1>2, <1>k
  <2>2. TruthInv'
    BY <1>1, <1>k, <1>r, StepTruth DEF TruthInv
  <2> QED
    BY <2>1, <2>2
<1>8. CASE Started
  <2>1. SameRows(row, row')
    BY <1>8, ProceedRows, StopRows, SuspendRows DEF Started, Proceed, Scopes
  <2>2. Hush(row') /\ Hush(spool') /\ Hush(db')
    BY <1>1, <1>7, <1>8, <1>r, <2>1, SameHush DEF Started, Hush
  <2>3. UNCHANGED <<pub, aud, pending>>
    BY <1>8 DEF Started
  <2>4. SendInv'
    BY <1>2, <2>3
  <2>5. TruthInv'
    BY <1>1, <1>r, <2>2, <2>3, StepTruth DEF TruthInv
  <2> QED
    BY <2>4, <2>5
<1>9. CASE Close \/ DeadlinePasses \/ PreserveEnds
  BY <1>9, <1>r, <1>k DEF Close, DeadlinePasses, PreserveEnds, durable
<1>10. CASE Freeze
  <2>1. \A d \in Decisions : row[d] # None => Closed(row[d], "restart_unmatched").st = row[d].st
    BY SlotCases, ClosedType DEF Rows, TargetStatus
  <2>2. Hush(row')
    BY <1>10, <1>r, <2>1 DEF Freeze, SetRows, Hush, Quiet
  <2> QED
    BY <1>10, <1>r, <1>k, <2>2 DEF Freeze, durable
<1>11. ASSUME NEW d \in Decisions, PreserveRow(d) PROVE SendInv' /\ TruthInv'
  <2>1. row[d] \in Record
    BY <1>11, SlotCases DEF PreserveRow, Inv, TaskInv, Rows
  <2>2. Newest(spool[d], row[d]) \in {spool[d], row[d]}
    BY <2>1, NewestType DEF Rows
  <2>3. redis[d] # "applied" => Quiet(Newest(spool[d], row[d]))
    BY <1>r, <2>2 DEF Hush
  <2>4. Hush([spool EXCEPT ![d] = Newest(spool[d], row[d])])
    BY <1>r, <2>3, NewestHush
  <2>5. Hush(spool')
    BY <1>11, <1>r, <2>4 DEF PreserveRow
  <2> QED
    BY <1>11, <1>r, <1>k, <2>5 DEF PreserveRow
<1> QED
  BY <1>4, <1>5, <1>6, <1>7, <1>8, <1>9, <1>10, <1>11 DEF Lifecycle

\* An acknowledgement in any copy of a record, however often the process died between the
\* Redis reply, the outbox and PostgreSQL, was given by Redis.
THEOREM AcknowledgedIsApplied == Spec => []AckIsTrue
<1>1. Init => SendInv /\ TruthInv
  BY NoneIsNoDecision DEF Init, SendInv, TruthInv, Hush, Quiet, Idle
<1>2. Inv /\ SendInv /\ TruthInv /\ [Next]_vars => SendInv' /\ TruthInv'
  <2>1. SendInv /\ TruthInv /\ UNCHANGED vars => SendInv' /\ TruthInv'
    BY DEF SendInv, TruthInv, Hush, Quiet, vars, memory, durable, world
  <2> QED
    BY <2>1, CalculateTruth, PublishTruth, AuditTruth, GuardTruth, LifecycleTruth DEF Next
<1>3. TruthInv => AckIsTrue
  BY DEF TruthInv, AckIsTrue, Hush, Quiet
<1> QED
  BY <1>1, <1>2, <1>3, Invariance, PTL DEF Spec
----------------------------------------------------------------------------
(***************************************************************************)
(* The evidence.  The copies of a record that memory, the tasks' hands,    *)
(* the outbox and PostgreSQL hold of one decision lie on one line of legal *)
(* transitions, with the live row at its end: nothing is refused, denied   *)
(* or lost, and the durable state implements AuditLedger.                  *)
(***************************************************************************)
(* One record after another. *)

\* q is r, or what legal transitions have made of it.
Line(r, q) ==
  \/ r = q
  \/ q.ver > r.ver /\ Legal(r, q) /\ (q.st = "reserved" => r.st = "reserved")

\* What a target says of itself agrees.
SoundTarget(t) ==
  /\ t.st = "matched" <=> t.first # None
  /\ t.conf \/ t.lead => t.st = "matched"
  /\ ~(t.conf /\ t.lead)

Sound(r) == \A h \in Horizons : /\ SoundTarget(r.tgt[h])
                                /\ r.inv => ~r.tgt[h].lead
                                /\ r.term => r.tgt[h].st # "pending"

\* A new lead takes an acknowledgement, and the horizon on the wire.
Earned(r, q) == \A h \in Horizons : q.tgt[h].lead => r.tgt[h].lead \/ (r.st = "acknowledged" /\ h \in r.sel)

Grown(r, q) == q \in Record /\ Sound(q) /\ Line(r, q) /\ Earned(r, q)

Restarted(r) == {h \in Horizons : r.tgt[h].st = "restart_unmatched"}

\* All that may happen to a row while its publication is not decided.
Evolved(r, q) ==
  Grown(r, q) /\ q.st = r.st /\ q.sel = r.sel /\ Restarted(q) \subseteq Restarted(r)

LEMMA TargetKeptTransitive ==
  ASSUME NEW a \in Target, NEW b \in Target, NEW c \in Target, TargetKept(a, b), TargetKept(b, c)
  PROVE  TargetKept(a, c)
BY DEF TargetKept

LEMMA LegalTransitive ==
  ASSUME NEW a \in Record, NEW b \in Record, NEW c \in Record, Legal(a, b), Legal(b, c)
  PROVE  Legal(a, c)
<1>1. \A h \in Horizons : TargetKept(a.tgt[h], c.tgt[h])
  <2> TAKE h \in Horizons
  <2>1. a.tgt[h] \in Target /\ b.tgt[h] \in Target /\ c.tgt[h] \in Target  BY DEF Record
  <2>2. TargetKept(a.tgt[h], b.tgt[h]) /\ TargetKept(b.tgt[h], c.tgt[h])  BY DEF Legal
  <2> QED  BY <2>1, <2>2, TargetKeptTransitive
<1>2. /\ c.aim = a.aim /\ (a.term => c.term)
      /\ a.st \notin OpenStatus => c.st = a.st
      /\ a.st \in AttemptStatus => c.st \in AttemptStatus /\ c.sel = a.sel
  BY DEF Legal
<1> QED  BY <1>1, <1>2 DEF Legal

LEMMA LineTransitive ==
  ASSUME NEW a \in Record, NEW b \in Record, NEW c \in Record, Line(a, b), Line(b, c)
  PROVE  Line(a, c)
<1>1. CASE a = b \/ b = c  BY <1>1
<1>2. CASE a # b /\ b # c
  <2>1. b.ver > a.ver /\ c.ver > b.ver /\ Legal(a, b) /\ Legal(b, c)  BY <1>2 DEF Line
  <2>2. c.ver > a.ver  BY <2>1 DEF Record
  <2>3. Legal(a, c)  BY <2>1, LegalTransitive
  <2>4. c.st = "reserved" => a.st = "reserved"  BY <1>2 DEF Line
  <2> QED  BY <2>2, <2>3, <2>4 DEF Line
<1> QED  BY <1>1, <1>2

\* On a line the version is the order.
LEMMA LineVersion ==
  ASSUME NEW a \in Record, NEW b \in Record, Line(a, b)
  PROVE  /\ b.ver >= a.ver
         /\ b.ver = a.ver => b = a
         /\ b # a => b.ver > a.ver
BY DEF Line, Record

LEMMA LineAim ==
  ASSUME NEW a \in Record, NEW b \in Record, Line(a, b)
  PROVE  b.aim = a.aim /\ (a.term => b.term)
BY DEF Line, Legal

\* A lead is earned once along the line of a record that keeps its publication.
LEMMA EvolvedTransitive ==
  ASSUME NEW a \in Record, NEW b \in Record, NEW c \in Record, Evolved(a, b), Evolved(b, c)
  PROVE  Evolved(a, c)
<1>1. Line(a, c)  BY LineTransitive DEF Evolved, Grown
<1>2. Earned(a, c)
  <2> SUFFICES ASSUME NEW h \in Horizons, c.tgt[h].lead
               PROVE  a.tgt[h].lead \/ (a.st = "acknowledged" /\ h \in a.sel)
    BY DEF Earned
  <2>1. b.tgt[h].lead \/ (b.st = "acknowledged" /\ h \in b.sel)  BY DEF Evolved, Grown, Earned
  <2> QED  BY <2>1 DEF Evolved, Grown, Earned
<1> QED  BY <1>1, <1>2 DEF Evolved, Grown

LEMMA EvolvedItself ==
  ASSUME NEW r \in Record, Sound(r)
  PROVE  Evolved(r, r)
BY DEF Evolved, Grown, Line, Earned

\* A record that differs by its version, its targets and what closes them.
LEMMA EvolvedBy ==
  ASSUME NEW r \in Record, NEW q \in Record, q.ver = r.ver + 1, q.aim = r.aim,
         r.term => q.term, q.st = r.st, q.sel = r.sel, Sound(q),
         \A h \in Horizons :
           /\ TargetKept(r.tgt[h], q.tgt[h])
           /\ q.tgt[h].lead => r.tgt[h].lead \/ (r.st = "acknowledged" /\ h \in r.sel)
           /\ q.tgt[h].st = "restart_unmatched" => r.tgt[h].st = "restart_unmatched"
  PROVE  Evolved(r, q)
<1>1. q.ver > r.ver  BY DEF Record
<1>2. Legal(r, q)  BY DEF Legal
<1> QED  BY <1>1, <1>2 DEF Evolved, Grown, Line, Earned, Restarted

LEMMA BumpFields ==
  ASSUME NEW r \in Record
  PROVE  /\ Bump(r) \in Record /\ Bump(r).ver = r.ver + 1 /\ Bump(r).aim = r.aim
         /\ Bump(r).st = r.st /\ Bump(r).sel = r.sel /\ Bump(r).tgt = r.tgt
         /\ Bump(r).term = r.term /\ Bump(r).inv = r.inv
BY DEF Bump, Record

LEMMA TargetKeptItself == \A t \in Target : TargetKept(t, t)
BY DEF TargetKept

LEMMA BumpEvolves ==
  ASSUME NEW r \in Record, Sound(r)
  PROVE  Evolved(r, Bump(r))
<1>1. Sound(Bump(r))
  <2>1. PICK b \in Record : b = Bump(r) /\ b.tgt = r.tgt /\ b.term = r.term /\ b.inv = r.inv
    BY BumpFields
  <2> QED  BY <2>1 DEF Sound
<1>2. \A h \in Horizons : r.tgt[h] \in Target  BY DEF Record
<1> QED  BY <1>1, <1>2, BumpFields, EvolvedBy, TargetKeptItself

LEMMA RetargetFields ==
  ASSUME NEW r \in Record, NEW new \in [Horizons -> Target]
  PROVE  LET q == [Bump(r) EXCEPT !.tgt = new]
         IN  /\ q \in Record /\ q.ver = r.ver + 1 /\ q.aim = r.aim /\ q.st = r.st
             /\ q.sel = r.sel /\ q.tgt = new /\ q.term = r.term /\ q.inv = r.inv
<1>1. \A b \in Record : LET q == [b EXCEPT !.tgt = new]
                        IN  /\ q \in Record /\ q.ver = b.ver /\ q.aim = b.aim /\ q.st = b.st
                            /\ q.sel = b.sel /\ q.tgt = new /\ q.term = b.term /\ q.inv = b.inv
  BY DEF Record
<1> QED  BY <1>1, BumpFields

\* What may become of the target of a horizon while the publication of its row is not decided.
TargetEvolves(r, h, t, u) ==
  /\ TargetKept(t, u) /\ SoundTarget(u)
  /\ u.lead => t.lead \/ (r.st = "acknowledged" /\ h \in r.sel)
  /\ r.inv => ~u.lead
  /\ r.term => u.st # "pending"
  /\ u.st = "restart_unmatched" => t.st = "restart_unmatched"

\* observe_target keeps what is known of a target, and its lead is earned.
LEMMA ObservedTargetEvolves ==
  ASSUME NEW r \in Record, Sound(r), NEW h \in Horizons, NEW v \in Values, NEW elapsed \in BOOLEAN
  PROVE  TargetEvolves(r, h, r.tgt[h], ObservedTarget(r, h, v, elapsed))
<1>1. PICK t \in Target : t = r.tgt[h]  BY DEF Record
<1>2. PICK u \in Target : u = ObservedTarget(r, h, v, elapsed)  BY ObservedTargetType
<1>3. /\ SoundTarget(t) /\ (r.inv => ~t.lead) /\ (r.term => t.st # "pending")
      /\ v # None
  BY <1>1, NoneIsApart DEF Sound
<1>4. CASE t.first # None
  <2>1. u \in {t, [t EXCEPT !.conf = TRUE, !.lead = FALSE]}
    BY <1>1, <1>2, <1>4 DEF ObservedTarget
  <2>2. TargetEvolves(r, h, t, u)
    BY <1>3, <1>4, <2>1 DEF Target, TargetKept, SoundTarget, TargetEvolves
  <2> QED  BY <1>1, <1>2, <2>2
<1>5. CASE t.first = None /\ t.st = "pending" /\ ~elapsed
  <2>1. u = [t EXCEPT !.st = "matched", !.first = v, !.lead = EarnsLead(r, h)]
    BY <1>1, <1>2, <1>5 DEF ObservedTarget
  <2>2. PICK e \in BOOLEAN : /\ e = EarnsLead(r, h)
                             /\ e => r.st = "acknowledged" /\ h \in r.sel /\ ~r.inv
    BY DEF EarnsLead, Record
  <2>3. u.st = "matched" /\ u.first = v /\ u.lead = e /\ u.conf = t.conf /\ u.late = t.late
    BY <2>1, <2>2 DEF Target
  <2>4. ~t.conf  BY <1>3, <1>5 DEF SoundTarget
  <2>5. TargetKept(t, u) /\ SoundTarget(u)
    BY <1>3, <1>5, <2>3, <2>4 DEF TargetKept, SoundTarget
  <2>6. TargetEvolves(r, h, t, u)  BY <2>2, <2>3, <2>5 DEF TargetEvolves
  <2> QED  BY <1>1, <1>2, <2>6
<1>6. CASE t.first = None /\ ~(t.st = "pending" /\ ~elapsed) /\ t.st \in {"pending", "missing"}
  <2>1. u = [t EXCEPT !.st = "missing", !.late = TRUE]
    BY <1>1, <1>2, <1>6 DEF ObservedTarget
  <2>2. TargetEvolves(r, h, t, u)
    BY <1>3, <1>6, <2>1 DEF Target, TargetKept, SoundTarget, TargetEvolves
  <2> QED  BY <1>1, <1>2, <2>2
<1>7. CASE t.first = None /\ t.st \notin {"pending", "missing"}
  <2>1. u = t  BY <1>1, <1>2, <1>7 DEF ObservedTarget
  <2>2. TargetEvolves(r, h, t, u)  BY <1>3, <2>1 DEF TargetKept, TargetEvolves
  <2> QED  BY <1>1, <1>2, <2>2
<1> QED  BY <1>4, <1>5, <1>6, <1>7

LEMMA RetargetEvolves ==
  ASSUME NEW r \in Record, Sound(r), NEW new \in [Horizons -> Target],
         \A h \in Horizons : TargetEvolves(r, h, r.tgt[h], new[h])
  PROVE  Evolved(r, [Bump(r) EXCEPT !.tgt = new])
<1>1. PICK q \in Record : /\ q = [Bump(r) EXCEPT !.tgt = new]
                          /\ q.ver = r.ver + 1 /\ q.aim = r.aim /\ q.st = r.st /\ q.sel = r.sel
                          /\ q.tgt = new /\ q.term = r.term /\ q.inv = r.inv
  BY RetargetFields
<1>2. Sound(q)  BY <1>1 DEF Sound, TargetEvolves
<1>3. \A h \in Horizons :
        /\ TargetKept(r.tgt[h], q.tgt[h])
        /\ q.tgt[h].lead => r.tgt[h].lead \/ (r.st = "acknowledged" /\ h \in r.sel)
        /\ q.tgt[h].st = "restart_unmatched" => r.tgt[h].st = "restart_unmatched"
  BY <1>1 DEF TargetEvolves
<1>4. Evolved(r, q)  BY <1>1, <1>2, <1>3, EvolvedBy
<1> QED  BY <1>1, <1>4

LEMMA ObservedEvolves ==
  ASSUME NEW r \in Record, Sound(r), NEW s \in Stamps, NEW v \in Values, NEW elapsed \in BOOLEAN
  PROVE  Evolved(r, Observed(r, s, v, elapsed))
<1> DEFINE new == [h \in Horizons |-> IF r.aim[h] = s THEN ObservedTarget(r, h, v, elapsed) ELSE r.tgt[h]]
<1>1. new \in [Horizons -> Target]
  BY ObservedTargetType DEF Record
<1>2. ASSUME NEW h \in Horizons PROVE TargetEvolves(r, h, r.tgt[h], new[h])
  <2>1. CASE r.aim[h] = s  BY <2>1, ObservedTargetEvolves
  <2>2. CASE r.aim[h] # s
    <3>1. new[h] = r.tgt[h]  BY <2>2
    <3> QED  BY <3>1 DEF Sound, TargetEvolves, TargetKept
  <2> QED  BY <2>1, <2>2
<1>3. Evolved(r, [Bump(r) EXCEPT !.tgt = new])  BY <1>1, <1>2, RetargetEvolves
<1>4. Observed(r, s, v, elapsed) \in {r, [Bump(r) EXCEPT !.tgt = new]}  BY DEF Observed
<1> HIDE DEF new
<1> QED  BY <1>3, <1>4, EvolvedItself

\* The verdict of a target that is still pending when its row is closed.
LEMMA ClosedTargetKept ==
  ASSUME NEW t \in Target, SoundTarget(t), NEW verdict \in {"missing", "restart_unmatched"}, NEW u,
         u = IF t.st = "pending" THEN [t EXCEPT !.st = verdict] ELSE t
  PROVE  /\ u \in Target /\ TargetKept(t, u) /\ SoundTarget(u)
         /\ u.lead = t.lead /\ u.st # "pending"
         /\ u.st = "restart_unmatched" => t.st = "restart_unmatched" \/ verdict = "restart_unmatched"
BY DEF Target, TargetStatus, TargetKept, SoundTarget

\* A row that is closed goes on to say what it said, but for the targets it waited for.
LEMMA ClosedGrows ==
  ASSUME NEW r \in Record, Sound(r), NEW verdict \in {"missing", "restart_unmatched"}
  PROVE  /\ Grown(r, Closed(r, verdict)) /\ Closed(r, verdict).term
         /\ Closed(r, verdict).st = r.st /\ Closed(r, verdict).sel = r.sel
         /\ verdict = "missing" => Restarted(Closed(r, verdict)) \subseteq Restarted(r)
<1> DEFINE new == [h \in Horizons |-> IF r.tgt[h].st = "pending"
                                      THEN [r.tgt[h] EXCEPT !.st = verdict] ELSE r.tgt[h]]
<1>1. ASSUME NEW h \in Horizons
      PROVE  /\ new[h] \in Target /\ TargetKept(r.tgt[h], new[h]) /\ SoundTarget(new[h])
             /\ new[h].lead = r.tgt[h].lead /\ new[h].st # "pending"
             /\ new[h].st = "restart_unmatched"
                  => r.tgt[h].st = "restart_unmatched" \/ verdict = "restart_unmatched"
  <2>1. r.tgt[h] \in Target /\ SoundTarget(r.tgt[h])  BY DEF Record, Sound
  <2> QED  BY <2>1, ClosedTargetKept
<1>2. new \in [Horizons -> Target]  BY <1>1
<1>3. Closed(r, verdict) = [Bump(r) EXCEPT !.term = TRUE, !.tgt = new]  BY DEF Closed
<1> HIDE DEF new
<1>4. PICK b \in Record : /\ b = Bump(r) /\ b.ver = r.ver + 1 /\ b.aim = r.aim /\ b.st = r.st
                          /\ b.sel = r.sel /\ b.inv = r.inv
  BY BumpFields
<1>5. PICK q \in Record : /\ q = Closed(r, verdict)
                          /\ q.ver = b.ver /\ q.aim = b.aim /\ q.st = b.st /\ q.sel = b.sel
                          /\ q.tgt = new /\ q.term /\ q.inv = b.inv
  <2>1. [b EXCEPT !.term = TRUE, !.tgt = new] \in Record  BY <1>2 DEF Record
  <2> QED  BY <1>3, <1>4, <2>1 DEF Record
<1>6. Sound(q)  BY <1>1, <1>4, <1>5 DEF Sound
<1>7. Legal(r, q)  BY <1>1, <1>4, <1>5 DEF Legal
<1>8. Line(r, q)  BY <1>4, <1>5, <1>7 DEF Line, Record
<1>9. Earned(r, q)  BY <1>1, <1>5 DEF Earned
<1>10. verdict = "missing" => Restarted(q) \subseteq Restarted(r)
  BY <1>1, <1>5 DEF Restarted
<1> QED  BY <1>4, <1>5, <1>6, <1>8, <1>9, <1>10 DEF Grown

LEMMA InvalidatedEvolves ==
  ASSUME NEW r \in Record, Sound(r)
  PROVE  Evolved(r, Invalidated(r))
<1>1. CASE r.inv
  BY <1>1, EvolvedItself DEF Invalidated
<1>2. CASE ~r.inv
  <2> DEFINE new == [h \in Horizons |-> [r.tgt[h] EXCEPT !.lead = FALSE]]
  <2>1. ASSUME NEW h \in Horizons
        PROVE  /\ new[h] \in Target /\ TargetKept(r.tgt[h], new[h]) /\ SoundTarget(new[h])
               /\ ~new[h].lead /\ new[h].st = r.tgt[h].st
    <3>1. PICK t \in Target : t = r.tgt[h] /\ SoundTarget(t)  BY DEF Record, Sound
    <3>2. new[h] = [t EXCEPT !.lead = FALSE]  BY <3>1
    <3> HIDE DEF new
    <3> QED  BY <3>1, <3>2 DEF Target, TargetKept, SoundTarget
  <2>2. new \in [Horizons -> Target]  BY <2>1
  <2>3. Invalidated(r) = [Bump(r) EXCEPT !.inv = TRUE, !.tgt = new]  BY <1>2 DEF Invalidated
  <2> HIDE DEF new
  <2>4. PICK b \in Record : /\ b = Bump(r) /\ b.ver = r.ver + 1 /\ b.aim = r.aim /\ b.st = r.st
                            /\ b.sel = r.sel /\ b.term = r.term
    BY BumpFields
  <2>5. PICK q \in Record : /\ q = Invalidated(r)
                            /\ q.ver = b.ver /\ q.aim = b.aim /\ q.st = b.st /\ q.sel = b.sel
                            /\ q.tgt = new /\ q.term = b.term /\ q.inv
    <3>1. [b EXCEPT !.inv = TRUE, !.tgt = new] \in Record  BY <2>2 DEF Record
    <3> QED  BY <2>3, <2>4, <3>1 DEF Record
  <2>6. Sound(q)  BY <2>1, <2>4, <2>5 DEF Sound
  <2>7. Evolved(r, q)  BY <2>1, <2>4, <2>5, <2>6, EvolvedBy
  <2> QED  BY <2>5, <2>7
<1> QED  BY <1>1, <1>2

\* Which status publish() may write after which.
Leads(s, t) ==
  \/ s = "reserved" /\ t \in {"intent"} \cup DeniedStatus
  \/ s = "intent" /\ t \in {"attempting"} \cup DeniedStatus
  \/ s = "attempting" /\ t \in WireStatus

\* A row whose publication is decided, with the horizons of the message.
Restated(r, q, t, sel) ==
  /\ q \in Record /\ Sound(q) /\ Line(r, q)
  /\ q.st = t /\ q.sel = sel /\ q.tgt = r.tgt

LEMMA RestatedGrows ==
  ASSUME NEW r, NEW q, NEW t, NEW sel, Restated(r, q, t, sel)
  PROVE  Grown(r, q) /\ Restarted(q) = Restarted(r)
BY DEF Restated, Grown, Earned, Restarted

LEMMA SetStatusFields ==
  ASSUME NEW r \in Record, NEW t \in PubStatus
  PROVE  LET q == SetStatus(r, t)
         IN  /\ q \in Record /\ q.ver = r.ver + 1 /\ q.aim = r.aim /\ q.st = t
             /\ q.sel = r.sel /\ q.tgt = r.tgt /\ q.term = r.term /\ q.inv = r.inv
<1>1. \A b \in Record : LET q == [b EXCEPT !.st = t]
                        IN  /\ q \in Record /\ q.ver = b.ver /\ q.aim = b.aim /\ q.st = t
                            /\ q.sel = b.sel /\ q.tgt = b.tgt /\ q.term = b.term /\ q.inv = b.inv
  BY DEF Record
<1> QED  BY <1>1, BumpFields DEF SetStatus

\* A record with another status, and, if no command was sent before, other horizons.
LEMMA RestatedBy ==
  ASSUME NEW r \in Record, Sound(r), NEW q \in Record, q.ver > r.ver, q.aim = r.aim,
         Leads(r.st, q.st), r.st = "attempting" => q.sel = r.sel,
         q.tgt = r.tgt, q.term = r.term, q.inv = r.inv
  PROVE  Restated(r, q, q.st, q.sel)
<1>1. Sound(q)  BY DEF Sound
<1>2. \A h \in Horizons : r.tgt[h] \in Target  BY DEF Record
<1>3. Legal(r, q)
  BY <1>2, TargetKeptItself DEF Legal, Leads, OpenStatus, DeniedStatus, WireStatus, AttemptStatus
<1>4. q.st # "reserved"  BY DEF Leads, DeniedStatus, WireStatus
<1> QED  BY <1>1, <1>3, <1>4 DEF Restated, Line

LEMMA SetStatusRestates ==
  ASSUME NEW r \in Record, Sound(r), NEW t \in PubStatus, Leads(r.st, t)
  PROVE  Restated(r, SetStatus(r, t), t, r.sel)
<1>1. PICK q \in Record : /\ q = SetStatus(r, t)
                          /\ q.ver = r.ver + 1 /\ q.aim = r.aim /\ q.st = t /\ q.sel = r.sel
                          /\ q.tgt = r.tgt /\ q.term = r.term /\ q.inv = r.inv
  BY SetStatusFields
<1>2. q.ver > r.ver  BY <1>1 DEF Record
<1> QED  BY <1>1, <1>2, RestatedBy

\* note_late_target marks a closed record, which stays what it was.
LEMMA NotedTargetEvolves ==
  ASSUME NEW r \in Record, Sound(r), NEW h \in Horizons, NEW v \in Values
  PROVE  NotedTarget(r.tgt[h], v) \in Target /\ TargetEvolves(r, h, r.tgt[h], NotedTarget(r.tgt[h], v))
<1>1. PICK t \in Target : t = r.tgt[h]  BY DEF Record
<1>2. SoundTarget(t) /\ (r.inv => ~t.lead) /\ (r.term => t.st # "pending")  BY <1>1 DEF Sound
<1>3. CASE t.st = "matched" /\ t.first # v /\ ~t.conf
  <2>1. NotedTarget(t, v) = [t EXCEPT !.conf = TRUE, !.lead = FALSE]  BY <1>3 DEF NotedTarget
  <2> QED  BY <1>1, <1>2, <1>3, <2>1 DEF Target, TargetKept, SoundTarget, TargetEvolves
<1>4. CASE t.st \in {"missing", "restart_unmatched"}
  <2>1. NotedTarget(t, v) = [t EXCEPT !.late = TRUE]  BY <1>4 DEF NotedTarget
  <2> QED  BY <1>1, <1>2, <1>4, <2>1 DEF Target, TargetKept, SoundTarget, TargetEvolves
<1>5. CASE ~(t.st = "matched" /\ t.first # v /\ ~t.conf) /\ t.st \notin {"missing", "restart_unmatched"}
  <2>1. NotedTarget(t, v) = t  BY <1>5 DEF NotedTarget
  <2> QED  BY <1>1, <1>2, <2>1 DEF TargetKept, TargetEvolves
<1> QED  BY <1>3, <1>4, <1>5

LEMMA NotedEvolves ==
  ASSUME NEW r \in Record, Sound(r), NEW s \in Stamps, NEW v \in Values
  PROVE  Evolved(r, Noted(r, s, v))
<1> DEFINE new == [h \in Horizons |-> IF r.aim[h] = s THEN NotedTarget(r.tgt[h], v) ELSE r.tgt[h]]
<1>1. ASSUME NEW h \in Horizons PROVE new[h] \in Target /\ TargetEvolves(r, h, r.tgt[h], new[h])
  <2>1. CASE r.aim[h] = s  BY <2>1, NotedTargetEvolves
  <2>2. CASE r.aim[h] # s
    <3>1. new[h] = r.tgt[h] /\ r.tgt[h] \in Target  BY <2>2 DEF Record
    <3> QED  BY <3>1 DEF Sound, TargetEvolves, TargetKept
  <2> QED  BY <2>1, <2>2
<1>2. new \in [Horizons -> Target]  BY <1>1
<1>3. Evolved(r, [Bump(r) EXCEPT !.tgt = new])  BY <1>1, <1>2, RetargetEvolves
<1>4. Noted(r, s, v) \in {r, [Bump(r) EXCEPT !.tgt = new]}  BY DEF Noted
<1> HIDE DEF new
<1> QED  BY <1>3, <1>4, EvolvedItself

LEMMA ReconciledGrows ==
  ASSUME NEW r \in Record, Sound(r)
  PROVE  /\ Grown(r, Reconciled(r)) /\ Reconciled(r).term
         /\ Reconciled(r).st = r.st /\ Reconciled(r).sel = r.sel
BY EvolvedItself, ClosedGrows DEF Reconciled, Evolved

LEMMA NewRecordSound ==
  ASSUME NEW aim \in [Horizons -> Stamps], NEW avail \in SUBSET Horizons
  PROVE  LET q == NewRecord(aim, avail)
         IN  /\ q \in Record /\ Sound(q) /\ q.st = "reserved" /\ Restarted(q) = {}
             /\ \A h \in Horizons : ~q.tgt[h].lead
<1>1. NewRecord(aim, avail) \in Record  BY NewRecordType
<1> QED  BY <1>1 DEF NewRecord, Sound, SoundTarget, Restarted

----------------------------------------------------------------------------
(* Rows after a handler. *)

SoundRows(rows) == \A d \in Decisions : rows[d] # None => Sound(rows[d])

EvolvedRows(rows, new) ==
  /\ new \in Rows
  /\ \A d \in Decisions : IF rows[d] = None THEN new[d] = None
                                            ELSE new[d] # None /\ Evolved(rows[d], new[d])

\* A row that changes is dirty.
Dirtied == /\ dirty \subseteq dirty'
           /\ \A d \in Decisions : row'[d] # None /\ row'[d] # row[d] => d \in dirty'

LEMMA RowsEvolveThemselves ==
  ASSUME NEW rows \in Rows, SoundRows(rows)
  PROVE  EvolvedRows(rows, rows)
BY EvolvedItself, SlotCases DEF EvolvedRows, SoundRows, Rows

\* Whatever is done to each row evolves it.
LEMMA EachEvolves ==
  ASSUME NEW rows \in Rows, SoundRows(rows), NEW new,
         DOMAIN new = Decisions /\ new = [d \in Decisions |-> new[d]],
         \A d \in Decisions : IF rows[d] = None THEN new[d] = None ELSE Evolved(rows[d], new[d])
  PROVE  EvolvedRows(rows, new)
<1>1. \A d \in Decisions : new[d] \in Slot  BY DEF Evolved, Grown, Slot
<1>2. \A d \in Decisions : rows[d] # None => new[d] # None
  BY NoneIsApart DEF Evolved, Grown
<1> QED  BY <1>1, <1>2 DEF EvolvedRows, Rows

LEMMA TouchedEvolves ==
  ASSUME NEW rows \in Rows, SoundRows(rows)
  PROVE  EvolvedRows(rows, Touched(rows))
<1>1. \A d \in Decisions : rows[d] # None => Evolved(rows[d], Bump(rows[d]))
  BY BumpEvolves, SlotCases DEF SoundRows, Rows
<1> QED  BY <1>1, EachEvolves DEF Touched

LEMMA HandlerEvolves ==
  ASSUME row \in Rows, NEW rows \in Rows, SoundRows(rows), NEW also, NEW scope,
         \/ StopWith(rows, also) \/ SuspendWith(scope, rows, also) \/ ProceedWith(rows, also)
         \/ IoFailure(scope, rows, also)
  PROVE  EvolvedRows(rows, row') /\ Dirtied
<1>1. PICK new \in {rows, Touched(rows)} : SetRows(new, also)
  BY DEF StopWith, SuspendWith, ProceedWith, IoFailure
<1>2. row' = new  BY <1>1 DEF SetRows
<1>3. Dirtied  BY <1>1 DEF SetRows, Dirtied
<1> QED  BY <1>1, <1>2, <1>3, TouchedEvolves, RowsEvolveThemselves
LEMMA EvolvedRowsTransitive ==
  ASSUME NEW a \in Rows, NEW b, NEW c, EvolvedRows(a, b), EvolvedRows(b, c)
  PROVE  EvolvedRows(a, c)
<1>1. ASSUME NEW d \in Decisions, a[d] # None PROVE c[d] # None /\ Evolved(a[d], c[d])
  <2>1. a[d] \in Record /\ b[d] \in Record /\ c[d] \in Record
    BY <1>1, SlotCases DEF EvolvedRows, Rows
  <2> QED  BY <1>1, <2>1, EvolvedTransitive DEF EvolvedRows
<1> QED  BY <1>1 DEF EvolvedRows

\* Rows that a handler has evolved before it stops or proceeds.
LEMMA StopEvolves ==
  ASSUME row \in Rows, SoundRows(row), NEW rows, EvolvedRows(row, rows),
         StopWith(rows, {}) \/ ProceedWith(rows, {})
  PROVE  EvolvedRows(row, row') /\ Dirtied
<1>1. rows \in Rows /\ SoundRows(rows)
  BY DEF EvolvedRows, SoundRows, Evolved, Grown
<1>2. EvolvedRows(rows, row') /\ Dirtied  BY <1>1, HandlerEvolves
<1> QED  BY <1>1, <1>2, EvolvedRowsTransitive
----------------------------------------------------------------------------
(* The copies of a record. *)

Held(t, d) == IF t.d = d THEN t.rec ELSE None
Copies(d)  == {row[d], spool[d], db[d], Held(pub, d), Held(aud, d)} \ {None}

\* All copies are on one line, at whose end is the live row.
Family(d) ==
  /\ \A r \in Copies(d) : r \in Record /\ Sound(r)
  /\ \A r, q \in Copies(d) : Line(r, q) \/ Line(q, r)
  /\ row[d] # None => \A r \in Copies(d) : Line(r, row[d])
  /\ Copies(d) # {} => d \in issued
FamilyInv == \A d \in Decisions : Family(d)

\* x is, or may become, the newest copy.
Top(d, x) == x \in Record /\ Sound(x) /\ \A r \in Copies(d) : Line(r, x)

LEMMA FamilyStep ==
  ASSUME NEW d, Family(d), NEW x, Top(d, x), Copies(d)' \subseteq Copies(d) \cup {x},
         row'[d] \in {None, x}, Copies(d)' # {} => d \in issued'
  PROVE  Family(d)'
<1>1. \A r \in Copies(d)' : r \in Record /\ Sound(r)  BY DEF Family, Top
<1>2. Line(x, x)  BY DEF Line
<1>3. \A r, q \in Copies(d)' : Line(r, q) \/ Line(q, r)
  BY <1>2 DEF Family, Top
<1>4. row'[d] # None => \A r \in Copies(d)' : Line(r, row'[d])
  BY <1>2 DEF Top
<1> QED  BY <1>1, <1>3, <1>4 DEF Family

\* Copies may be dropped, the row included.
LEMMA FamilyShrinks ==
  ASSUME NEW d, Family(d), Copies(d)' \subseteq Copies(d), row'[d] = None, d \in issued => d \in issued'
  PROVE  Family(d)'
BY DEF Family

LEMMA RowOnTop ==
  ASSUME NEW d, Family(d), row[d] # None
  PROVE  Top(d, row[d]) /\ row[d] \in Copies(d)
BY DEF Family, Top, Copies

\* A row that grows stays on top.
LEMMA GrownOnTop ==
  ASSUME NEW d, Family(d), row[d] # None, NEW q, Grown(row[d], q)
  PROVE  Top(d, q)
<1>1. row[d] \in Record /\ row[d] \in Copies(d)  BY DEF Family, Copies
<1>2. \A r \in Copies(d) : Line(r, q)
  BY <1>1, LineTransitive DEF Family, Grown
<1> QED  BY <1>2 DEF Top, Grown
----------------------------------------------------------------------------
(* The ledger: the newest durable copy. *)

LatestIn(s, b) == IF b # None /\ (s = None \/ b.ver > s.ver) THEN b ELSE s

LEMMA LatestOnTop ==
  ASSUME NEW s \in Slot, NEW b \in Slot, s # None /\ b # None => Line(s, b) \/ Line(b, s)
  PROVE  /\ LatestIn(s, b) \in {s, b}
         /\ s # None => LatestIn(s, b) # None /\ Line(s, LatestIn(s, b))
         /\ b # None => LatestIn(s, b) # None /\ Line(b, LatestIn(s, b))
<1>1. (s # None => s \in Record) /\ (b # None => b \in Record)  BY SlotCases
<1>2. Line(s, s) /\ Line(b, b)  BY DEF Line
<1>3. CASE s # None /\ b # None
  <2>1. CASE b.ver > s.ver
    <3>1. ~Line(b, s)  BY <1>1, <1>3, <2>1, LineVersion DEF Record
    <3> QED  BY <1>2, <1>3, <2>1, <3>1 DEF LatestIn
  <2>2. CASE ~(b.ver > s.ver)
    <3>1. Line(b, s)  BY <1>1, <1>2, <1>3, <2>2, LineVersion DEF Record
    <3> QED  BY <1>2, <1>3, <2>2, <3>1 DEF LatestIn
  <2> QED  BY <2>1, <2>2
<1>4. CASE s = None \/ b = None
  BY <1>2, <1>4 DEF LatestIn
<1> QED  BY <1>3, <1>4

LEMMA LedgerIs ==
  ASSUME NEW d \in Decisions
  PROVE  /\ Ledger[d] = LatestIn(spool[d], db[d])
         /\ Ledger'[d] = LatestIn(spool'[d], db'[d])
BY DEF Ledger, LatestOf, LatestIn

LEMMA LedgerOnTop ==
  ASSUME NEW d \in Decisions, Family(d)
  PROVE  /\ Ledger[d] \in {spool[d], db[d]}
         /\ spool[d] # None => Ledger[d] # None /\ Line(spool[d], Ledger[d])
         /\ db[d] # None => Ledger[d] # None /\ Line(db[d], Ledger[d])
         /\ Ledger[d] # None => Ledger[d] \in Copies(d) /\ Ledger[d] \in Record /\ Sound(Ledger[d])
<1>1. /\ spool[d] # None => spool[d] \in Copies(d) /\ spool[d] \in Record
      /\ db[d] # None => db[d] \in Copies(d) /\ db[d] \in Record
  BY DEF Family, Copies
<1>2. spool[d] \in Slot /\ db[d] \in Slot  BY <1>1 DEF Slot
<1>3. spool[d] # None /\ db[d] # None => Line(spool[d], db[d]) \/ Line(db[d], spool[d])
  BY <1>1 DEF Family
<1> QED  BY <1>1, <1>2, <1>3, LedgerIs, LatestOnTop DEF Family

\* The same, after a step.
LEMMA LedgerStaysOnTop ==
  ASSUME NEW d \in Decisions, Family(d)'
  PROVE  /\ Ledger'[d] \in {spool'[d], db'[d]}
         /\ spool'[d] # None => Ledger'[d] # None /\ Line(spool'[d], Ledger'[d])
         /\ db'[d] # None => Ledger'[d] # None /\ Line(db'[d], Ledger'[d])
         /\ Ledger'[d] # None => Ledger'[d] \in Copies(d)' /\ Ledger'[d] \in Record /\ Sound(Ledger'[d])
<1>1. /\ spool'[d] # None => spool'[d] \in Copies(d)' /\ spool'[d] \in Record
      /\ db'[d] # None => db'[d] \in Copies(d)' /\ db'[d] \in Record
  BY DEF Family, Copies
<1>2. spool'[d] \in Slot /\ db'[d] \in Slot  BY <1>1 DEF Slot
<1>3. spool'[d] # None /\ db'[d] # None => Line(spool'[d], db'[d]) \/ Line(db'[d], spool'[d])
  BY <1>1 DEF Family
<1> QED  BY <1>1, <1>2, <1>3, LedgerIs, LatestOnTop DEF Family

\* PostgreSQL only moves on, and a file leaves the outbox only for what PostgreSQL holds.
DiskStep(d) ==
  /\ db[d] # None => db'[d] # None /\ Line(db[d], db'[d])
  /\ spool[d] # None => \/ spool'[d] # None /\ Line(spool[d], spool'[d])
                        \/ db'[d] # None /\ Line(spool[d], db'[d])

Rises(d) == Ledger[d] # None => Ledger'[d] # None /\ Line(Ledger[d], Ledger'[d])

LEMMA LedgerRises ==
  ASSUME NEW d \in Decisions, Family(d), Family(d)', DiskStep(d)
  PROVE  Rises(d)
<1>1. SUFFICES ASSUME Ledger[d] # None PROVE Ledger'[d] # None /\ Line(Ledger[d], Ledger'[d])
  BY DEF Rises
<1>2. Ledger[d] \in Record /\ Ledger[d] \in {spool[d], db[d]}  BY <1>1, LedgerOnTop
<1>3. PICK y \in {spool'[d], db'[d]} : y # None /\ Line(Ledger[d], y)
  BY <1>1, <1>2 DEF DiskStep
<1>4. /\ spool'[d] # None => Ledger'[d] # None /\ Line(spool'[d], Ledger'[d])
      /\ db'[d] # None => Ledger'[d] # None /\ Line(db'[d], Ledger'[d])
      /\ Ledger'[d] # None => Ledger'[d] \in Record
  BY LedgerStaysOnTop
<1>5. y \in Record  BY <1>3 DEF Family, Copies
<1>6. Ledger'[d] # None /\ Line(y, Ledger'[d]) /\ Ledger'[d] \in Record  BY <1>3, <1>4
<1> QED  BY <1>2, <1>3, <1>5, <1>6, LineTransitive

----------------------------------------------------------------------------
(* The invariant. *)

Attempted == {"attempting"} \cup WireStatus
Announced == {"intent"} \cup Attempted

\* What a decision in the publication task's hands has been told.
StatusInv ==
  /\ pending # None => row[pending].st = "reserved"
  /\ pub.at = "spool" => row[pub.d].st = "intent" /\ pub.rec.st = "intent"
  /\ pub.at = "eval" => row[pub.d].st = "attempting"

\* What a copy says of the wire: nothing is attempted before the command is sent, nothing is
\* denied after it, and a lead is of a horizon that the applied message carried.
Witness(d, r) ==
  /\ redis[d] = "never" => r.st \notin Attempted
  /\ redis[d] # "never" => r.st \in {"reserved"} \cup Announced /\ (r.st \in Attempted => r.sel = mask[d])
  /\ \A h \in Horizons : r.tgt[h].lead => redis[d] = "applied" /\ h \in mask[d]

Wire(d) ==
  /\ \A r \in Copies(d) : Witness(d, r)
  /\ redis[d] # "never" => /\ row[d] # None => row[d].st \in Attempted
                           /\ Ledger[d] # None /\ Ledger[d].st \in Announced
WireInv == \A d \in Decisions : Wire(d)

\* What the audit task knows of the disk and the database while it awaits.
HandInv ==
  /\ aud.at = "persist" => spool[aud.d] # None /\ Line(aud.rec, spool[aud.d])
  /\ aud.at = "remove" => spool[aud.d] = aud.rec /\ db[aud.d] = aud.rec /\ aud.rec.term
  /\ aud.at = "recovered" => /\ spool[aud.d] = aud.rec
                             /\ db[aud.d] # None /\ Line(aud.rec, db[aud.d])

Up == phase \notin {"down", "recovering"}

\* Every file is of a live row, and whatever else PostgreSQL holds is closed.
OwnInv == Up => \A d \in Decisions : /\ spool[d] # None => row[d] # None
                                     /\ row[d] = None /\ db[d] # None => db[d].term

\* After the final freeze every row is closed, and so is what the final pass has saved.
Ends == {"preserving", "draining", "leaving"}
EndInv == phase \in Ends => \A d \in Decisions : /\ row[d] # None => row[d].term
                                                 /\ d \in saved => Ledger[d] # None /\ Ledger[d].term

\* What is not dirty is in PostgreSQL.
CleanInv == \A d \in Decisions : row[d] # None /\ d \notin dirty => db[d] = row[d]

LineInv == FamilyInv /\ StatusInv /\ WireInv /\ HandInv /\ OwnInv /\ EndInv /\ CleanInv

Base == Inv /\ SendInv /\ TruthInv

\* What the steps below need to know of types.
LEMMA BaseTyped ==
  ASSUME Base
  PROVE  /\ row \in Rows /\ spool \in Rows /\ db \in Rows /\ HaltType
         /\ redis \in [Decisions -> {"never", "sent", "applied"}]
         /\ mask \in [Decisions -> SUBSET Horizons]
         /\ pending # None => pending \in Decisions /\ row[pending] # None
         /\ pub # Idle => pub.d \in Decisions /\ row[pub.d] # None /\ pub.rec \in Record
         /\ pub # Idle => pub.at \in {"spool", "eval"}
         /\ aud.d # None => aud.d \in Decisions /\ aud.rec \in Record
         /\ aud.at \in {"spool", "persist", "remove", "recovered"} => aud.d # None
         /\ pub = Idle => pub.d = None /\ pub.at = "idle"
         /\ None \notin Decisions
BY Typed, NoneIsNoDecision DEF Base, Inv, TypeOK, WorldType

LEMMA SoundRow ==
  ASSUME FamilyInv
  PROVE  SoundRows(row)
BY DEF FamilyInv, Family, Copies, SoundRows

LEMMA WireStep ==
  ASSUME NEW d \in Decisions, Wire(d), Family(d), Family(d)', DiskStep(d),
         redis'[d] = redis[d], mask'[d] = mask[d],
         \A r \in Copies(d)' \ Copies(d) : Witness(d, r),
         row'[d] = None \/ (redis[d] # "never" => row'[d].st \in Attempted)
  PROVE  Wire(d)'
<1>1. ASSUME NEW r \in Copies(d)' PROVE Witness(d, r)' /\ Witness(d, r)
  BY <1>1 DEF Wire, Witness
<1>2. ASSUME redis'[d] # "never" PROVE Ledger'[d] # None /\ Ledger'[d].st \in Announced
  <2>1. Ledger[d] # None /\ Ledger[d].st \in Announced  BY <1>2 DEF Wire
  <2>2. Ledger'[d] # None /\ Line(Ledger[d], Ledger'[d])  BY <2>1, LedgerRises DEF Rises
  <2>3. Ledger'[d].st # "reserved"
    BY <2>1, <2>2 DEF Line, Announced, Attempted, WireStatus
  <2>4. Ledger'[d] \in Copies(d)'  BY <2>2, LedgerStaysOnTop
  <2>5. Ledger'[d].st \in {"reserved"} \cup Announced  BY <1>1, <1>2, <2>4 DEF Witness
  <2> QED  BY <2>2, <2>3, <2>5
<1> QED  BY <1>1, <1>2 DEF Wire

LEMMA EndStep ==
  ASSUME EndInv, phase' \in Ends => phase \in Ends, saved' \subseteq saved,
         \A d \in Decisions : Rises(d) /\ Family(d)' /\ Family(d),
         \A d \in Decisions : row'[d] # None => row[d] # None /\ Line(row[d], row'[d])
  PROVE  EndInv'
<1> SUFFICES ASSUME phase' \in Ends, NEW d \in Decisions
             PROVE  /\ row'[d] # None => row'[d].term
                    /\ d \in saved' => Ledger'[d] # None /\ Ledger'[d].term
  BY DEF EndInv
<1>1. row'[d] # None => row'[d].term  BY LineAim DEF EndInv, Line, Legal
<1>2. d \in saved' => Ledger'[d] # None /\ Ledger'[d].term
  BY DEF EndInv, Rises, Line, Legal
<1> QED  BY <1>1, <1>2

\* A record that keeps what its publication is told still bears witness.
LEMMA GrownWitness ==
  ASSUME Base, NEW d \in Decisions, Wire(d), NEW r \in {row[d], spool[d], db[d]}, r # None,
         NEW q, Grown(r, q), q.st = r.st, q.sel = r.sel
  PROVE  Witness(d, q)
<1>1. Witness(d, r)  BY DEF Copies, Wire
<1>2. ASSUME NEW h \in Horizons, q.tgt[h].lead PROVE redis[d] = "applied" /\ h \in mask[d]
  <2>1. CASE r.tgt[h].lead  BY <1>1, <2>1 DEF Witness
  <2>2. CASE r.st = "acknowledged" /\ h \in r.sel
    <3>1. redis[d] = "applied"  BY <2>2 DEF Base, TruthInv, Hush, Quiet
    <3> QED  BY <1>1, <2>2, <3>1 DEF Witness, Announced, Attempted, WireStatus
  <2> QED  BY <1>2, <2>1, <2>2 DEF Grown, Earned
<1> QED  BY <1>1, <1>2 DEF Witness

LEMMA EvolvedWitness ==
  ASSUME Base, NEW d \in Decisions, Wire(d), NEW r \in {row[d], spool[d], db[d]}, r # None,
         NEW q, Evolved(r, q)
  PROVE  Witness(d, q)
BY GrownWitness DEF Evolved

\* d's row may evolve, and nothing else happens to d's copies but that a task takes or drops one.
Alone(d) ==
  /\ IF row[d] = None THEN row'[d] = None ELSE row'[d] # None /\ Evolved(row[d], row'[d])
  /\ spool'[d] = spool[d] /\ db'[d] = db[d] /\ redis'[d] = redis[d] /\ mask'[d] = mask[d]
  /\ Held(pub, d)' \in {Held(pub, d), None} /\ Held(aud, d)' \in {Held(aud, d), None, row[d]}
  /\ d \in issued => d \in issued'

LEMMA AloneStep ==
  ASSUME Base, NEW d \in Decisions, Family(d), Wire(d), Alone(d)
  PROVE  Family(d)' /\ DiskStep(d) /\ Wire(d)'
<1>1. Copies(d)' \subseteq Copies(d) \cup {row'[d]}  BY DEF Alone, Copies
<1>2. Family(d)'
  <2>1. CASE row[d] # None
    <3>1. Top(d, row'[d])  BY <2>1, GrownOnTop DEF Alone, Evolved
    <3>2. row[d] \in Copies(d)  BY <2>1 DEF Copies
    <3> QED  BY <1>1, <3>1, <3>2, FamilyStep DEF Family, Alone
  <2>2. CASE row[d] = None
    <3>1. Copies(d)' \subseteq Copies(d)  BY <1>1, <2>2 DEF Copies, Alone
    <3> QED  BY <2>2, <3>1, FamilyShrinks DEF Alone
  <2> QED  BY <2>1, <2>2
<1>3. DiskStep(d)  BY DEF DiskStep, Line, Alone
<1>4. Wire(d)'
  <2>1. \A r \in Copies(d)' \ Copies(d) : Witness(d, r)
    BY <1>1, EvolvedWitness DEF Copies, Alone
  <2>2. row'[d] = None \/ (redis[d] # "never" => row'[d].st \in Attempted)
    BY DEF Wire, Evolved, Alone
  <2> QED  BY <1>2, <1>3, <2>1, <2>2, WireStep DEF Alone
<1> QED  BY <1>2, <1>3, <1>4

DiskSteps == \A d \in Decisions : DiskStep(d)

\* A live row grows, and learns of no restart while the tasks run; a row that leaves memory is
\* in PostgreSQL, and nothing else comes there.
RowStep(d) ==
  \/ /\ row[d] # None /\ row'[d] # None /\ Grown(row[d], row'[d])
     /\ phase' = "running" => Restarted(row'[d]) \subseteq Restarted(row[d])
  \/ row'[d] # None /\ d \notin issued /\ Restarted(row'[d]) = {}
  \/ row[d] = None /\ row'[d] = None /\ (db[d] = None => db'[d] = None)
  \/ row[d] # None /\ row'[d] = None /\ db'[d] = row[d]
RowSteps == Up /\ Up' => \A d \in Decisions : RowStep(d)

\* A step that lets rows evolve and touches no other copy.
LEMMA QuietStep ==
  ASSUME Base, LineInv, EvolvedRows(row, row'), Dirtied,
         UNCHANGED <<spool, db, redis, mask, issued, saved, pub>>,
         aud' = aud \/ (aud'.d = None /\ aud'.at \notin {"persist", "remove", "recovered"}),
         pending' \in {pending, None}, Up' => Up, phase' \in Ends => phase \in Ends
  PROVE  LineInv' /\ DiskSteps /\ RowSteps
<1> USE BaseTyped
<1>1. \A d \in Decisions : Family(d) /\ Wire(d)  BY DEF LineInv, FamilyInv, WireInv
<1>2. ASSUME NEW d \in Decisions PROVE Alone(d)
  <2>1. Held(aud, d)' \in {Held(aud, d), None} /\ Held(pub, d)' = Held(pub, d)  BY DEF Held
  <2> QED  BY <2>1 DEF EvolvedRows, Alone
<1>3. ASSUME NEW d \in Decisions PROVE Family(d)' /\ DiskStep(d) /\ Wire(d)'
  BY <1>1, <1>2, AloneStep
<1>6. StatusInv'
  <2>1. \A d \in Decisions : row[d] # None => row'[d].st = row[d].st  BY <1>2 DEF Evolved, Alone
  <2> QED  BY <2>1 DEF LineInv, StatusInv, Idle
<1>7. HandInv'  BY DEF LineInv, HandInv
<1>8. OwnInv'  BY <1>2 DEF LineInv, OwnInv, Alone
<1>9. EndInv'
  <2>1. \A d \in Decisions : Rises(d)  BY <1>1, <1>3, LedgerRises
  <2>2. \A d \in Decisions : row'[d] # None => row[d] # None /\ Line(row[d], row'[d])
    BY <1>2 DEF Evolved, Grown, Alone
  <2> QED  BY <1>1, <1>3, <2>1, <2>2, EndStep DEF LineInv
<1>10. CleanInv'  BY <1>2 DEF LineInv, CleanInv, Dirtied, Alone
<1>11. RowSteps  BY <1>2 DEF RowSteps, RowStep, Alone, Evolved
<1> QED  BY <1>11, <1>3, <1>6, <1>7, <1>8, <1>9, <1>10 DEF LineInv, FamilyInv, WireInv, DiskSteps

\* The same while the process goes on as it was.
LEMMA QuietHere ==
  ASSUME Base, LineInv, EvolvedRows(row, row'), Dirtied,
         UNCHANGED <<spool, db, redis, mask, issued, saved, pub, phase, aud, pending>>
  PROVE  LineInv' /\ DiskSteps /\ RowSteps
<1>1. (Up' => Up) /\ (phase' \in Ends => phase \in Ends)  BY DEF Up, Ends
<1> QED  BY <1>1, QuietStep

\* A row may be told the outcome of its publication.
LEMMA GrownStep ==
  ASSUME Base, NEW d \in Decisions, Family(d), Wire(d), DiskStep(d),
         row[d] # None, row'[d] # None, Grown(row[d], row'[d]),
         Copies(d)' \subseteq Copies(d) \cup {row'[d]},
         redis'[d] = redis[d], mask'[d] = mask[d], d \in issued => d \in issued',
         Witness(d, row'[d]), redis[d] # "never" => row'[d].st \in Attempted
  PROVE  Family(d)' /\ Wire(d)'
<1>1. Top(d, row'[d])  BY GrownOnTop
<1>2. row[d] \in Copies(d)  BY DEF Copies
<1>3. Family(d)'  BY <1>1, <1>2, FamilyStep DEF Family
<1> QED  BY <1>3, WireStep

\* Before the command is sent any outcome but an attempt may be told.
LEMMA UnsentWitness ==
  ASSUME NEW d \in Decisions, Wire(d), row[d] # None, redis[d] = "never",
         NEW q, NEW sel, NEW t, t \notin Attempted, Restated(row[d], q, t, sel)
  PROVE  Witness(d, q)
<1>1. Witness(d, row[d])  BY DEF Wire, Copies
<1> QED  BY <1>1 DEF Witness, Restated

----------------------------------------------------------------------------
(* The calculation task and the feed callbacks. *)

LEMMA IssueLine ==
  ASSUME Base, LineInv, NEW d \in Decisions, NEW avail \in Priced, Issue(d, avail)
  PROVE  LineInv' /\ DiskSteps /\ RowSteps
<1> USE BaseTyped
<1>0. PICK p \in Decisions \cup {None} : p = pending  OBVIOUS
<1> DEFINE denied == SetStatus(row[p], "coalesced_before_publication")
           coalesced == IF p = None THEN row ELSE With(p, denied)
           new == NewRecord(Aim[d], avail)
<1>1. /\ d \notin issued /\ issued' = issued \cup {d} /\ pending' = d /\ phase = "running"
      /\ UNCHANGED <<phase, pub, aud, spool, db, redis, mask, saved>>
      /\ row' = [coalesced EXCEPT ![d] = new] /\ Dirtied
  BY <1>0 DEF Issue, SetRows, Dirtied, durable
<1>2. \A e \in Decisions : Family(e) /\ Wire(e)  BY DEF LineInv, FamilyInv, WireInv
<1>3. Copies(d) = {} /\ row[d] = None /\ redis[d] = "never"
  BY <1>1, <1>2 DEF Family, Copies, Base, SendInv
<1>4. p # None => /\ p \in Decisions /\ p # d /\ row[p] \in Record /\ row[p] # None
                  /\ row[p].st = "reserved" /\ redis[p] = "never" /\ pub.d # p /\ Sound(row[p])
  BY <1>0, <1>2, <1>3, SlotCases DEF Rows, LineInv, StatusInv, Base, SendInv, Family, Copies
<1>5. /\ new \in Record /\ Sound(new) /\ new.st = "reserved" /\ Restarted(new) = {}
      /\ \A h \in Horizons : ~new.tgt[h].lead
  BY NewRecordSound, AimType
<1>6. p # None => Restated(row[p], denied, "coalesced_before_publication", row[p].sel) /\ denied \in Record
  BY <1>4, SetStatusRestates DEF Leads, DeniedStatus, PubStatus, Restated
<1>7. /\ row'[d] = new /\ new # None
      /\ p # None => row'[p] = denied /\ denied # None
      /\ \A e \in Decisions \ {d, p} : row'[e] = row[e]
  <2>1. coalesced \in [Decisions -> Slot] /\ \A e \in Decisions \ {p} : coalesced[e] = row[e]
    BY <1>4, <1>6 DEF Rows, Slot, With
  <2>2. p # None => coalesced[p] = denied  BY <1>4 DEF Rows, With
  <2> QED  BY <1>1, <1>4, <1>5, <1>6, <2>1, <2>2, NoneIsApart
<1> HIDE DEF denied, coalesced, new
<1>8. Family(d)' /\ Wire(d)' /\ DiskStep(d)
  <2>1. Copies(d)' = {new}
    BY <1>1, <1>3, <1>7 DEF Copies, Held
  <2>2. Family(d)'  BY <1>1, <1>5, <1>7, <2>1 DEF Family, Line
  <2>3. DiskStep(d)  BY <1>1, <1>3 DEF DiskStep, Copies
  <2>4. Wire(d)'
    BY <1>1, <1>3, <1>5, <2>1 DEF Wire, Witness, Attempted, WireStatus
  <2> QED  BY <2>2, <2>3, <2>4
<1>9. ASSUME p # None PROVE Family(p)' /\ Wire(p)' /\ DiskStep(p)
  <2>1. Copies(p)' \subseteq Copies(p) \cup {row'[p]}  BY <1>1 DEF Copies, Held
  <2>2. DiskStep(p)  BY <1>1 DEF DiskStep, Line
  <2>3. Grown(row[p], row'[p])  BY <1>6, <1>7, <1>9, RestatedGrows
  <2>4. Witness(p, row'[p])
    BY <1>2, <1>4, <1>6, <1>7, <1>9, UnsentWitness DEF Attempted, WireStatus
  <2> QED  BY <1>1, <1>2, <1>4, <1>7, <1>9, <2>1, <2>2, <2>3, <2>4, GrownStep
<1>10. ASSUME NEW e \in Decisions \ {d, p} PROVE Family(e)' /\ Wire(e)' /\ DiskStep(e)
  <2>1. row[e] # None => Evolved(row[e], row[e])
    BY <1>2, EvolvedItself DEF Family, Copies
  <2>2. Alone(e)  BY <1>1, <1>7, <2>1 DEF Alone, Held
  <2> QED  BY <1>2, <2>2, AloneStep
<1>11. \A e \in Decisions : Family(e)' /\ Wire(e)' /\ DiskStep(e)  BY <1>8, <1>9, <1>10
<1>12. StatusInv'
  <2>1. pub # Idle => pub.d \notin {d, p}  BY <1>3, <1>4
  <2>2. pub # Idle => row'[pub.d] = row[pub.d]  BY <1>7, <2>1
  <2> QED  BY <1>1, <1>5, <1>7, <2>2 DEF LineInv, StatusInv, Idle
<1>13. HandInv'  BY <1>1 DEF LineInv, HandInv
<1>14. OwnInv' /\ EndInv' /\ CleanInv'
  <2>1. \A e \in Decisions : row[e] # None => row'[e] # None  BY <1>3, <1>7
  <2>2. \A e \in Decisions \ {d, p} : row'[e] # None /\ e \notin dirty' => db'[e] = row'[e]
    BY <1>1, <1>7 DEF LineInv, CleanInv, Dirtied
  <2>3. \A e \in {d, p} : e \in Decisions /\ row'[e] # None => e \in dirty' \/ row'[e] = row[e]
    BY <1>1 DEF Dirtied
  <2>4. row'[d] # row[d]  BY <1>3, <1>7
  <2>5. p # None => row'[p] # row[p]
    BY <1>6, <1>4, <1>7, SetStatusFields DEF Restated
  <2> QED  BY <1>1, <1>7, <2>1, <2>2, <2>3, <2>4, <2>5 DEF LineInv, OwnInv, EndInv, CleanInv, Up, Ends
<1>15. RowSteps
  <2>1. RowStep(d)  BY <1>1, <1>5, <1>7 DEF RowStep
  <2>2. p # None => RowStep(p)
    BY <1>4, <1>6, <1>7, RestatedGrows DEF RowStep
  <2>3. \A e \in Decisions \ {d, p} : RowStep(e)
    BY <1>1, <1>2, <1>7, EvolvedItself DEF RowStep, Evolved, Family, Copies
  <2> QED  BY <2>1, <2>2, <2>3 DEF RowSteps
<1> QED  BY <1>15, <1>11, <1>12, <1>13, <1>14 DEF LineInv, FamilyInv, WireInv, DiskSteps

LEMMA CalculateLine ==
  ASSUME Base, LineInv, Calculate
  PROVE  LineInv' /\ DiskSteps /\ RowSteps
<1> USE BaseTyped
<1>1. SoundRows(row)  BY SoundRow DEF LineInv
<1>2. EvolvedRows(row, row)  BY <1>1, RowsEvolveThemselves
<1>3. CASE OfferGap
  BY <1>2, <1>3, QuietHere DEF OfferGap, durable, world, Dirtied
<1>4. CASE ClockFault
  <2> DEFINE rows == [d \in Decisions |-> IF row[d] = None THEN None ELSE Invalidated(row[d])]
  <2>1. EvolvedRows(row, rows)
    BY <1>1, InvalidatedEvolves, EachEvolves, SlotCases DEF SoundRows, Rows
  <2>2. rows \in Rows /\ StopWith(rows, {})  BY <1>4, <2>1 DEF EvolvedRows, ClockFault
  <2> HIDE DEF rows
  <2>3. EvolvedRows(row, row') /\ Dirtied  BY <1>1, <2>1, <2>2, StopEvolves
  <2> QED  BY <1>4, <2>3, QuietHere DEF ClockFault, durable
<1>5. CASE OtherStop
  <2>1. EvolvedRows(row, row') /\ Dirtied  BY <1>1, <1>5, HandlerEvolves DEF OtherStop
  <2> QED  BY <1>5, <2>1, QuietHere DEF OtherStop, durable
<1>6. CASE FinalizeDue
  <2> DEFINE rows == [d \in Decisions |-> IF d \in due THEN Closed(row[d], "missing") ELSE row[d]]
  <2>1. due \subseteq Decisions /\ \A d \in due : row[d] # None
    BY DEF Base, Inv, TypeOK, TasksType, TaskInv
  <2>2. ASSUME NEW d \in Decisions, row[d] # None PROVE rows[d] # None /\ Evolved(row[d], rows[d])
    <3>1. row[d] \in Record /\ Sound(row[d])  BY <1>1, <2>2, SlotCases DEF SoundRows, Rows
    <3>2. CASE d \in due
      <4>1. Evolved(row[d], Closed(row[d], "missing"))  BY <3>1, ClosedGrows DEF Evolved
      <4> QED  BY <3>2, <4>1, NoneIsApart DEF Evolved, Grown
    <3>3. CASE d \notin due  BY <3>1, <3>3, EvolvedItself, <2>2
    <3> QED  BY <3>2, <3>3
  <2>3. \A d \in Decisions : row[d] = None => rows[d] = None  BY <2>1
  <2>4. row' = rows /\ Dirtied  BY <1>6 DEF FinalizeDue, Proceed, ProceedWith, SetRows, Dirtied
  <2>5. DOMAIN rows = Decisions /\ rows = [d \in Decisions |-> rows[d]]  OBVIOUS
  <2> HIDE DEF rows
  <2>6. EvolvedRows(row, rows)  BY <1>1, <2>2, <2>3, <2>5, EachEvolves
  <2> QED  BY <1>6, <2>4, <2>6, QuietHere DEF FinalizeDue, durable, world
<1>7. ASSUME NEW d \in Decisions, WindowElapses(d) PROVE LineInv' /\ DiskSteps /\ RowSteps
  BY <1>2, <1>7, QuietHere DEF WindowElapses, durable, world, Dirtied
<1>8. ASSUME NEW s \in Stamps, NEW v \in Values, OfferTwap(s, v) PROVE LineInv' /\ DiskSteps /\ RowSteps
  <2> DEFINE seen == [d \in Decisions |-> IF row[d] = None THEN None
                                          ELSE Observed(row[d], s, v, d \in due)]
  <2>1. EvolvedRows(row, seen)
    <3>1. ASSUME NEW d \in Decisions, row[d] # None
          PROVE  Evolved(row[d], Observed(row[d], s, v, d \in due))
      <4>1. row[d] \in Record /\ Sound(row[d])  BY <1>1, <3>1, SlotCases DEF SoundRows, Rows
      <4>2. (d \in due) \in BOOLEAN  OBVIOUS
      <4> QED  BY <4>1, <4>2, ObservedEvolves
    <3>2. \A d \in Decisions : IF row[d] = None THEN seen[d] = None ELSE Evolved(row[d], seen[d])
      BY <3>1
    <3>3. DOMAIN seen = Decisions /\ seen = [d \in Decisions |-> seen[d]]  OBVIOUS
    <3> HIDE DEF seen
    <3> QED  BY <1>1, <3>2, <3>3, EachEvolves
  <2>2. seen \in Rows /\ (StopWith(seen, {}) \/ ProceedWith(seen, {}))
    BY <1>8, <2>1 DEF EvolvedRows, OfferTwap, Proceed
  <2> HIDE DEF seen
  <2>3. EvolvedRows(row, row') /\ Dirtied  BY <1>1, <2>1, <2>2, StopEvolves
  <2> QED  BY <1>8, <2>3, QuietHere DEF OfferTwap, durable
<1> QED  BY <1>3, <1>4, <1>5, <1>6, <1>7, <1>8, IssueLine DEF Calculate

----------------------------------------------------------------------------
(* The guard task. *)

LEMMA ResumesEvolves ==
  ASSUME row \in Rows, SoundRows(row), Resumes
  PROVE  EvolvedRows(row, row') /\ Dirtied
BY TouchedEvolves DEF Resumes, SetRows, Dirtied

LEMMA GuardLine ==
  ASSUME Base, LineInv, Guard
  PROVE  LineInv' /\ DiskSteps /\ RowSteps
<1> USE BaseTyped
<1>1. SoundRows(row)  BY SoundRow DEF LineInv
<1>2. EvolvedRows(row, row') /\ Dirtied
  <2>1. CASE GuardMeasured
    BY <1>1, <2>1, ResumesEvolves, HandlerEvolves DEF GuardMeasured, Proceed
  <2>2. CASE NoCapacity
    BY <1>1, <2>2, HandlerEvolves DEF NoCapacity
  <2>3. CASE GuardFails
    BY <1>1, <2>3, HandlerEvolves DEF GuardFails
  <2>4. CASE GuardAges
    BY <1>1, <2>4, HandlerEvolves DEF GuardAges, Proceed
  <2>5. CASE StaleGuardSeen
    BY <1>1, <2>5, HandlerEvolves DEF StaleGuardSeen
  <2>6. CASE CheckpointDue
    BY <1>1, <2>6, RowsEvolveThemselves DEF CheckpointDue, Dirtied
  <2> QED  BY <2>1, <2>2, <2>3, <2>4, <2>5, <2>6 DEF Guard
<1>3. UNCHANGED <<spool, db, redis, mask, issued, saved, pub, phase, aud, pending>>
  BY DEF Guard, GuardMeasured, NoCapacity, GuardFails, GuardAges, CheckpointDue, StaleGuardSeen, GuardKeeps, durable
<1> QED  BY <1>2, <1>3, QuietHere

----------------------------------------------------------------------------
(* The publication task. *)

\* GhostSpool.write leaves the newer of two copies.
LEMMA NewestOnTop ==
  ASSUME NEW old \in Slot, NEW new \in Record, old # None => Line(old, new) \/ Line(new, old)
  PROVE  LET kept == Newest(old, new)
         IN  kept \in {old, new} /\ kept \in Record /\ Line(new, kept) /\ (old # None => Line(old, kept))
<1>1. Line(new, new) /\ (old # None => old \in Record /\ Line(old, old))  BY SlotCases DEF Line
<1>2. CASE old # None /\ old.ver > new.ver
  <2>1. ~Line(old, new)  BY <1>1, <1>2, LineVersion DEF Record
  <2> QED  BY <1>1, <1>2, <2>1 DEF Newest
<1>3. CASE ~(old # None /\ old.ver > new.ver)
  <2>1. old # None => Line(old, new)
    BY <1>1, <1>3, LineVersion DEF Record
  <2> QED  BY <1>3, <1>1, <2>1 DEF Newest
<1> QED  BY <1>2, <1>3

\* The publication of d has come to status t, whatever else the handler did.
Told(d, t) ==
  /\ row[d] # None /\ row'[d] # None /\ Grown(row[d], row'[d]) /\ row'[d].st = t
  /\ Restarted(row'[d]) \subseteq Restarted(row[d])
  /\ \A e \in Decisions \ {d} :
       IF row[e] = None THEN row'[e] = None ELSE row'[e] # None /\ Evolved(row[e], row'[e])
  /\ Dirtied

LEMMA DecidedTells ==
  ASSUME row \in Rows, SoundRows(row), NEW d \in Decisions, row[d] # None, NEW q, NEW sel, NEW t,
         Restated(row[d], q, t, sel), Decided(d, q) \/ Proceed(With(d, q))
  PROVE  Told(d, t) /\ row'[d] = q
<1>1. row' = With(d, q) /\ Dirtied  BY DEF Decided, Proceed, ProceedWith, SetRows, Dirtied
<1>2. row'[d] = q /\ q # None /\ \A e \in Decisions \ {d} : row'[e] = row[e]
  BY <1>1, NoneIsApart DEF Rows, With, Restated
<1>3. \A e \in Decisions : row[e] # None => Evolved(row[e], row[e])
  BY EvolvedItself, SlotCases DEF SoundRows, Rows
<1> QED  BY <1>1, <1>2, <1>3, RestatedGrows DEF Told, Restated

LEMMA HandlerTells ==
  ASSUME row \in Rows, SoundRows(row), NEW d \in Decisions, row[d] # None, NEW q, NEW sel, NEW t,
         Restated(row[d], q, t, sel), t # "acknowledged", NEW scope,
         SuspendWith(scope, With(d, q), {}) \/ IoFailure(scope, With(d, q), {})
  PROVE  Told(d, t)
<1> DEFINE rows == With(d, q)
<1>1. /\ rows \in Rows /\ rows[d] = q /\ q \in Record /\ Sound(q) /\ q # None
      /\ \A e \in Decisions \ {d} : rows[e] = row[e]
  BY NoneIsApart DEF Rows, Slot, With, Restated
<1>2. SoundRows(rows)  BY <1>1 DEF SoundRows
<1>3. SuspendWith(scope, rows, {}) \/ IoFailure(scope, rows, {})  OBVIOUS
<1> HIDE DEF rows
<1>4. EvolvedRows(rows, row') /\ Dirtied  BY <1>1, <1>2, <1>3, HandlerEvolves
<1>5. row'[d] # None /\ Evolved(q, row'[d])  BY <1>1, <1>4 DEF EvolvedRows
<1>6. row'[d] \in Record /\ row[d] \in Record  BY <1>5, SlotCases DEF Rows, Evolved, Grown
<1>7. Grown(row[d], q) /\ q.st = t /\ Restarted(q) = Restarted(row[d])  BY RestatedGrows DEF Restated
<1>8. Line(row[d], row'[d])  BY <1>1, <1>5, <1>6, <1>7, LineTransitive DEF Grown, Evolved
<1>9. Earned(row[d], row'[d])  BY <1>5, <1>7 DEF Earned, Evolved, Grown
<1>10. Grown(row[d], row'[d]) /\ row'[d].st = t /\ Restarted(row'[d]) \subseteq Restarted(row[d])
  BY <1>5, <1>6, <1>7, <1>8, <1>9 DEF Grown, Evolved
<1> QED  BY <1>1, <1>4, <1>5, <1>10 DEF Told, EvolvedRows

LEMMA RefuseTells ==
  ASSUME row \in Rows, SoundRows(row), NEW d \in Decisions, row[d] # None,
         NEW t \in DeniedStatus, Leads(row[d].st, t), Refuse(d, t)
  PROVE  Told(d, t)
<1>1. Restated(row[d], SetStatus(row[d], t), t, row[d].sel)
  BY SetStatusRestates, SlotCases DEF Rows, SoundRows, PubStatus
<1> QED  BY <1>1, DecidedTells, HandlerTells DEF Refuse, DeniedStatus

\* What the publication task does to the copies of the decision in its hands, and to no other.
LEMMA PublisherLine ==
  ASSUME Base, LineInv, PublisherKeeps, pending' \in {pending, None},
         NEW d \in Decisions, NEW t, Told(d, t), d # pending', phase \notin Ends \cup {"recovering"},
         \/ pub' = Idle
         \/ pub'.d = d /\ pub'.at = "spool" /\ pub'.rec = row'[d] /\ t = "intent"
         \/ pub'.d = d /\ pub'.at = "eval" /\ pub.d = d /\ pub'.rec = pub.rec /\ t = "attempting",
         \/ spool' = spool
         \/ pub.at = "spool" /\ pub.d = d /\ spool' = [spool EXCEPT ![d] = Newest(@, pub.rec)],
         \A e \in Decisions \ {d} : redis'[e] = redis[e] /\ mask'[e] = mask[e]
  PROVE  /\ Family(d)' /\ DiskSteps /\ RowSteps /\ Copies(d)' \subseteq Copies(d) \cup {row'[d]}
         /\ (Wire(d)' => LineInv') /\ RowSteps
<1> USE BaseTyped
<1>1. \A e \in Decisions : Family(e) /\ Wire(e)  BY DEF LineInv, FamilyInv, WireInv
<1>2. pub.at = "spool" /\ pub.d = d =>
        /\ Newest(spool[d], pub.rec) \in Copies(d)
        /\ spool[d] # None => Line(spool[d], Newest(spool[d], pub.rec))
        /\ Newest(spool[d], pub.rec) # None
  <2> SUFFICES ASSUME pub.at = "spool" /\ pub.d = d
               PROVE  /\ Newest(spool[d], pub.rec) \in Copies(d)
                      /\ spool[d] # None => Line(spool[d], Newest(spool[d], pub.rec))
                      /\ Newest(spool[d], pub.rec) # None
    OBVIOUS
  <2>1. pub.rec \in Record /\ pub.rec # None  BY NoneIsApart
  <2>2. pub.rec \in Copies(d)  BY <2>1 DEF Copies, Held
  <2>3. spool[d] \in Slot /\ (spool[d] # None => spool[d] \in Copies(d))  BY DEF Rows, Copies
  <2>4. spool[d] # None => Line(spool[d], pub.rec) \/ Line(pub.rec, spool[d])
    BY <1>1, <2>2, <2>3 DEF Family
  <2> QED  BY <2>1, <2>2, <2>3, <2>4, NewestOnTop, NoneIsApart
<1>3. \A e \in Decisions \ {d} : spool'[e] = spool[e]
  BY DEF Rows
<1>4. spool'[d] = spool[d] \/ spool'[d] \in Copies(d)  BY <1>2 DEF Rows
<1>5. db' = db /\ aud' = aud /\ phase' = phase /\ saved' = saved /\ issued' = issued
  BY DEF PublisherKeeps
<1>6. Copies(d)' \subseteq Copies(d) \cup {row'[d]}
  <2>1. Held(pub, d)' \in {None, row'[d], Held(pub, d)}  BY DEF Held, Idle
  <2> QED  BY <1>4, <1>5, <2>1 DEF Copies, Held
<1>7. DiskStep(d)
  BY <1>2, <1>5 DEF DiskStep, Line, Rows
<1>8. Family(d)'
  <2>1. Top(d, row'[d])  BY <1>1, GrownOnTop DEF Told
  <2>2. d \in issued  BY <1>1 DEF Family, Copies, Told
  <2> QED  BY <1>1, <1>5, <1>6, <2>1, <2>2, FamilyStep
<1>9. ASSUME NEW e \in Decisions \ {d} PROVE Family(e)' /\ DiskStep(e) /\ Wire(e)'
  <2>1. Held(pub, e)' = None  BY DEF Held, Idle
  <2>2. Alone(e)  BY <1>3, <1>5, <2>1 DEF Alone, Told, Held
  <2> QED  BY <1>1, <2>2, AloneStep
<1>10. DiskSteps /\ RowSteps  BY <1>5, <1>7, <1>9 DEF DiskSteps, RowSteps, RowStep, Told, Evolved
<1>11. ASSUME Wire(d)' PROVE LineInv'
  <2>1. \A e \in Decisions \ {d} : row[e] # None => row'[e].st = row[e].st
    BY DEF Told, Evolved
  <2>2. StatusInv'
    <3>1. pending' # None => row'[pending'].st = "reserved"
      BY <2>1 DEF LineInv, StatusInv
    <3>2. pub'.at = "spool" => row'[pub'.d].st = "intent" /\ pub'.rec.st = "intent"
      BY DEF Told, Idle
    <3>3. pub'.at = "eval" => row'[pub'.d].st = "attempting"  BY DEF Told, Idle
    <3> QED  BY <3>1, <3>2, <3>3 DEF StatusInv
  <2>3. HandInv'
    <3>1. aud.at \in {"persist", "remove"} => aud.d \in Decisions /\ aud.rec \in Record  OBVIOUS
    <3>2. aud.at = "persist" => spool'[aud.d] # None /\ Line(aud.rec, spool'[aud.d])
      <4> SUFFICES ASSUME aud.at = "persist" PROVE spool'[aud.d] # None /\ Line(aud.rec, spool'[aud.d])
        OBVIOUS
      <4>1. spool[aud.d] # None /\ Line(aud.rec, spool[aud.d])  BY DEF LineInv, HandInv
      <4>2. spool'[aud.d] # None /\ Line(spool[aud.d], spool'[aud.d])
        BY <1>2, <1>3, <3>1, <4>1 DEF Rows, Line
      <4>3. spool[aud.d] \in Record /\ spool'[aud.d] \in Record
        BY <1>8, <1>9, <3>1, <4>1, <4>2, SlotCases DEF Rows, Family, Copies
      <4> QED  BY <3>1, <4>1, <4>2, <4>3, LineTransitive
    <3>3. aud.at = "remove" => spool'[aud.d] = spool[aud.d]
      <4>1. aud.at = "remove" => pub.d # aud.d  BY DEF Base, Inv, TaskInv, Unclaimed
      <4> QED  BY <1>3, <3>1, <4>1
    <3>4. aud.at # "recovered"  BY DEF Base, Inv, PhaseInv
    <3> QED  BY <1>5, <3>2, <3>3, <3>4 DEF LineInv, HandInv
  <2>4. OwnInv'
    <3>1. \A e \in Decisions : (row[e] = None) <=> (row'[e] = None)  BY DEF Told
    <3>2. \A e \in Decisions \ {d} : spool'[e] = spool[e]  BY <1>3
    <3> QED  BY <1>5, <3>1, <3>2 DEF LineInv, OwnInv, Up, Told
  <2>5. EndInv'  BY <1>5 DEF EndInv
  <2>6. CleanInv'
    <3>1. \A e \in Decisions : row'[e] # None => row[e] # None  BY DEF Told
    <3> QED  BY <1>5, <3>1 DEF LineInv, CleanInv, Dirtied, Told
  <2> QED  BY <1>8, <1>9, <1>11, <2>2, <2>3, <2>4, <2>5, <2>6 DEF LineInv, FamilyInv, WireInv
<1> QED  BY <1>6, <1>8, <1>10, <1>11

\* No command was sent, and none is.
LEMMA UnsentLine ==
  ASSUME Base, LineInv, PublisherKeeps, pending' \in {pending, None},
         NEW d \in Decisions, NEW t, Told(d, t), d # pending', phase \notin Ends \cup {"recovering"},
         pub' = Idle \/ (pub'.d = d /\ pub'.at = "spool" /\ pub'.rec = row'[d] /\ t = "intent"),
         \/ spool' = spool
         \/ pub.at = "spool" /\ pub.d = d /\ spool' = [spool EXCEPT ![d] = Newest(@, pub.rec)],
         UNCHANGED <<redis, mask>>, redis[d] = "never", t \notin Attempted
  PROVE  LineInv' /\ DiskSteps /\ RowSteps
<1>1. Family(d) /\ Wire(d)  BY DEF LineInv, FamilyInv, WireInv
<1>2. /\ Family(d)' /\ DiskSteps /\ Copies(d)' \subseteq Copies(d) \cup {row'[d]}
      /\ (Wire(d)' => LineInv') /\ RowSteps
  BY PublisherLine
<1>3. Witness(d, row'[d])
  <2>1. Witness(d, row[d])  BY <1>1 DEF Wire, Copies, Told
  <2>2. row[d].st # "acknowledged" /\ \A h \in Horizons : ~row[d].tgt[h].lead
    BY <2>1 DEF Witness, Attempted, WireStatus
  <2>3. \A h \in Horizons : ~row'[d].tgt[h].lead  BY <2>2 DEF Told, Grown, Earned
  <2> QED  BY <2>3 DEF Witness, Told
<1>4. Wire(d)'
  BY <1>1, <1>2, <1>3, WireStep DEF DiskSteps
<1> QED  BY <1>2, <1>4

\* What publish() knows of the decision in its hands.
LEMMA PublisherKnows ==
  ASSUME Base, LineInv
  PROVE  /\ pending # None => /\ row[pending].st = "reserved" /\ redis[pending] = "never" /\ phase = "running"
         /\ pub.at = "spool" => row[pub.d].st = "intent" /\ redis[pub.d] = "never" /\ pub.d # pending
         /\ pub.at = "eval" => row[pub.d].st = "attempting" /\ pub.d # pending
         /\ pub # Idle => phase \notin Ends \cup {"recovering"} /\ pub.d \in Decisions /\ row[pub.d] # None
         /\ \A d \in Decisions : row[d] # None => row[d] \in Record /\ Sound(row[d])
BY BaseTyped, SlotCases DEF Base, SendInv, Inv, PhaseInv, LineInv, StatusInv, FamilyInv, Family, Copies, Ends, Rows, Idle

LEMMA AttemptFields ==
  ASSUME NEW d, row[d] \in Record
  PROVE  /\ Attempt(d) \in Record /\ Attempt(d).ver = row[d].ver + 1 /\ Attempt(d).aim = row[d].aim
         /\ Attempt(d).st = "attempting" /\ Attempt(d).sel = Eligible(row[d])
         /\ Attempt(d).tgt = row[d].tgt /\ Attempt(d).term = row[d].term /\ Attempt(d).inv = row[d].inv
<1> DEFINE s == SetStatus(row[d], "attempting")
<1>1. /\ s \in Record /\ s.ver = row[d].ver + 1 /\ s.aim = row[d].aim /\ s.st = "attempting"
      /\ s.tgt = row[d].tgt /\ s.term = row[d].term /\ s.inv = row[d].inv
  BY SetStatusFields DEF PubStatus, OpenStatus
<1>2. Eligible(row[d]) \in SUBSET Horizons  BY DEF Eligible
<1>3. Attempt(d) = [s EXCEPT !.sel = Eligible(row[d])]  BY DEF Attempt
<1> HIDE DEF s
<1> QED  BY <1>1, <1>2, <1>3 DEF Record

\* Two statuses of one handler.
LEMMA TwiceRestated ==
  ASSUME NEW r \in Record, Sound(r), NEW b \in Record, b.ver = r.ver + 1, b.aim = r.aim,
         b.tgt = r.tgt, b.term = r.term, b.inv = r.inv, r.st # "attempting",
         NEW t \in DeniedStatus, Leads(r.st, t)
  PROVE  Restated(r, SetStatus(b, t), t, b.sel)
<1>0. t \in PubStatus  BY DEF PubStatus
<1>1. PICK q \in Record : /\ q = SetStatus(b, t)
                          /\ q.ver = b.ver + 1 /\ q.aim = b.aim /\ q.st = t /\ q.sel = b.sel
                          /\ q.tgt = b.tgt /\ q.term = b.term /\ q.inv = b.inv
  BY <1>0, SetStatusFields
<1>2. q.ver > r.ver  BY <1>1 DEF Record
<1> QED  BY <1>1, <1>2, RestatedBy

LEMMA AttemptLine ==
  ASSUME Base, LineInv, NEW d \in Decisions, PublishAttempt(d)
  PROVE  LineInv' /\ DiskSteps /\ RowSteps
<1> USE BaseTyped
<1>1. /\ pub.at = "spool" /\ pub.d = d /\ pub # Idle
      /\ spool' = [spool EXCEPT ![d] = Newest(@, pub.rec)]
      /\ row[d] \in Record /\ row[d] # None /\ Sound(row[d]) /\ row[d].st = "intent" /\ redis[d] = "never"
      /\ d # pending /\ phase \notin Ends \cup {"recovering"}
  BY PublisherKnows DEF PublishAttempt, Spooled, Idle
<1>2. Restated(row[d], Attempt(d), "attempting", Eligible(row[d]))
  <2>1. Attempt(d).ver > row[d].ver  BY <1>1, AttemptFields DEF Record
  <2> QED  BY <1>1, <2>1, AttemptFields, RestatedBy DEF Leads
<1>3. Told(d, "attempting") /\ row'[d] = Attempt(d)
  BY <1>1, <1>2, DecidedTells, SoundRow DEF PublishAttempt, LineInv
<1>4. /\ pub'.d = d /\ pub'.at = "eval" /\ pub'.rec = pub.rec /\ pending' = pending /\ PublisherKeeps
      /\ redis'[d] = "sent" /\ mask'[d] = Eligible(row[d])
      /\ \A e \in Decisions \ {d} : redis'[e] = redis[e] /\ mask'[e] = mask[e]
  <2>1. pub \in [at : {"spool", "eval"}, d : Decisions, rec : Record]
    BY <1>1 DEF Base, Inv, TypeOK, TasksType, PubType
  <2> QED  BY <1>1, <2>1 DEF PublishAttempt
<1>5. /\ Family(d)' /\ DiskSteps /\ Copies(d)' \subseteq Copies(d) \cup {row'[d]}
      /\ (Wire(d)' => LineInv') /\ RowSteps
  BY <1>1, <1>3, <1>4, PublisherLine
<1>6. Family(d) /\ Wire(d)  BY DEF LineInv, FamilyInv, WireInv
<1>7. ASSUME NEW r \in Copies(d) PROVE r.st \in {"reserved", "intent"} /\ \A h \in Horizons : ~r.tgt[h].lead
  <2>1. Witness(d, r) /\ Line(r, row[d])  BY <1>1, <1>6 DEF Wire, Family
  <2>2. \A h \in Horizons : ~r.tgt[h].lead  BY <1>1, <2>1 DEF Witness
  <2>3. r.st \in OpenStatus /\ r.st # "attempting"
    BY <1>1, <2>1 DEF Line, Legal, Witness, Attempted, OpenStatus
  <2> QED  BY <2>2, <2>3 DEF OpenStatus
<1>8. \A h \in Horizons : ~row'[d].tgt[h].lead
  BY <1>2, <1>3, <1>7, <1>1 DEF Copies, Restated
<1>9. row'[d].st = "attempting" /\ row'[d].sel = mask'[d]
  BY <1>1, <1>3, <1>4, AttemptFields
<1>10. \A r \in Copies(d)' : Witness(d, r)'
  BY <1>4, <1>5, <1>7, <1>8, <1>9 DEF Witness, Announced, Attempted, WireStatus
<1>11. Ledger'[d] # None /\ Ledger'[d].st \in Announced
  <2>1. spool'[d] # None /\ spool'[d].st # "reserved"
    <3>1. pub.rec \in Record /\ pub.rec.st = "intent" /\ pub.rec # None /\ spool[d] \in Slot
      BY <1>1, NoneIsApart DEF LineInv, StatusInv, Rows
    <3>2. pub.rec \in Copies(d) /\ (spool[d] # None => spool[d] \in Copies(d))
      BY <1>1, <3>1 DEF Copies, Held
    <3>3. spool[d] # None => Line(spool[d], pub.rec) \/ Line(pub.rec, spool[d])
      BY <1>6, <3>2 DEF Family
    <3>4. Line(pub.rec, Newest(spool[d], pub.rec)) /\ Newest(spool[d], pub.rec) \in Record
      BY <3>1, <3>3, NewestOnTop
    <3>5. spool'[d] = Newest(spool[d], pub.rec)  BY <1>1 DEF Rows
    <3> QED  BY <3>1, <3>4, <3>5, NoneIsApart DEF Line
  <2>2. Ledger'[d] # None /\ Line(spool'[d], Ledger'[d]) /\ Ledger'[d] \in Copies(d)'
    BY <1>5, <2>1, LedgerStaysOnTop
  <2>3. Ledger'[d].st # "reserved"  BY <2>1, <2>2 DEF Line
  <2>4. PICK l \in Copies(d)' : l = Ledger'[d]  BY <2>2
  <2>5. Witness(d, l)'  BY <1>10
  <2> QED  BY <1>4, <2>2, <2>3, <2>4, <2>5 DEF Witness
<1>12. Wire(d)'
  BY <1>4, <1>9, <1>10, <1>11 DEF Wire, Attempted
<1> QED  BY <1>5, <1>12

LEMMA AppliesLine ==
  ASSUME Base, LineInv, NEW d \in Decisions, RedisApplies(d)
  PROVE  LineInv' /\ DiskSteps /\ RowSteps
<1> USE BaseTyped
<1>1. /\ UNCHANGED <<memory, durable, mask, issued>> /\ redis[d] = "sent" /\ redis'[d] = "applied"
      /\ \A e \in Decisions \ {d} : redis'[e] = redis[e]
  BY DEF RedisApplies
<1>2. UNCHANGED <<row, spool, db, pub, aud, pending, phase, dirty, saved, mask, issued>>
  BY <1>1 DEF memory, durable
<1>3. \A e \in Decisions : /\ Family(e) /\ Wire(e) /\ Copies(e)' = Copies(e) /\ Ledger'[e] = Ledger[e]
                           /\ row'[e] = row[e]
  BY <1>2, LedgerIs DEF LineInv, FamilyInv, WireInv, Copies, Held
<1>4. FamilyInv'  BY <1>2, <1>3 DEF FamilyInv, Family
<1>5. ASSUME NEW e \in Decisions PROVE Wire(e)'
  <2>1. ASSUME NEW r \in Copies(e) PROVE Witness(e, r)'
    <3>1. Witness(e, r)  BY <1>3 DEF Wire
    <3> QED  BY <1>1, <1>2, <3>1 DEF Witness
  <2>2. redis'[e] # "never" => redis[e] # "never"  BY <1>1
  <2> QED  BY <1>3, <2>1, <2>2 DEF Wire
<1>6. StatusInv' /\ HandInv' /\ OwnInv' /\ CleanInv'
  BY <1>2 DEF LineInv, StatusInv, HandInv, OwnInv, CleanInv, Up
<1>7. EndInv'  BY <1>2, <1>3 DEF LineInv, EndInv
<1>8. DiskSteps  BY <1>2 DEF DiskSteps, DiskStep, Line
<1>9. RowSteps
  BY <1>2, PublisherKnows, EvolvedItself DEF RowSteps, RowStep, Evolved
<1> QED  BY <1>9, <1>4, <1>5, <1>6, <1>7, <1>8 DEF LineInv, WireInv

LEMMA EndsLine ==
  ASSUME Base, LineInv, NEW d \in Decisions, NEW status \in WireStatus, PublishEnds(d, status)
  PROVE  LineInv' /\ DiskSteps /\ RowSteps
<1> USE BaseTyped
<1>1. /\ pub.at = "eval" /\ pub.d = d /\ pub # Idle /\ pub' = Idle /\ PublisherKeeps
      /\ pending' = pending /\ spool' = spool /\ redis' = redis /\ mask' = mask /\ Decided(d, SetStatus(row[d], status))
      /\ row[d] \in Record /\ row[d] # None /\ Sound(row[d]) /\ row[d].st = "attempting"
      /\ d # pending /\ phase \notin Ends \cup {"recovering"}
      /\ status = "acknowledged" => redis[d] = "applied"
  BY PublisherKnows DEF PublishEnds, Idle
<1>2. Restated(row[d], SetStatus(row[d], status), status, row[d].sel)
  BY <1>1, SetStatusRestates DEF Leads, PubStatus
<1>3. Told(d, status) /\ row'[d].st = status /\ row'[d].sel = row[d].sel /\ row'[d].tgt = row[d].tgt
  BY <1>1, <1>2, DecidedTells, SoundRow DEF LineInv, Restated
<1>4. /\ Family(d)' /\ DiskSteps /\ Copies(d)' \subseteq Copies(d) \cup {row'[d]}
      /\ (Wire(d)' => LineInv') /\ RowSteps
  <2>1. status \in {"acknowledged", "uncertain"}  BY DEF WireStatus
  <2>2. PublisherKeeps /\ pending' \in {pending, None} /\ d # pending' /\ Told(d, status)
        /\ phase \notin Ends \cup {"recovering"} /\ pub' = Idle /\ spool' = spool
    BY <1>1, <1>3
  <2>3. \A e \in Decisions \ {d} : redis'[e] = redis[e] /\ mask'[e] = mask[e]  BY <1>1
  <2> QED  BY <2>2, <2>3, PublisherLine
<1>5. Family(d) /\ Wire(d) /\ Witness(d, row[d])
  BY <1>1 DEF LineInv, FamilyInv, WireInv, Wire, Copies
<1>6. Witness(d, row'[d]) /\ status \in Attempted
  BY <1>1, <1>3, <1>5 DEF Witness, Attempted, Announced
<1>7. Wire(d)'
  BY <1>1, <1>3, <1>4, <1>5, <1>6, WireStep DEF DiskSteps
<1> QED  BY <1>4, <1>7

LEMMA CancelledLine ==
  ASSUME Base, LineInv, NEW d \in Decisions, PublishCancelled(d)
  PROVE  LineInv' /\ DiskSteps /\ RowSteps
<1> USE BaseTyped
<1>1. /\ pub.at = "spool" /\ pub.d = d /\ pub # Idle /\ pub' = Idle /\ PublisherKeeps
      /\ spool' = [spool EXCEPT ![d] = Newest(@, pub.rec)]
      /\ row' = row /\ dirty' = dirty /\ pending' = pending /\ redis' = redis /\ mask' = mask
      /\ row[d] # None /\ row[d].st = "intent" /\ redis[d] = "never"
      /\ d # pending /\ phase \notin Ends \cup {"recovering"}
  BY PublisherKnows DEF PublishCancelled, Spooled, Idle
<1>2. \A e \in Decisions : row[e] # None => Evolved(row[e], row[e])
  BY PublisherKnows, EvolvedItself
<1>3. Told(d, "intent")  BY <1>1, <1>2 DEF Told, Dirtied, Evolved
<1> QED  BY <1>1, <1>3, UnsentLine DEF Attempted, WireStatus

LEMMA PublishLine ==
  ASSUME Base, LineInv, Publish
  PROVE  LineInv' /\ DiskSteps /\ RowSteps
<1> USE BaseTyped
<1>1. SoundRows(row)  BY SoundRow DEF LineInv
<1>2. ASSUME PublishRefused \/ PublishWithheld \/ PublishIntent PROVE LineInv' /\ DiskSteps /\ RowSteps
  <2>1. PICK d \in Decisions : d = pending /\ row[d] # None
    BY <1>2 DEF PublishRefused, PublishWithheld, PublishIntent
  <2>2. /\ PublisherKeeps /\ pending' = None /\ spool' = spool /\ redis' = redis /\ mask' = mask
        /\ phase \notin Ends \cup {"recovering"} /\ d # pending'
    BY <1>2, <2>1 DEF PublishRefused, PublishWithheld, PublishIntent, Ends
  <2>3. row[d] \in Record /\ Sound(row[d]) /\ row[d].st = "reserved" /\ redis[d] = "never"
    BY <2>1, PublisherKnows
  <2>4. CASE PublishRefused
    <3>1. Refuse(d, "expired_or_target_received") /\ pub' = Idle  BY <2>1, <2>4 DEF PublishRefused
    <3>2. Told(d, "expired_or_target_received")
      BY <1>1, <2>1, <2>3, <3>1, RefuseTells DEF Leads, DeniedStatus
    <3> QED  BY <2>1, <2>2, <2>3, <3>1, <3>2, UnsentLine DEF Attempted, WireStatus
  <2>5. CASE PublishWithheld
    <3> DEFINE b == SetStatus(row[d], "intent")
    <3>1. Decided(d, SetStatus(b, "no_eligible_horizons")) /\ pub' = Idle
      BY <2>1, <2>5 DEF PublishWithheld
    <3>2. /\ b \in Record /\ b.ver = row[d].ver + 1 /\ b.aim = row[d].aim /\ b.tgt = row[d].tgt
          /\ b.term = row[d].term /\ b.inv = row[d].inv
      BY <2>3, SetStatusFields DEF PubStatus, OpenStatus
    <3> HIDE DEF b
    <3>3. Restated(row[d], SetStatus(b, "no_eligible_horizons"), "no_eligible_horizons", b.sel)
      BY <2>3, <3>2, TwiceRestated DEF Leads, DeniedStatus
    <3>4. Told(d, "no_eligible_horizons")  BY <1>1, <2>1, <3>1, <3>3, DecidedTells
    <3> QED  BY <2>1, <2>2, <2>3, <3>1, <3>4, UnsentLine DEF Attempted, WireStatus
  <2>6. CASE PublishIntent
    <3> DEFINE b == SetStatus(row[d], "intent")
    <3>1. Proceed(With(d, b)) /\ pub' = [at |-> "spool", d |-> d, rec |-> b]
      BY <2>1, <2>6 DEF PublishIntent
    <3>2. Restated(row[d], b, "intent", row[d].sel)
      BY <2>3, SetStatusRestates DEF Leads, PubStatus, OpenStatus
    <3> HIDE DEF b
    <3>3. Told(d, "intent") /\ row'[d] = b  BY <1>1, <2>1, <3>1, <3>2, DecidedTells
    <3>4. pub'.d = d /\ pub'.at = "spool" /\ pub'.rec = row'[d]  BY <3>1, <3>3
    <3> QED  BY <2>1, <2>2, <2>3, <3>3, <3>4, UnsentLine DEF Attempted, WireStatus
  <2> QED  BY <1>2, <2>4, <2>5, <2>6
<1>3. ASSUME NEW d \in Decisions,
             PublishPreempted(d) \/ PublishMasked(d) \/ PublishTooLate(d) \/ PublishSpoolFails(d)
      PROVE  LineInv' /\ DiskSteps /\ RowSteps
  <2>1. /\ pub.at = "spool" /\ pub.d = d /\ pub # Idle /\ pub' = Idle /\ PublisherKeeps
        /\ pending' = pending /\ redis' = redis /\ mask' = mask
        /\ spool' = spool \/ spool' = [spool EXCEPT ![d] = Newest(@, pub.rec)]
    BY <1>3 DEF PublishPreempted, PublishMasked, PublishTooLate, PublishSpoolFails, Spooled, Idle
  <2>2. /\ row[d] \in Record /\ row[d] # None /\ Sound(row[d]) /\ row[d].st = "intent"
        /\ redis[d] = "never" /\ d # pending' /\ phase \notin Ends \cup {"recovering"}
    BY <2>1, PublisherKnows
  <2>3. \A t \in DeniedStatus : /\ t \in PubStatus /\ Leads(row[d].st, t) /\ t # "acknowledged"
                                 /\ t \notin Attempted
    BY <2>2 DEF Leads, DeniedStatus, PubStatus, Attempted, WireStatus
  <2>4. \E t \in DeniedStatus : Told(d, t)
    <3>1. CASE PublishPreempted(d)
      BY <1>1, <2>2, <2>3, <3>1, RefuseTells DEF PublishPreempted, DeniedStatus
    <3>2. CASE PublishMasked(d)
      <4>1. "no_eligible_horizons" \in DeniedStatus  BY DEF DeniedStatus
      <4>2. Restated(row[d], SetStatus(row[d], "no_eligible_horizons"), "no_eligible_horizons", row[d].sel)
        BY <2>2, <2>3, <4>1, SetStatusRestates
      <4> QED  BY <1>1, <2>2, <3>2, <4>1, <4>2, DecidedTells DEF PublishMasked
    <3>3. CASE PublishTooLate(d)
      <4>1. "expired_before_attempt" \in DeniedStatus  BY DEF DeniedStatus
      <4>2. Restated(row[d], SetStatus(Attempt(d), "expired_before_attempt"), "expired_before_attempt",
                     Attempt(d).sel)
        BY <2>2, <2>3, <4>1, AttemptFields, TwiceRestated
      <4> QED  BY <1>1, <2>2, <3>3, <4>1, <4>2, DecidedTells DEF PublishTooLate
    <3>4. CASE PublishSpoolFails(d)
      <4>1. "spool_unavailable" \in DeniedStatus  BY DEF DeniedStatus
      <4>2. Restated(row[d], SetStatus(row[d], "spool_unavailable"), "spool_unavailable", row[d].sel)
        BY <2>2, <2>3, <4>1, SetStatusRestates
      <4> QED  BY <1>1, <2>2, <2>3, <3>4, <4>1, <4>2, HandlerTells DEF PublishSpoolFails
    <3> QED  BY <1>3, <3>1, <3>2, <3>3, <3>4
  <2> QED  BY <2>1, <2>2, <2>3, <2>4, UnsentLine
<1>4. "acknowledged" \in WireStatus /\ "uncertain" \in WireStatus  BY DEF WireStatus
<1> QED  BY <1>2, <1>3, <1>4, AttemptLine, AppliesLine, EndsLine, CancelledLine DEF Publish

----------------------------------------------------------------------------
(* The audit task. *)

\* The store leaves the newer of two copies.
LEMMA StoredOnTop ==
  ASSUME NEW old \in Slot, NEW new \in Record, old # None => Line(old, new) \/ Line(new, old)
  PROVE  LET kept == Stored(old, new)
         IN  kept \in {old, new} /\ kept \in Record /\ Line(new, kept) /\ (old # None => Line(old, kept))
<1>1. Line(new, new) /\ (old # None => old \in Record /\ Line(old, old))  BY SlotCases DEF Line
<1>2. CASE old # None /\ new.ver > old.ver
  <2>1. ~Line(new, old)  BY <1>1, <1>2, LineVersion DEF Record
  <2> QED  BY <1>1, <1>2, <2>1 DEF Stored
<1>3. CASE old # None /\ ~(new.ver > old.ver)
  <2>1. Line(new, old)  BY <1>1, <1>3, LineVersion DEF Record
  <2> QED  BY <1>1, <1>3, <2>1 DEF Stored
<1>4. CASE old = None  BY <1>1, <1>4 DEF Stored
<1> QED  BY <1>2, <1>3, <1>4

Worked == TakesEffect \/ UNCHANGED durable

\* What the operation in the audit task's hands does to the copies.
LEMMA EffectDisk ==
  ASSUME Base, LineInv, Worked
  PROVE  /\ \A e \in Decisions : /\ DiskStep(e)
                                 /\ spool'[e] \in Copies(e) \cup {None} /\ db'[e] \in Copies(e) \cup {None}
                                 /\ spool'[e] # None => row[e] # None \/ spool[e] # None
                                 /\ db'[e] = db[e] \/ row[e] # None
         /\ \A e \in Decisions \ {aud.d} : spool'[e] = spool[e] /\ db'[e] = db[e]
<1> USE BaseTyped
<1>1. \A e \in Decisions : Family(e)  BY DEF LineInv, FamilyInv
<1>2. CASE spool' = spool /\ db' = db
  BY <1>2 DEF DiskStep, Line, Copies
<1>3. CASE aud.at \in {"spool", "persist", "remove"} /\ TakesEffect
  <2>1. PICK d \in Decisions : d = aud.d /\ row[d] # None
    BY <1>3 DEF Base, Inv, TaskInv
  <2>2. /\ aud.rec \in Record /\ aud.rec \in Copies(d) /\ aud.rec # None
        /\ spool[d] \in Slot /\ db[d] \in Slot
        /\ spool[d] # None => spool[d] \in Copies(d)
        /\ db[d] # None => db[d] \in Copies(d)
    BY <1>3, <2>1, NoneIsApart DEF Copies, Held, Rows
  <2>3. /\ spool[d] # None => Line(spool[d], aud.rec) \/ Line(aud.rec, spool[d])
        /\ db[d] # None => Line(db[d], aud.rec) \/ Line(aud.rec, db[d])
    BY <1>1, <2>2 DEF Family
  <2>4. CASE aud.at = "spool"
    <3>1. spool' = [spool EXCEPT ![d] = Newest(@, aud.rec)] /\ db' = db
      BY <1>3, <2>1, <2>4 DEF TakesEffect
    <3>2. /\ spool'[d] = Newest(spool[d], aud.rec) /\ \A e \in Decisions \ {d} : spool'[e] = spool[e]
      BY <3>1 DEF Rows
    <3>3. spool'[d] \in {spool[d], aud.rec} /\ spool'[d] # None /\ (spool[d] # None => Line(spool[d], spool'[d]))
      BY <2>2, <2>3, <3>2, NewestOnTop, NoneIsApart
    <3> QED  BY <2>1, <2>2, <3>1, <3>2, <3>3 DEF DiskStep, Line, Copies
  <2>5. CASE aud.at = "persist"
    <3>1. db' = [db EXCEPT ![d] = Stored(@, aud.rec)] /\ spool' = spool
      BY <1>3, <2>1, <2>5 DEF TakesEffect
    <3>2. /\ db'[d] = Stored(db[d], aud.rec) /\ \A e \in Decisions \ {d} : db'[e] = db[e]
      BY <3>1 DEF Rows
    <3>3. db'[d] \in {db[d], aud.rec} /\ db'[d] # None /\ (db[d] # None => Line(db[d], db'[d]))
      BY <2>2, <2>3, <3>2, StoredOnTop, NoneIsApart
    <3> QED  BY <2>1, <2>2, <3>1, <3>2, <3>3 DEF DiskStep, Line, Copies
  <2>6. CASE aud.at = "remove"
    <3>1. spool' = [spool EXCEPT ![d] = None] /\ db' = db
      BY <1>3, <2>1, <2>6 DEF TakesEffect
    <3>2. spool'[d] = None /\ \A e \in Decisions \ {d} : spool'[e] = spool[e]
      BY <3>1 DEF Rows
    <3>3. spool[d] = db[d] /\ db[d] # None  BY <2>1, <2>2, <2>6 DEF LineInv, HandInv
    <3> QED  BY <2>1, <2>2, <3>1, <3>2, <3>3 DEF DiskStep, Line, Copies
  <2> QED  BY <1>3, <2>4, <2>5, <2>6
<1> QED  BY <1>2, <1>3 DEF Worked, TakesEffect, durable

\* A row evolves, or leaves with its file.
RowsGoOn ==
  \A e \in Decisions :
    IF row[e] = None THEN row'[e] = None
    ELSE \/ row'[e] # None /\ Evolved(row[e], row'[e])
         \/ row'[e] = None /\ e = aud.d /\ aud.at = "remove" /\ spool'[e] = None
            /\ db'[e] = db[e] /\ db[e] = row[e]

LEMMA EffectLine ==
  ASSUME Base, LineInv, Worked, RowsGoOn, AuditKeeps, aud.at # "recovered",
         aud' = Idle \/ (aud'.d = aud.d /\ aud'.rec = aud.rec)
  PROVE  DiskSteps /\ RowSteps /\ (HandInv' /\ CleanInv' => LineInv')
<1> USE BaseTyped
<1>1. \A e \in Decisions : Family(e) /\ Wire(e)  BY DEF LineInv, FamilyInv, WireInv
<1>2. DiskSteps /\ RowSteps  BY EffectDisk DEF DiskSteps, RowSteps, RowStep, RowsGoOn, Evolved
<1>3. pub' = pub /\ pending' = pending /\ redis' = redis /\ mask' = mask /\ issued' = issued
      /\ phase' = phase /\ saved' = saved
  BY DEF AuditKeeps
<1>4. ASSUME NEW e \in Decisions PROVE Family(e)' /\ Wire(e)'
  <2>1. Copies(e)' \subseteq Copies(e) \cup {row'[e]}
    <3>1. Held(aud, e)' \in {Held(aud, e), None} /\ Held(pub, e)' = Held(pub, e)
      BY <1>3 DEF Held, Idle
    <3> QED  BY <3>1, EffectDisk DEF Copies
  <2>2. CASE row'[e] = None
    <3>1. Copies(e)' \subseteq Copies(e)  BY <2>1, <2>2 DEF Copies
    <3>2. Family(e)'  BY <1>1, <1>3, <2>2, <3>1, FamilyShrinks
    <3>3. \A r \in Copies(e)' \ Copies(e) : Witness(e, r)  BY <3>1
    <3>4. DiskStep(e)  BY <1>2 DEF DiskSteps
    <3> QED  BY <1>1, <1>3, <2>2, <3>2, <3>3, <3>4, WireStep
  <2>3. CASE row'[e] # None
    <3>1. row[e] # None /\ Evolved(row[e], row'[e])  BY <2>3 DEF RowsGoOn
    <3>2. Witness(e, row'[e])  BY <1>1, <3>1, EvolvedWitness
    <3>3. redis[e] # "never" => row'[e].st \in Attempted  BY <1>1, <3>1 DEF Wire, Evolved
    <3>4. Grown(row[e], row'[e]) /\ DiskStep(e)  BY <1>2, <3>1 DEF Evolved, DiskSteps
    <3> QED  BY <1>1, <1>3, <2>1, <2>3, <3>1, <3>2, <3>3, <3>4, GrownStep
  <2> QED  BY <2>2, <2>3
<1>5. StatusInv'
  <2>1. ASSUME NEW e \in Decisions, row[e] # None, e = pending \/ e = pub.d
        PROVE  row'[e].st = row[e].st
    <3>1. aud.at = "remove" => e # aud.d
      BY <2>1 DEF Base, Inv, TaskInv, Unclaimed
    <3> QED  BY <2>1, <3>1 DEF RowsGoOn, Evolved
  <2> QED  BY <1>3, <2>1 DEF LineInv, StatusInv, Idle
<1>6. OwnInv'
  <2> SUFFICES ASSUME Up, NEW e \in Decisions
               PROVE  /\ spool'[e] # None => row'[e] # None
                      /\ row'[e] = None /\ db'[e] # None => db'[e].term
    BY <1>3 DEF OwnInv, Up
  <2>1. CASE row[e] = None
    BY <2>1, EffectDisk DEF LineInv, OwnInv, RowsGoOn
  <2>2. CASE row[e] # None /\ row'[e] = None
    <3>1. db[e] # None => db[e].term  BY <2>2 DEF LineInv, HandInv, RowsGoOn
    <3> QED  BY <2>2, <3>1 DEF RowsGoOn
  <2>3. CASE row[e] # None /\ row'[e] # None  BY <2>3
  <2> QED  BY <2>1, <2>2, <2>3
<1>7. EndInv'
  <2>1. \A e \in Decisions : Rises(e)  BY <1>1, <1>2, <1>4, LedgerRises DEF DiskSteps
  <2>2. \A e \in Decisions : row'[e] # None => row[e] # None /\ Line(row[e], row'[e])
    BY DEF RowsGoOn, Evolved, Grown
  <2> QED  BY <1>1, <1>3, <1>4, <2>1, <2>2, EndStep DEF LineInv
<1> QED  BY <1>2, <1>4, <1>5, <1>6, <1>7 DEF LineInv, FamilyInv, WireInv

\* A record that the audit task holds and its live row: which of them PostgreSQL has.
LEMMA AuditKnows ==
  ASSUME Base, LineInv, aud.at \in {"spool", "persist", "remove"}
  PROVE  /\ aud.d \in Decisions /\ aud.rec \in Record /\ row[aud.d] \in Record /\ row[aud.d] # None
         /\ Line(aud.rec, row[aud.d])
         /\ spool[aud.d] # None => spool[aud.d] \in Record /\ Line(spool[aud.d], row[aud.d])
         /\ db[aud.d] # None => db[aud.d] \in Record /\ Line(db[aud.d], row[aud.d])
         /\ db[aud.d] \in Slot
         /\ db[aud.d] # None => Line(db[aud.d], aud.rec) \/ Line(aud.rec, db[aud.d])
<1> USE BaseTyped
<1>1. PICK d \in Decisions : d = aud.d /\ row[d] # None  BY DEF Base, Inv, TaskInv
<1>2. aud.rec \in Record /\ aud.rec # None /\ aud.rec \in Copies(d)
  BY <1>1, NoneIsApart DEF Copies, Held
<1>3. Family(d)  BY DEF LineInv, FamilyInv
<1>4. /\ row[d] \in Copies(d) /\ (spool[d] # None => spool[d] \in Copies(d))
      /\ (db[d] # None => db[d] \in Copies(d)) /\ db[d] \in Slot
  BY <1>1 DEF Copies, Rows
<1> QED  BY <1>1, <1>2, <1>3, <1>4 DEF Family

LEMMA RowsStay ==
  ASSUME Base, LineInv, row' = row
  PROVE  RowsGoOn
BY PublisherKnows, EvolvedItself DEF RowsGoOn

\* What was stored of a clean row is that row.
LEMMA StoredClean ==
  ASSUME Base, LineInv, aud.at = "persist", row[aud.d] # None, db[aud.d] = row[aud.d]
  PROVE  Stored(db[aud.d], aud.rec) = row[aud.d]
<1>1. /\ aud.rec \in Record /\ row[aud.d] \in Record /\ Line(aud.rec, row[aud.d])  BY AuditKnows
<1>2. row[aud.d].ver >= aud.rec.ver  BY <1>1, LineVersion
<1> QED  BY <1>1, <1>2 DEF Stored, Record

LEMMA SpooledLine ==
  ASSUME Base, LineInv, AuditSpooled
  PROVE  LineInv' /\ DiskSteps /\ RowSteps
<1> USE BaseTyped
<1>1. /\ aud.at = "spool" /\ TakesEffect /\ row' = row /\ dirty' = dirty /\ AuditKeeps
      /\ aud'.d = aud.d /\ aud'.rec = aud.rec /\ aud'.at = "persist"
  <2>1. aud \in [at : {"spool", "persist", "remove", "recovered"}, d : Decisions, rec : Record]
    BY DEF AuditSpooled, Base, Inv, TypeOK, TasksType, AudType, Idle
  <2> QED  BY <2>1 DEF AuditSpooled
<1>2. PICK d \in Decisions : d = aud.d  BY <1>1
<1>3. spool' = [spool EXCEPT ![d] = Newest(@, aud.rec)] /\ db' = db  BY <1>1, <1>2 DEF TakesEffect
<1>4. DiskSteps /\ RowSteps /\ (HandInv' /\ CleanInv' => LineInv')
  BY <1>1, RowsStay, EffectLine DEF Worked
<1>5. HandInv'
  <2>1. aud.rec \in Copies(d) /\ (spool[d] # None => spool[d] \in Copies(d)) /\ spool[d] \in Slot
    BY <1>1, <1>2, NoneIsApart DEF Copies, Held, Rows
  <2>2. spool[d] # None => Line(spool[d], aud.rec) \/ Line(aud.rec, spool[d])
    BY <2>1 DEF LineInv, FamilyInv, Family
  <2>3. spool'[d] # None /\ Line(aud.rec, spool'[d])
    BY <1>1, <1>2, <1>3, <2>1, <2>2, NewestOnTop, NoneIsApart DEF Rows
  <2> QED  BY <1>1, <1>2, <2>3 DEF HandInv
<1>6. CleanInv'  BY <1>1, <1>3 DEF LineInv, CleanInv
<1> QED  BY <1>4, <1>5, <1>6

LEMMA PersistedLine ==
  ASSUME Base, LineInv, AuditPersisted
  PROVE  LineInv' /\ DiskSteps /\ RowSteps
<1> USE BaseTyped
<1>1. /\ aud.at = "persist" /\ TakesEffect /\ row' = row /\ AuditKeeps
      /\ aud' = Idle \/ aud' = [aud EXCEPT !.at = "remove"]
  BY DEF AuditPersisted
<1>2. PICK d \in Decisions : d = aud.d /\ row[d] # None  BY <1>1, AuditKnows
<1>3. spool' = spool /\ db' = [db EXCEPT ![d] = Stored(@, aud.rec)]  BY <1>1, <1>2 DEF TakesEffect
<1>4. db'[d] = Stored(db[d], aud.rec) /\ \A e \in Decisions \ {d} : db'[e] = db[e]
  BY <1>3 DEF Rows
<1>5. aud \in [at : {"spool", "persist", "remove", "recovered"}, d : Decisions, rec : Record]
  BY <1>1 DEF Base, Inv, TypeOK, TasksType, AudType, Idle
<1>6. DiskSteps /\ RowSteps /\ (HandInv' /\ CleanInv' => LineInv')
  BY <1>1, <1>5, RowsStay, EffectLine DEF Worked
<1>7. row[d].ver = aud.rec.ver => row[d] = aud.rec /\ db'[d] = row[d] /\ spool[d] = row[d]
  <2> SUFFICES ASSUME row[d].ver = aud.rec.ver
               PROVE  row[d] = aud.rec /\ db'[d] = row[d] /\ spool[d] = row[d]
    OBVIOUS
  <2>1. aud.rec \in Record /\ row[d] \in Record /\ Line(aud.rec, row[d])  BY <1>1, <1>2, AuditKnows
  <2>2. row[d] = aud.rec  BY <2>1, LineVersion
  <2>3. spool[d] # None /\ Line(aud.rec, spool[d])  BY <1>1, <1>2 DEF LineInv, HandInv
  <2>4. spool[d] \in Record /\ Line(spool[d], row[d])  BY <1>1, <1>2, <2>3, AuditKnows
  <2>5. spool[d] = row[d]
    <3>1. spool[d].ver >= aud.rec.ver /\ row[d].ver >= spool[d].ver  BY <2>1, <2>3, <2>4, LineVersion
    <3>2. row[d].ver = spool[d].ver  BY <2>1, <2>2, <2>4, <3>1 DEF Record
    <3> QED  BY <2>1, <2>4, <3>2, LineVersion
  <2>6. db'[d] = row[d]
    <3>1. CASE db[d] = None  BY <1>4, <2>2, <3>1 DEF Stored
    <3>2. CASE db[d] # None
      <4>1. db[d] \in Record /\ Line(db[d], row[d])  BY <1>1, <1>2, <3>2, AuditKnows
      <4>2. row[d].ver >= db[d].ver /\ (row[d].ver = db[d].ver => row[d] = db[d])
        BY <2>1, <4>1, LineVersion
      <4> QED  BY <1>4, <2>1, <2>2, <3>2, <4>1, <4>2 DEF Stored, Record
    <3> QED  BY <3>1, <3>2
  <2> QED  BY <2>2, <2>5, <2>6
<1>8. HandInv'
  <2>1. CASE aud' = Idle  BY <2>1 DEF HandInv, Idle
  <2>2. CASE aud' # Idle
    <3>1. row[d].ver = aud.rec.ver /\ row[d].term /\ aud' = [aud EXCEPT !.at = "remove"]
      BY <1>2, <2>2 DEF AuditPersisted
    <3>2. aud'.at = "remove" /\ aud'.d = d /\ aud'.rec = aud.rec  BY <1>2, <1>5, <3>1
    <3> QED  BY <1>3, <1>7, <3>1, <3>2 DEF HandInv
  <2> QED  BY <2>1, <2>2
<1>9. CleanInv'
  <2>1. \A e \in Decisions \ {d} : row'[e] # None /\ e \notin dirty' => db'[e] = row'[e]
    BY <1>1, <1>2, <1>4 DEF AuditPersisted, LineInv, CleanInv
  <2>2. row[d].ver = aud.rec.ver \/ d \in dirty' \/ db[d] = row[d]
    BY <1>2 DEF AuditPersisted, LineInv, CleanInv
  <2>3. d \notin dirty' => db'[d] = row[d]
    BY <1>1, <1>2, <1>4, <1>7, <2>2, StoredClean
  <2> QED  BY <1>1, <2>1, <2>3 DEF CleanInv
<1> QED  BY <1>6, <1>8, <1>9

LEMMA RemovedLine ==
  ASSUME Base, LineInv, AuditRemoved
  PROVE  LineInv' /\ DiskSteps /\ RowSteps
<1> USE BaseTyped
<1>1. /\ aud.at = "remove" /\ TakesEffect /\ aud' = Idle /\ dirty' = dirty /\ AuditKeeps
      /\ row' \in {row, With(aud.d, None)}
  BY DEF AuditRemoved
<1>2. PICK d \in Decisions : d = aud.d  BY <1>1
<1>3. spool'[d] = None /\ db' = db  BY <1>1, <1>2 DEF TakesEffect, Rows
<1>4. \A e \in Decisions : row'[e] = row[e] \/ (row'[e] = None /\ e = d /\ row[d].ver = aud.rec.ver)
  BY <1>1, <1>2 DEF AuditRemoved, With, Rows
<1>a. row[d].ver = aud.rec.ver => db[d] = row[d]
  BY <1>1, <1>2, AuditKnows, LineVersion DEF LineInv, HandInv
<1>5. RowsGoOn
  BY <1>1, <1>2, <1>3, <1>4, <1>a, PublisherKnows, EvolvedItself DEF RowsGoOn
<1>6. DiskSteps /\ RowSteps /\ (HandInv' /\ CleanInv' => LineInv')
  BY <1>1, <1>5, EffectLine DEF Worked
<1>7. HandInv'  BY <1>1 DEF HandInv, Idle
<1>8. CleanInv'  BY <1>1, <1>3, <1>4 DEF LineInv, CleanInv
<1> QED  BY <1>6, <1>7, <1>8

LEMMA FailsLine ==
  ASSUME Base, LineInv, AuditFails
  PROVE  LineInv' /\ DiskSteps /\ RowSteps
<1> USE BaseTyped
<1>1. /\ aud.at # "recovered" /\ aud' = Idle /\ Worked /\ AuditKeeps
      /\ IoFailure("audit", row, FailedRow)
  BY DEF AuditFails, Worked
<1>2. EvolvedRows(row, row') /\ Dirtied
  BY <1>1, SoundRow, HandlerEvolves DEF LineInv
<1>3. DiskSteps /\ RowSteps /\ (HandInv' /\ CleanInv' => LineInv')
  BY <1>1, <1>2, EffectLine DEF EvolvedRows, RowsGoOn
<1>4. HandInv'  BY <1>1 DEF HandInv, Idle
<1>5. aud.d \in Decisions => aud.d \in dirty'
  BY <1>1 DEF IoFailure, ProceedWith, StopWith, SuspendWith, SetRows, FailedRow
<1>6. \A e \in Decisions \ {aud.d} : db'[e] = db[e]  BY <1>1, EffectDisk
<1>7. CleanInv'
  BY <1>2, <1>5, <1>6 DEF LineInv, CleanInv, Dirtied, EvolvedRows
<1> QED  BY <1>3, <1>4, <1>7

LEMMA AuditCancelledLine ==
  ASSUME Base, LineInv, AuditCancelled
  PROVE  LineInv' /\ DiskSteps /\ RowSteps
<1> USE BaseTyped
<1>1. /\ aud' = Idle /\ Worked /\ AuditKeeps /\ row' = row /\ dirty' = dirty
      /\ aud.at # "recovered"
  BY DEF AuditCancelled, Worked, Base, Inv, PhaseInv
<1>2. DiskSteps /\ RowSteps /\ (HandInv' /\ CleanInv' => LineInv')
  BY <1>1, RowsStay, EffectLine
<1>3. HandInv'  BY <1>1 DEF HandInv, Idle
<1>4. CleanInv'
  <2>1. CASE db' = db  BY <1>1, <2>1 DEF LineInv, CleanInv
  <2>2. CASE db' # db
    <3>1. aud.at = "persist" /\ TakesEffect  BY <1>1, <2>2 DEF Worked, TakesEffect, durable
    <3>2. PICK d \in Decisions : d = aud.d  BY <3>1
    <3>3. db'[d] = Stored(db[d], aud.rec) /\ \A e \in Decisions \ {d} : db'[e] = db[e]
      BY <3>1, <3>2 DEF TakesEffect, Rows
    <3>4. row[d] # None /\ d \notin dirty => db'[d] = row[d]
      BY <3>1, <3>2, <3>3, StoredClean DEF LineInv, CleanInv
    <3> QED  BY <1>1, <3>3, <3>4 DEF LineInv, CleanInv
  <2> QED  BY <2>1, <2>2
<1> QED  BY <1>2, <1>3, <1>4

\* The official prices kept for stored rows are noted on the rows that no process owns.
LEMMA NotingLine ==
  ASSUME Base, LineInv, late # <<>>, aud = Idle, aud' = aud, Up, AuditKeeps,
         Noting \/ UNCHANGED durable, EvolvedRows(row, row'), Dirtied
  PROVE  LineInv' /\ DiskSteps /\ RowSteps
<1> USE BaseTyped
<1>1. \A e \in Decisions : Family(e) /\ Wire(e)  BY DEF LineInv, FamilyInv, WireInv
<1>2. /\ pub' = pub /\ pending' = pending /\ redis' = redis /\ mask' = mask /\ issued' = issued
      /\ phase' = phase /\ saved' = saved /\ spool' = spool
  BY DEF AuditKeeps, Noting, durable
<1>3. PICK s \in Stamps, v \in Values : s = Head(late).stamp /\ v = Head(late).value
  <2>1. late \in Seq(Prices)  BY DEF Base, Inv, TypeOK, TasksType
  <2>2. Head(late) \in Prices  BY <2>1
  <2> QED  BY <2>2 DEF Prices
<1>4. \A e \in Decisions : row[e] # None \/ db[e] = None => db'[e] = db[e]
  BY DEF Noting, Live, durable
<1>5. \A e \in Decisions : row[e] = None /\ db[e] # None => db'[e] \in {db[e], Noted(db[e], s, v)}
  BY <1>3 DEF Noting, Live, durable
<1>6. ASSUME NEW e \in Decisions
      PROVE  Family(e)' /\ DiskStep(e) /\ Wire(e)' /\ (row[e] = None /\ db[e] # None => Evolved(db[e], db'[e]))
             /\ (db[e] = None => db'[e] = None)
  <2>1. CASE row[e] # None \/ db[e] = None
    <3>1. Alone(e)  BY <1>2, <1>4, <2>1 DEF Alone, EvolvedRows, Held
    <3> QED  BY <1>1, <1>4, <2>1, <3>1, AloneStep
  <2>2. CASE row[e] = None /\ db[e] # None
    <3>1. db[e] \in Copies(e) /\ db[e] \in Record /\ Sound(db[e])  BY <1>1, <2>2 DEF Copies, Family
    <3>2. Evolved(db[e], db'[e])  BY <1>5, <2>2, <3>1, NotedEvolves, EvolvedItself
    <3>3. spool[e] = None /\ row'[e] = None  BY <2>2 DEF LineInv, OwnInv, EvolvedRows
    <3>4. Held(pub, e) = None /\ Held(aud, e) = None /\ Held(pub, e)' = None /\ Held(aud, e)' = None
      BY <1>2, <2>2 DEF Held, Idle
    <3>5. Copies(e) = {db[e]} /\ Copies(e)' \subseteq {db'[e]}
      BY <1>2, <2>2, <3>3, <3>4 DEF Copies
    <3>6. Top(e, db'[e])  BY <3>2, <3>5 DEF Top, Evolved, Grown
    <3>7. Family(e)'  BY <1>1, <1>2, <3>1, <3>3, <3>5, <3>6, FamilyStep DEF Family
    <3>8. DiskStep(e)
      BY <3>2, <3>3, NoneIsApart DEF DiskStep, Evolved, Grown
    <3>9. Witness(e, db'[e])  BY <1>1, <2>2, <3>2, EvolvedWitness
    <3>10. \A r \in Copies(e)' \ Copies(e) : Witness(e, r)  BY <3>5, <3>9
    <3>11. Wire(e)'  BY <1>1, <1>2, <3>3, <3>7, <3>8, <3>10, WireStep
    <3> QED  BY <2>2, <3>2, <3>7, <3>8, <3>11
  <2> QED  BY <2>1, <2>2
<1>7. StatusInv'
  <2>1. \A d \in Decisions : row[d] # None => row'[d].st = row[d].st  BY DEF EvolvedRows, Evolved
  <2> QED  BY <1>2, <2>1 DEF LineInv, StatusInv, Idle
<1>8. HandInv'  BY DEF HandInv, Idle
<1>9. OwnInv'
  BY <1>2, <1>6 DEF LineInv, OwnInv, Up, EvolvedRows, Evolved, Grown, Line, Legal
<1>10. EndInv'
  <2>1. \A d \in Decisions : Rises(d)  BY <1>1, <1>6, LedgerRises
  <2>2. \A d \in Decisions : row'[d] # None => row[d] # None /\ Line(row[d], row'[d])
    BY DEF EvolvedRows, Evolved, Grown
  <2> QED  BY <1>1, <1>2, <1>6, <2>1, <2>2, EndStep DEF LineInv
<1>11. CleanInv'  BY <1>4 DEF LineInv, CleanInv, Dirtied, EvolvedRows
<1>12. RowSteps  BY <1>6 DEF RowSteps, RowStep, EvolvedRows, Evolved
<1> QED  BY <1>12, <1>6, <1>7, <1>8, <1>9, <1>10, <1>11 DEF LineInv, FamilyInv, WireInv, DiskSteps

LEMMA BeginLine ==
  ASSUME Base, LineInv, NEW d \in Decisions, AuditBegin(d)
  PROVE  LineInv' /\ DiskSteps /\ RowSteps
<1> USE BaseTyped
<1>1. /\ aud = Idle /\ aud' = [at |-> "spool", d |-> d, rec |-> row[d]]
      /\ row' = row /\ dirty' = dirty /\ spool' = spool /\ db' = db
      /\ pub' = pub /\ pending' = pending /\ redis' = redis /\ mask' = mask /\ issued' = issued
      /\ phase' = phase /\ saved' = saved
  BY DEF AuditBegin, AuditKeeps, durable
<1>2. \A e \in Decisions : Family(e) /\ Wire(e)  BY DEF LineInv, FamilyInv, WireInv
<1>3. \A e \in Decisions : row[e] # None => Evolved(row[e], row[e])
  BY PublisherKnows, EvolvedItself
<1>4. ASSUME NEW e \in Decisions PROVE Family(e)' /\ DiskStep(e) /\ Wire(e)'
  <2>1. Alone(e)  BY <1>1, <1>3 DEF Alone, Held
  <2> QED  BY <1>2, <2>1, AloneStep
<1>5. StatusInv'  BY <1>1 DEF LineInv, StatusInv
<1>6. HandInv'  BY <1>1 DEF HandInv
<1>7. OwnInv' /\ CleanInv'  BY <1>1 DEF LineInv, OwnInv, CleanInv, Up
<1>8. EndInv'
  <2>1. \A e \in Decisions : Rises(e)  BY <1>2, <1>4, LedgerRises
  <2>2. \A e \in Decisions : row'[e] # None => row[e] # None /\ Line(row[e], row'[e])
    BY <1>1 DEF Line
  <2> QED  BY <1>1, <1>2, <1>4, <2>1, <2>2, EndStep DEF LineInv
<1>9. RowSteps  BY <1>1, <1>3 DEF RowSteps, RowStep, Evolved
<1> QED  BY <1>9, <1>4, <1>5, <1>6, <1>7, <1>8 DEF LineInv, FamilyInv, WireInv, DiskSteps

LEMMA AuditLine ==
  ASSUME Base, LineInv, Audit
  PROVE  LineInv' /\ DiskSteps /\ RowSteps
<1> USE BaseTyped
<1>1. SoundRows(row)  BY SoundRow DEF LineInv
<1>2. EvolvedRows(row, row)  BY <1>1, RowsEvolveThemselves
<1>3. CASE CampaignBegin \/ CampaignSaved
  <2>1. /\ row' = row /\ dirty' = dirty /\ spool' = spool /\ db' = db
        /\ aud'.d = None /\ aud'.at \notin {"persist", "remove", "recovered"} /\ AuditKeeps
    BY <1>3 DEF CampaignBegin, CampaignSaved, TakesEffect, durable, Idle
  <2>2. (Up' => Up) /\ (phase' \in Ends => phase \in Ends)  BY <2>1 DEF Up, Ends, AuditKeeps
  <2> QED  BY <1>2, <2>1, <2>2, QuietStep DEF Dirtied, AuditKeeps
<1>4. CASE FlushEnds
  <2>1. EvolvedRows(row, row') /\ Dirtied  BY <1>1, <1>4, ResumesEvolves DEF FlushEnds
  <2> QED  BY <1>4, <2>1, QuietHere DEF FlushEnds, AuditKeeps, durable
<1>5. CASE LateNoted \/ LateFails
  <2>1. /\ late # <<>> /\ aud = Idle /\ aud' = aud /\ Up /\ AuditKeeps /\ (Noting \/ UNCHANGED durable)
    BY <1>5 DEF LateNoted, LateFails, Auditing, Up
  <2>2. EvolvedRows(row, row') /\ Dirtied
    BY <1>1, <1>2, <1>5, HandlerEvolves DEF LateNoted, LateFails, Dirtied
  <2> QED  BY <2>1, <2>2, NotingLine
<1> QED  BY <1>3, <1>4, <1>5, BeginLine, SpooledLine, PersistedLine, RemovedLine, FailsLine,
            AuditCancelledLine DEF Audit

----------------------------------------------------------------------------
(* start(), close() and the death of the process. *)

\* A process leaves the world with what is on disk and in PostgreSQL.
LEMMA ResetLine ==
  ASSUME Base, LineInv, NEW stop, NEW camp, Reset(stop, camp), phase' \in {"down", "recovering"},
         spool' = spool, db' = db, redis' = redis, mask' = mask, issued' = issued
  PROVE  LineInv' /\ DiskSteps /\ RowSteps
<1>1. \A e \in Decisions : Family(e) /\ Wire(e)  BY DEF LineInv, FamilyInv, WireInv
<1>2. /\ \A e \in Decisions : row'[e] = None
      /\ pub' = Idle /\ aud' = Idle /\ pending' = None
  BY DEF Reset
<1>3. ASSUME NEW e \in Decisions PROVE Family(e)' /\ DiskStep(e) /\ Wire(e)'
  <2>1. Copies(e)' \subseteq Copies(e)
    BY <1>2 DEF Copies, Held, Idle
  <2>2. Family(e)'  BY <1>1, <1>2, <2>1, FamilyShrinks
  <2>3. DiskStep(e)  BY DEF DiskStep, Line
  <2>4. \A r \in Copies(e)' \ Copies(e) : Witness(e, r)  BY <2>1
  <2> QED  BY <1>1, <1>2, <2>2, <2>3, <2>4, WireStep
<1>4. StatusInv' /\ HandInv' /\ CleanInv'  BY <1>2 DEF StatusInv, HandInv, CleanInv, Idle
<1>5. OwnInv' /\ EndInv'  BY DEF OwnInv, EndInv, Up, Ends
<1>6. RowSteps  BY DEF RowSteps, Up
<1> QED  BY <1>6, <1>3, <1>4, <1>5 DEF LineInv, FamilyInv, WireInv, DiskSteps

\* In recovery nothing is in memory but what start() is about.
LEMMA Recovering ==
  ASSUME Base, LineInv, phase = "recovering"
  PROVE  /\ \A e \in Decisions : row[e] = None
         /\ pub = Idle /\ pending = None
         /\ \A e \in Decisions : Copies(e) = {spool[e], db[e], Held(aud, e)} \ {None}
BY DEF Base, Inv, PhaseInv, Copies, Held, Idle

LEMMA ReconciledTop ==
  ASSUME Base, NEW d \in Decisions, Family(d), Wire(d), NEW r \in {spool[d], db[d]}, r # None,
         \A q \in Copies(d) : Line(q, r)
  PROVE  /\ Top(d, Reconciled(r)) /\ Line(r, Reconciled(r)) /\ Reconciled(r).term
         /\ Reconciled(r) # None /\ Witness(d, Reconciled(r))
<1>1. r \in Record /\ Sound(r) /\ r \in Copies(d)  BY DEF Family, Copies
<1>2. /\ Grown(r, Reconciled(r)) /\ Reconciled(r).term
      /\ Reconciled(r).st = r.st /\ Reconciled(r).sel = r.sel
  BY <1>1, ReconciledGrows
<1>3. PICK x \in Record : x = Reconciled(r)  BY <1>2 DEF Grown
<1>4. \A q \in Copies(d) : q \in Record /\ Line(q, x)
  BY <1>1, <1>2, <1>3, LineTransitive DEF Family, Grown
<1>5. Witness(d, x)  BY <1>2, <1>3, GrownWitness
<1> QED  BY <1>2, <1>3, <1>4, <1>5, NoneIsApart DEF Top, Grown

LEMMA RecoverSpooledLine ==
  ASSUME Base, LineInv, NEW d \in Decisions, RecoverSpooled(d)
  PROVE  LineInv' /\ DiskSteps /\ RowSteps
<1> USE BaseTyped
<1>1. /\ phase = "recovering" /\ phase' = phase /\ aud = Idle /\ spool[d] # None
      /\ aud' = [at |-> "recovered", d |-> d, rec |-> spool[d]]
      /\ db' = [db EXCEPT ![d] = Stored(@, Reconciled(Ledger[d]))]
      /\ row' = row /\ spool' = spool /\ pub' = pub /\ pending' = pending
      /\ redis' = redis /\ mask' = mask /\ issued' = issued /\ dirty' = dirty
  BY DEF RecoverSpooled, RecoveryKeeps, AuditKeeps, Ledger
<1>2. \A e \in Decisions : Family(e) /\ Wire(e)  BY DEF LineInv, FamilyInv, WireInv
<1>3. /\ \A e \in Decisions : row[e] = None
      /\ \A e \in Decisions : Copies(e) = {spool[e], db[e]} \ {None}
      /\ pub = Idle /\ pending = None
  BY <1>1, Recovering DEF Held, Idle
<1>4. PICK l \in Record : /\ l = Ledger[d] /\ l \in {spool[d], db[d]} /\ l # None
                          /\ \A q \in Copies(d) : Line(q, l)
  <2>1. Ledger[d] # None /\ Ledger[d] \in Record /\ Ledger[d] \in {spool[d], db[d]}
    BY <1>1, <1>2, LedgerOnTop
  <2>2. \A q \in Copies(d) : Line(q, Ledger[d])  BY <1>2, <1>3, LedgerOnTop
  <2> QED  BY <2>1, <2>2
<1>5. PICK x : /\ x = Reconciled(l) /\ Top(d, x) /\ x \in Record /\ x # None /\ Witness(d, x)
               /\ Line(l, x)
  BY <1>2, <1>4, ReconciledTop DEF Top
<1>6. db'[d] = Stored(db[d], x) /\ \A e \in Decisions \ {d} : db'[e] = db[e]
  BY <1>1, <1>4, <1>5 DEF Rows
<1>7. /\ db'[d] \in {db[d], x} /\ db'[d] # None /\ Line(x, db'[d]) /\ db'[d] \in Record
      /\ db[d] # None => Line(db[d], db'[d])
  <2>1. db[d] # None => Line(db[d], x)  BY <1>3, <1>5 DEF Top
  <2>2. db[d] \in Slot  BY DEF Rows
  <2> QED  BY <1>5, <1>6, <2>1, <2>2, StoredOnTop, NoneIsApart
<1>8. Family(d)' /\ DiskStep(d) /\ Wire(d)'
  <2>1. Copies(d)' \subseteq Copies(d) \cup {x}
    BY <1>1, <1>3, <1>7 DEF Copies, Held, Idle
  <2>2. Copies(d) # {}  BY <1>1, <1>3
  <2>3. Family(d)'  BY <1>1, <1>2, <1>3, <1>5, <2>1, <2>2, FamilyStep DEF Family
  <2>4. DiskStep(d)  BY <1>1, <1>7 DEF DiskStep, Line
  <2>5. \A r \in Copies(d)' \ Copies(d) : Witness(d, r)  BY <1>5, <2>1
  <2> QED  BY <1>1, <1>2, <1>3, <2>3, <2>4, <2>5, WireStep
<1>9. ASSUME NEW e \in Decisions \ {d} PROVE Family(e)' /\ DiskStep(e) /\ Wire(e)'
  <2>1. Alone(e)  BY <1>1, <1>3, <1>6 DEF Alone, Held, Idle
  <2> QED  BY <1>2, <2>1, AloneStep
<1>10. HandInv'
  <2>1. Line(spool[d], x) /\ spool[d] \in Record  BY <1>1, <1>2, <1>3, <1>5 DEF Top, Family
  <2>2. Line(spool[d], db'[d])  BY <1>5, <1>7, <2>1, LineTransitive
  <2> QED  BY <1>1, <1>7, <2>2 DEF HandInv
<1>11. StatusInv' /\ OwnInv' /\ EndInv' /\ CleanInv'
  BY <1>1, <1>3 DEF StatusInv, OwnInv, EndInv, CleanInv, Up, Ends, Idle
<1>12. RowSteps  BY <1>1 DEF RowSteps, Up
<1> QED  BY <1>12, <1>8, <1>9, <1>10, <1>11 DEF LineInv, FamilyInv, WireInv, DiskSteps

LEMMA RecoverRemovedLine ==
  ASSUME Base, LineInv, RecoverRemoved
  PROVE  LineInv' /\ DiskSteps /\ RowSteps
<1> USE BaseTyped
<1>1. PICK d \in Decisions : d = aud.d  BY DEF RecoverRemoved
<1>2. /\ phase = "recovering" /\ phase' = phase /\ aud' = Idle
      /\ row' = row /\ db' = db /\ pub' = pub /\ pending' = pending
      /\ redis' = redis /\ mask' = mask /\ issued' = issued /\ dirty' = dirty
      /\ spool'[d] = None /\ \A e \in Decisions \ {d} : spool'[e] = spool[e]
      /\ spool[d] = aud.rec /\ db[d] # None /\ Line(aud.rec, db[d])
  BY <1>1 DEF RecoverRemoved, RecoveryKeeps, AuditKeeps, Base, Inv, PhaseInv, Rows, LineInv, HandInv
<1>3. \A e \in Decisions : Family(e) /\ Wire(e)  BY DEF LineInv, FamilyInv, WireInv
<1>4. (\A e \in Decisions : row[e] = None) /\ pub = Idle /\ pending = None
  BY <1>2, Recovering
<1>5. ASSUME NEW e \in Decisions PROVE Family(e)' /\ DiskStep(e) /\ Wire(e)'
  <2>1. Copies(e)' \subseteq Copies(e)
    BY <1>2 DEF Copies, Held, Idle
  <2>2. Family(e)'  BY <1>2, <1>3, <1>4, <2>1, FamilyShrinks
  <2>3. DiskStep(e)  BY <1>2 DEF DiskStep, Line
  <2>4. \A r \in Copies(e)' \ Copies(e) : Witness(e, r)  BY <2>1
  <2> QED  BY <1>2, <1>3, <1>4, <2>2, <2>3, <2>4, WireStep
<1>6. StatusInv' /\ HandInv' /\ OwnInv' /\ EndInv' /\ CleanInv'
  BY <1>2, <1>4 DEF StatusInv, HandInv, OwnInv, EndInv, CleanInv, Up, Ends, Idle
<1>7. RowSteps  BY <1>2 DEF RowSteps, Up
<1> QED  BY <1>7, <1>5, <1>6 DEF LineInv, FamilyInv, WireInv, DiskSteps

LEMMA StartedLine ==
  ASSUME Base, LineInv, Started
  PROVE  LineInv' /\ DiskSteps /\ RowSteps
<1> USE BaseTyped
<1>1. /\ phase = "recovering" /\ phase' = "running" /\ aud = Idle /\ aud' = aud
      /\ db' = StoredClosed /\ spool' = spool /\ pub' = pub /\ pending' = pending
      /\ redis' = redis /\ mask' = mask /\ issued' = issued
      /\ \A e \in Decisions : spool[e] = None
  BY DEF Started, OutboxEmpty
<1>2. \A e \in Decisions : Family(e) /\ Wire(e)  BY DEF LineInv, FamilyInv, WireInv
<1>3. /\ \A e \in Decisions : row[e] = None
      /\ \A e \in Decisions : Copies(e) = {db[e]} \ {None}
      /\ pub = Idle /\ pending = None
  BY <1>1, Recovering DEF Held, Idle
<1>4. \A e \in Decisions : row'[e] = None
  <2>1. EvolvedRows(row, row')
    BY SoundRow, HandlerEvolves DEF Started, Proceed, LineInv
  <2> QED  BY <1>3, <2>1 DEF EvolvedRows
<1>5. ASSUME NEW e \in Decisions
      PROVE  /\ Family(e)' /\ DiskStep(e) /\ Wire(e)'
             /\ db'[e] # None => db'[e].term
  <2>1. CASE db[e] = None
    <3>1. db'[e] = None  BY <1>1, <2>1 DEF StoredClosed
    <3>2. Alone(e)  BY <1>1, <1>3, <1>4, <2>1, <3>1 DEF Alone
    <3> QED  BY <1>2, <3>1, <3>2, AloneStep
  <2>2. CASE db[e] # None
    <3>1. db'[e] = Reconciled(db[e])  BY <1>1, <2>2 DEF StoredClosed
    <3>2. \A q \in Copies(e) : Line(q, db[e])  BY <1>3 DEF Line
    <3>3. /\ Top(e, db'[e]) /\ Line(db[e], db'[e]) /\ db'[e].term /\ db'[e] # None
          /\ Witness(e, db'[e])
      BY <1>2, <2>2, <3>1, <3>2, ReconciledTop
    <3>4. Copies(e)' \subseteq {db'[e]}
      BY <1>1, <1>3, <1>4 DEF Copies, Held, Idle
    <3>5. Copies(e) # {}  BY <1>3, <2>2
    <3>6. Family(e)'  BY <1>1, <1>2, <1>4, <3>3, <3>4, <3>5, FamilyStep DEF Family
    <3>7. DiskStep(e)  BY <1>1, <3>3 DEF DiskStep
    <3>8. \A r \in Copies(e)' \ Copies(e) : Witness(e, r)  BY <3>3, <3>4
    <3>9. Wire(e)'  BY <1>1, <1>2, <1>4, <3>6, <3>7, <3>8, WireStep
    <3> QED  BY <3>3, <3>6, <3>7, <3>9
  <2> QED  BY <2>1, <2>2
<1>6. StatusInv' /\ HandInv' /\ OwnInv' /\ EndInv' /\ CleanInv'
  BY <1>1, <1>3, <1>4, <1>5 DEF StatusInv, HandInv, OwnInv, EndInv, CleanInv, Ends, Idle
<1>7. RowSteps  BY <1>1 DEF RowSteps, Up
<1> QED  BY <1>7, <1>5, <1>6 DEF LineInv, FamilyInv, WireInv, DiskSteps

LEMMA FreezeLine ==
  ASSUME Base, LineInv, Freeze
  PROVE  LineInv' /\ DiskSteps /\ RowSteps
<1> USE BaseTyped
<1> DEFINE rows == [d \in Decisions |-> IF row[d] = None THEN None
                                        ELSE Closed(row[d], "restart_unmatched")]
<1>1. /\ phase \in {"quiescing", "cancelling"} /\ phase' = "preserving" /\ pub = Idle /\ aud = Idle
      /\ row' = rows /\ Dirtied /\ saved' = {}
      /\ spool' = spool /\ db' = db /\ pub' = pub /\ aud' = aud /\ pending' = pending
      /\ redis' = redis /\ mask' = mask /\ issued' = issued
  BY DEF Freeze, SetRows, Dirtied, durable, world
<1>2. \A e \in Decisions : Family(e) /\ Wire(e)  BY DEF LineInv, FamilyInv, WireInv
<1>3. pending = None  BY <1>1 DEF Base, Inv, PhaseInv
<1>4. \A e \in Decisions : row[e] = None => row'[e] = None  BY <1>1
<1>5. ASSUME NEW e \in Decisions, row[e] # None
      PROVE  /\ row'[e] # None /\ Grown(row[e], row'[e]) /\ row'[e].term
             /\ row'[e].st = row[e].st /\ row'[e].sel = row[e].sel
  <2>1. row'[e] = Closed(row[e], "restart_unmatched")  BY <1>1, <1>5
  <2>2. row[e] \in Record /\ Sound(row[e])  BY <1>2, <1>5 DEF Family, Copies
  <2>3. Grown(row[e], Closed(row[e], "restart_unmatched"))  BY <2>2, ClosedGrows
  <2>4. Closed(row[e], "restart_unmatched") # None  BY <2>3, NoneIsApart DEF Grown
  <2> QED  BY <2>1, <2>2, <2>4, ClosedGrows
<1> HIDE DEF rows
<1>6. ASSUME NEW e \in Decisions PROVE Family(e)' /\ DiskStep(e) /\ Wire(e)'
  <2>1. Copies(e)' \subseteq Copies(e) \cup {row'[e]}  BY <1>1 DEF Copies, Held
  <2>2. DiskStep(e)  BY <1>1 DEF DiskStep, Line
  <2>3. CASE row[e] = None
    <3>1. Alone(e)  BY <1>1, <1>4, <2>3 DEF Alone
    <3> QED  BY <1>2, <3>1, AloneStep
  <2>4. CASE row[e] # None
    <3>1. Witness(e, row'[e])  BY <1>2, <1>5, <2>4, GrownWitness
    <3>2. redis[e] # "never" => row'[e].st \in Attempted  BY <1>2, <1>5, <2>4 DEF Wire
    <3> QED  BY <1>1, <1>2, <1>5, <2>1, <2>2, <2>4, <3>1, <3>2, GrownStep
  <2> QED  BY <2>3, <2>4
<1>7. StatusInv' /\ HandInv'  BY <1>1, <1>3 DEF StatusInv, HandInv, Idle
<1>8. OwnInv'
  BY <1>1, <1>4, <1>5 DEF LineInv, OwnInv, Up
<1>9. EndInv'
  BY <1>1, <1>4, <1>5 DEF EndInv
<1>10. CleanInv'
  BY <1>1, <1>4 DEF LineInv, CleanInv, Dirtied
<1>11. RowSteps  BY <1>1, <1>4, <1>5 DEF RowSteps, RowStep
<1> QED  BY <1>11, <1>6, <1>7, <1>8, <1>9, <1>10 DEF LineInv, FamilyInv, WireInv, DiskSteps

LEMMA PreserveLine ==
  ASSUME Base, LineInv, NEW d \in Decisions, PreserveRow(d)
  PROVE  LineInv' /\ DiskSteps /\ RowSteps
<1> USE BaseTyped
<1>1. /\ phase = "preserving" /\ phase' = phase /\ aud = Idle /\ pub = Idle /\ row[d] # None
      /\ row' = row /\ dirty' = dirty /\ db' = db /\ pub' = pub /\ aud' = aud /\ pending' = pending
      /\ redis' = redis /\ mask' = mask /\ issued' = issued
      /\ \/ saved' = saved \cup {d} /\ spool' = [spool EXCEPT ![d] = Newest(@, row[d])]
         \/ saved' = saved /\ spool' = spool
  BY DEF PreserveRow, Base, Inv, PhaseInv, TaskInv
<1>2. \A e \in Decisions : Family(e) /\ Wire(e)  BY DEF LineInv, FamilyInv, WireInv
<1>3. row[d] \in Record /\ row[d] \in Copies(d)
  BY <1>1, <1>2 DEF Family, Copies
<1>4. LET s == Newest(spool[d], row[d])
      IN  s \in {spool[d], row[d]} /\ s # None /\ Line(row[d], s) /\ (spool[d] # None => Line(spool[d], s))
          /\ s \in Record
  <2>1. spool[d] \in Slot  BY DEF Rows
  <2>2. spool[d] # None => Line(spool[d], row[d])
    BY <1>1, <1>2 DEF Family, Copies
  <2> QED  BY <1>3, <2>1, <2>2, NewestOnTop, NoneIsApart
<1>5. \A e \in Decisions \ {d} : spool'[e] = spool[e]  BY <1>1 DEF Rows
<1>6. spool'[d] = spool[d] \/ spool'[d] = Newest(spool[d], row[d])  BY <1>1 DEF Rows
<1>7. ASSUME NEW e \in Decisions PROVE Family(e)' /\ DiskStep(e) /\ Wire(e)'
  <2>1. row[e] # None => Evolved(row[e], row[e])  BY PublisherKnows, EvolvedItself
  <2>2. CASE e # d
    <3>1. Alone(e)  BY <1>1, <1>5, <2>1, <2>2 DEF Alone, Held
    <3> QED  BY <1>2, <3>1, AloneStep
  <2>3. CASE e = d
    <3>1. DiskStep(d)  BY <1>1, <1>4, <1>6 DEF DiskStep, Line
    <3>2. Copies(d)' \subseteq Copies(d)
      BY <1>1, <1>3, <1>4, <1>6 DEF Copies, Held
    <3>3. Top(d, row[d])  BY <1>1, <1>2, RowOnTop
    <3>4. Family(d)'  BY <1>1, <1>2, <1>3, <3>2, <3>3, FamilyStep DEF Family
    <3>5. \A r \in Copies(d)' \ Copies(d) : Witness(d, r)  BY <3>2
    <3>6. redis[d] # "never" => row'[d].st \in Attempted  BY <1>1, <1>2 DEF Wire
    <3> QED  BY <1>1, <1>2, <2>3, <3>1, <3>4, <3>5, <3>6, WireStep
  <2> QED  BY <2>2, <2>3
<1>8. StatusInv' /\ HandInv' /\ CleanInv'
  BY <1>1 DEF LineInv, StatusInv, HandInv, CleanInv, Idle
<1>9. OwnInv'  BY <1>1, <1>5 DEF LineInv, OwnInv, Up
<1>10. EndInv'
  <2> SUFFICES ASSUME NEW e \in Decisions
               PROVE  /\ row'[e] # None => row'[e].term
                      /\ e \in saved' => Ledger'[e] # None /\ Ledger'[e].term
    BY DEF EndInv
  <2>1. row[e] # None => row[e].term  BY <1>1 DEF LineInv, EndInv, Ends
  <2>2. Rises(e)  BY <1>2, <1>7, LedgerRises
  <2>3. e \in saved => Ledger'[e] # None /\ Ledger'[e].term
    BY <1>1, <2>2 DEF LineInv, EndInv, Ends, Rises, Line, Legal
  <2>4. CASE spool'[d] = Newest(spool[d], row[d]) /\ e = d
    <3>1. spool'[d] # None /\ spool'[d].term
      BY <1>1, <1>4, <2>1, <2>4 DEF Line, Legal
    <3>2. Ledger'[d] # None /\ Line(spool'[d], Ledger'[d])
      BY <1>7, <3>1, LedgerStaysOnTop
    <3> QED  BY <1>1, <2>1, <2>4, <3>1, <3>2 DEF Line, Legal
  <2>5. e \in saved' => e \in saved \/ (e = d /\ spool'[d] = Newest(spool[d], row[d]))
    BY <1>1 DEF Rows
  <2> QED  BY <1>1, <2>1, <2>3, <2>4, <2>5
<1>11. RowSteps
  BY <1>1, PublisherKnows, EvolvedItself DEF RowSteps, RowStep, Evolved
<1> QED  BY <1>11, <1>7, <1>8, <1>9, <1>10 DEF LineInv, FamilyInv, WireInv, DiskSteps

LEMMA LifecycleLine ==
  ASSUME Base, LineInv, Lifecycle
  PROVE  LineInv' /\ DiskSteps /\ RowSteps
<1> USE BaseTyped
<1>1. EvolvedRows(row, row)  BY SoundRow, RowsEvolveThemselves DEF LineInv
<1>2. CASE Start \/ StartFails \/ Exit \/ Crash
  <2>1. \E stop, camp : Reset(stop, camp)
    BY <1>2 DEF Start, StartFails, Exit, Crash
  <2>2. /\ phase' \in {"down", "recovering"} /\ spool' = spool /\ db' = db
        /\ redis' = redis /\ mask' = mask /\ issued' = issued
    BY <1>2 DEF Start, StartFails, Exit, Crash, durable
  <2> QED  BY <2>1, <2>2, ResetLine
<1>3. CASE Close \/ DeadlinePasses \/ PreserveEnds
  <2>1. /\ row' = row /\ dirty' = dirty /\ spool' = spool /\ db' = db /\ redis' = redis /\ mask' = mask
        /\ issued' = issued /\ saved' = saved /\ pub' = pub /\ aud' = aud
        /\ pending' \in {pending, None}
    BY <1>3 DEF Close, DeadlinePasses, PreserveEnds, durable
  <2>2. (Up' => Up) /\ (phase' \in Ends => phase \in Ends)
    BY <1>3 DEF Close, DeadlinePasses, PreserveEnds, Up, Ends
  <2> QED  BY <1>1, <2>1, <2>2, QuietStep DEF Dirtied
<1> QED  BY <1>2, <1>3, StartedLine, FreezeLine, RecoverRemovedLine, RecoverSpooledLine, PreserveLine
         DEF Lifecycle

----------------------------------------------------------------------------
(* The theorems. *)

LEMMA InitLine == Init => LineInv
<1> SUFFICES ASSUME Init PROVE LineInv
  OBVIOUS
<1>1. \A d \in Decisions : Copies(d) = {}
  BY NoneIsNoDecision DEF Init, Copies, Held, Idle
<1>2. \A d \in Decisions : row[d] = None /\ redis[d] = "never"
  BY DEF Init
<1>3. FamilyInv /\ WireInv
  BY <1>1, <1>2 DEF FamilyInv, Family, WireInv, Wire
<1> QED
  BY <1>3 DEF Init, LineInv, StatusInv, HandInv, OwnInv, EndInv, CleanInv, Up, Ends, Idle

LEMMA NextLine ==
  ASSUME Base, LineInv, [Next]_vars
  PROVE  LineInv' /\ DiskSteps /\ RowSteps
<1>1. CASE Next
  BY <1>1, CalculateLine, PublishLine, AuditLine, GuardLine, LifecycleLine DEF Next
<1>2. CASE UNCHANGED vars
  <2>1. EvolvedRows(row, row)  BY BaseTyped, SoundRow, RowsEvolveThemselves DEF LineInv
  <2> QED  BY <1>2, <2>1, QuietHere DEF vars, memory, durable, world, Dirtied
<1> QED  BY <1>1, <1>2

\* All copies of a record lie on one line of legal transitions, and what they say of the wire
\* is true of the wire.
THEOREM OneLine == Spec => [](Base /\ LineInv)
<1>1. Init => Base /\ LineInv
  BY InitLine, InitInv, NoneIsNoDecision DEF Init, Base, SendInv, TruthInv, Hush, Quiet, Idle
<1>2. Base /\ LineInv /\ [Next]_vars => (Base /\ LineInv)'
  <2>1. ASSUME Base, [Next]_vars PROVE Base'
    <3>1. Inv /\ [Next]_vars => Inv'
      BY CalculateInv, PublishInv, AuditInv, GuardInv, LifecycleInv, StutterInv DEF Next
    <3>2. Inv /\ SendInv /\ TruthInv /\ Next => SendInv' /\ TruthInv'
      BY CalculateTruth, PublishTruth, AuditTruth, GuardTruth, LifecycleTruth DEF Next
    <3>3. SendInv /\ TruthInv /\ UNCHANGED vars => SendInv' /\ TruthInv'
      BY DEF SendInv, TruthInv, Hush, Quiet, vars, memory, durable, world
    <3> QED  BY <2>1, <3>1, <3>2, <3>3 DEF Base
  <2> QED  BY <2>1, NextLine
<1> QED
  BY <1>1, <1>2, PTL DEF Spec

\* NoFalseDenial and LeadIsCausal: through crashes, retries and recovery no copy of a record
\* denies a forecast that may be on the wire, or claims a lead that was not earned.
THEOREM EvidenceNeverLies == Spec => []EvidenceIsTrue
<1>1. Base /\ LineInv => EvidenceIsTrue
  <2> SUFFICES ASSUME Base, LineInv PROVE EvidenceIsTrue
    OBVIOUS
  <2>1. NoFalseDenial
    BY DEF LineInv, WireInv, Wire, NoFalseDenial, Announced, Attempted
  <2>2. LeadIsCausal
    <3> SUFFICES ASSUME NEW d \in Decisions, NEW h \in Horizons,
                        NEW r \in {row[d], spool[d], db[d]}, r # None, r.tgt[h].lead
                 PROVE  /\ redis[d] = "applied" /\ h \in mask[d]
                        /\ r.tgt[h].st = "matched" /\ ~r.tgt[h].conf /\ ~r.inv
      BY DEF LeadIsCausal
    <3>1. r \in Copies(d)  BY DEF Copies
    <3>2. Witness(d, r) /\ Sound(r)  BY <3>1 DEF LineInv, WireInv, Wire, FamilyInv, Family
    <3> QED  BY <3>2 DEF Witness, Sound, SoundTarget
  <2> QED  BY <2>1, <2>2 DEF EvidenceIsTrue
<1> QED
  BY <1>1, OneLine, PTL

\* Only the command itself puts a message on the wire.
LEMMA WireKept ==
  ASSUME Base, [Next]_vars
  PROVE  \/ \E d \in Decisions : RedisApplies(d)
         \/ \A d \in Decisions : redis'[d] = "applied" <=> redis[d] = "applied"
<1>1. redis' = redis => \A d \in Decisions : redis'[d] = "applied" <=> redis[d] = "applied"
  OBVIOUS
<1>2. CASE Calculate
  BY <1>1, <1>2 DEF Calculate, Issue, OfferGap, ClockFault, OtherStop, FinalizeDue, OfferTwap, WindowElapses, world
<1>3. CASE Guard
  BY <1>1, <1>3 DEF Guard, GuardMeasured, NoCapacity, GuardFails, GuardAges, CheckpointDue, StaleGuardSeen, GuardKeeps
<1>4. CASE Audit
  BY <1>1, <1>4 DEF Audit, CampaignBegin, CampaignSaved, AuditSpooled, AuditPersisted, AuditRemoved,
     AuditFails, AuditCancelled, LateNoted, LateFails, FlushEnds, AuditBegin, AuditKeeps
<1>5. CASE Lifecycle
  BY <1>1, <1>5 DEF Lifecycle, Start, RecoverRemoved, Started, StartFails, Close, DeadlinePasses, Freeze,
     PreserveEnds, Exit, Crash, RecoverSpooled, PreserveRow, RecoveryKeeps, AuditKeeps, world
<1>6. CASE Publish
  <2>1. ASSUME NEW d \in Decisions, PublishAttempt(d)
        PROVE  \A e \in Decisions : redis'[e] = "applied" <=> redis[e] = "applied"
    <3>1. redis[d] = "never" /\ redis' = [redis EXCEPT ![d] = "sent"]
      BY <2>1 DEF PublishAttempt, Spooled, Base, SendInv
    <3> QED  BY <3>1, BaseTyped
  <2>2. CASE redis' = redis  BY <1>1, <2>2
  <2> QED
    BY <1>6, <2>1, <2>2 DEF Publish, PublishRefused, PublishWithheld, PublishIntent, PublishPreempted,
       PublishMasked, PublishTooLate, PublishSpoolFails, PublishCancelled, PublishEnds
<1>7. CASE UNCHANGED vars
  BY <1>1, <1>7 DEF vars, world
<1> QED
  BY <1>2, <1>3, <1>4, <1>5, <1>6, <1>7 DEF Next

\* The outbox and PostgreSQL together are AuditLedger's ledger: one record per decision that
\* only moves forward, acknowledged only after the wire, denied only if never on it.
THEOREM LedgerImplemented == Spec => LedgerRefined
<1> DEFINE Applied == {d \in Decisions : redis[d] = "applied"}
<1>1. Init => AbstractLedger!Init
  BY DEF Init, AbstractLedger!Init, Ledger, LatestOf
<1>2. ASSUME Base, LineInv, Base', LineInv', [Next]_vars
      PROVE  [AbstractLedger!Next]_<<Ledger, Applied>>
  <2>1. \A d \in Decisions : Rises(d)
    BY <1>2, NextLine, LedgerRises DEF LineInv, FamilyInv, DiskSteps
  <2>2. ASSUME NEW d \in Decisions, RedisApplies(d) PROVE AbstractLedger!Appear(d)
    <3>1. redis[d] = "sent" /\ redis' = [redis EXCEPT ![d] = "applied"] /\ Ledger' = Ledger
      BY <2>2 DEF RedisApplies, durable, Ledger, LatestOf
    <3>2. Ledger[d] # None /\ Ledger[d].st \in Announced
      BY <1>2, <3>1 DEF LineInv, WireInv, Wire
    <3>3. Applied' = Applied \cup {d} /\ d \notin Applied
      BY <1>2, <3>1, BaseTyped
    <3> QED
      BY <3>1, <3>2, <3>3 DEF AbstractLedger!Appear, AbstractLedger!Announced, AbstractLedger!WireStatus,
         Announced, Attempted, WireStatus
  <2>3. ASSUME \A d \in Decisions : redis'[d] = "applied" <=> redis[d] = "applied", Ledger' # Ledger
        PROVE  AbstractLedger!Annotate
    <3>1. Applied' = Applied  BY <2>3
    <3>2. ASSUME NEW d \in Decisions, Ledger'[d] # Ledger[d] PROVE AbstractLedger!Advance(d)
      <4>1. Ledger'[d] # None
        BY <2>1, <3>2 DEF Rises
      <4>2. Ledger[d] # None => Ledger'[d].ver > Ledger[d].ver /\ Legal(Ledger[d], Ledger'[d])
        BY <2>1, <3>2 DEF Rises, Line
      <4>3. Ledger'[d].st = "acknowledged" => d \in Applied
        <5>1. Ledger'[d] \in {spool'[d], db'[d]}  BY LedgerIs DEF LatestIn
        <5>2. redis'[d] # "applied" => Quiet(spool'[d]) /\ Quiet(db'[d])
          BY <1>2 DEF Base, TruthInv, Hush
        <5> QED  BY <2>3, <4>1, <5>1, <5>2 DEF Quiet
      <4>4. d \in Applied => Ledger'[d].st \in Announced
        <5>1. Wire(d)'  BY <1>2 DEF LineInv, WireInv
        <5> QED  BY <2>3, <5>1 DEF Wire
      <4>5. AbstractLedger!Truthful(d, Ledger'[d])
        BY <4>3, <4>4 DEF AbstractLedger!Truthful, AbstractLedger!Announced, AbstractLedger!WireStatus,
           Announced, Attempted, WireStatus
      <4>6. Ledger[d] # None => AbstractLedger!Legal(Ledger[d], Ledger'[d])
        BY <4>2 DEF Legal, AbstractLedger!Legal, TargetKept, AbstractLedger!TargetKept, OpenStatus,
           AbstractLedger!OpenStatus, AttemptStatus, AbstractLedger!AttemptStatus, WireStatus,
           AbstractLedger!WireStatus
      <4> QED  BY <4>1, <4>2, <4>5, <4>6 DEF AbstractLedger!Advance
    <3> QED  BY <2>3, <3>1, <3>2 DEF AbstractLedger!Annotate
  <2>4. ASSUME \A d \in Decisions : redis'[d] = "applied" <=> redis[d] = "applied", Ledger' = Ledger
        PROVE  UNCHANGED <<Ledger, Applied>>
    BY <2>4
  <2> QED
    BY <1>2, <2>2, <2>3, <2>4, WireKept DEF AbstractLedger!Next
<1> QED
  BY <1>1, <1>2, OneLine, PTL DEF Spec, LedgerRefined, AbstractLedger!Spec

----------------------------------------------------------------------------
(* What a record has heard. *)

\* The targets of r that aim at p's time know its value, or that it came too late.
Marked(r, p) ==
  \A h \in {g \in Horizons : r.aim[g] = p.stamp} :
    /\ r.tgt[h].st # "pending"
    /\ r.tgt[h].first # None /\ r.tgt[h].first # p.value => r.tgt[h].conf
    /\ r.tgt[h].st \in {"missing", "restart_unmatched"} => r.tgt[h].late

Waits(p) == \E i \in 1..Len(late) : late[i] = p

\* A price is marked on the live row from the moment it is received; of a row that is stored
\* and no longer live it waits among the late prices until it is noted there.
HeardOf(d, p) ==
  /\ d \in issued
  /\ row[d] # None => Marked(row[d], p)
  /\ row[d] = None /\ db[d] # None => Marked(db[d], p) \/ Waits(p)

HeardInv ==
  /\ ~Up => heard = {} /\ late = <<>>
  /\ \A d \in Decisions, p \in Prices : <<d, p>> \in heard => HeardOf(d, p)
  /\ phase = "running" => \A d \in Decisions : row[d] # None => Restarted(row[d]) = {}

LEMMA MarkedStays ==
  ASSUME NEW r \in Record, NEW q \in Record, Sound(r), Sound(q), Line(r, q), NEW p, Marked(r, p)
  PROVE  Marked(q, p)
<1> SUFFICES ASSUME NEW h \in Horizons, q.aim[h] = p.stamp
             PROVE  /\ q.tgt[h].st # "pending"
                    /\ q.tgt[h].first # None /\ q.tgt[h].first # p.value => q.tgt[h].conf
                    /\ q.tgt[h].st \in {"missing", "restart_unmatched"} => q.tgt[h].late
  BY DEF Marked
<1>1. PICK t \in Target : t = r.tgt[h]  BY DEF Record
<1>2. PICK u \in Target : u = q.tgt[h]  BY DEF Record
<1>3. r.aim[h] = p.stamp  BY LineAim
<1>4. /\ t.st # "pending" /\ (t.first # None /\ t.first # p.value => t.conf)
      /\ t.st \in {"missing", "restart_unmatched"} => t.late
  BY <1>1, <1>3 DEF Marked
<1>5. u = t \/ TargetKept(t, u)  BY <1>1, <1>2 DEF Line, Legal
<1>6. (t.st = "matched" <=> t.first # None) /\ (u.st = "matched" <=> u.first # None)
  BY <1>1, <1>2 DEF Sound, SoundTarget
<1>7. /\ u.st # "pending" /\ (u.first # None /\ u.first # p.value => u.conf)
      /\ u.st \in {"missing", "restart_unmatched"} => u.late
  BY <1>4, <1>5, <1>6 DEF TargetKept
<1> QED  BY <1>2, <1>7

\* observe_target marks a live row that knows of no restart.
LEMMA ObservedMarks ==
  ASSUME NEW r \in Record, Sound(r), Restarted(r) = {}, NEW s \in Stamps, NEW v \in Values,
         NEW elapsed \in BOOLEAN
  PROVE  Marked(Observed(r, s, v, elapsed), [stamp |-> s, value |-> v])
<1> DEFINE new == [h \in Horizons |-> IF r.aim[h] = s THEN ObservedTarget(r, h, v, elapsed) ELSE r.tgt[h]]
<1>1. new \in [Horizons -> Target]  BY ObservedTargetType DEF Record
<1>2. Observed(r, s, v, elapsed) = (IF new = r.tgt THEN r ELSE [Bump(r) EXCEPT !.tgt = new])
  BY DEF Observed
<1>3. ASSUME NEW h \in Horizons, r.aim[h] = s
      PROVE  /\ new[h].st # "pending"
             /\ new[h].first # None /\ new[h].first # v => new[h].conf
             /\ new[h].st \in {"missing", "restart_unmatched"} => new[h].late
  <2>1. PICK t \in Target : t = r.tgt[h]  BY DEF Record
  <2>2. PICK u \in Target : u = new[h] /\ u = ObservedTarget(r, h, v, elapsed)  BY <1>1, <1>3
  <2>3. (t.st = "matched" <=> t.first # None) /\ t.st # "restart_unmatched"
    BY <2>1 DEF Sound, SoundTarget, Restarted
  <2>4. CASE t.first # None
    <3>1. u = IF v # t.first /\ ~t.conf THEN [t EXCEPT !.conf = TRUE, !.lead = FALSE] ELSE t
      BY <2>1, <2>2, <2>4 DEF ObservedTarget
    <3>2. u.st = t.st /\ u.first = t.first /\ (u.first # v => u.conf)  BY <3>1 DEF Target
    <3> QED  BY <2>2, <2>3, <2>4, <3>2
  <2>5. CASE t.first = None /\ t.st = "pending" /\ ~elapsed
    <3>1. u = [t EXCEPT !.st = "matched", !.first = v, !.lead = EarnsLead(r, h)]
      BY <2>1, <2>2, <2>5 DEF ObservedTarget
    <3>2. u.st = "matched" /\ u.first = v  BY <3>1 DEF Target
    <3> QED  BY <2>2, <3>2
  <2>6. CASE t.first = None /\ ~(t.st = "pending" /\ ~elapsed) /\ t.st \in {"pending", "missing"}
    <3>1. u = [t EXCEPT !.st = "missing", !.late = TRUE]
      BY <2>1, <2>2, <2>6 DEF ObservedTarget
    <3>2. u.st = "missing" /\ u.late /\ u.first = None  BY <2>6, <3>1 DEF Target
    <3> QED  BY <2>2, <3>2
  <2>7. CASE t.first = None /\ t.st \notin {"pending", "missing"}
    <3>1. u = t  BY <2>1, <2>2, <2>7 DEF ObservedTarget
    <3> QED  BY <2>2, <2>3, <2>7, <3>1 DEF Target, TargetStatus
  <2> QED  BY <2>4, <2>5, <2>6, <2>7
<1> HIDE DEF new
<1>4. PICK b \in Record : b = [Bump(r) EXCEPT !.tgt = new] /\ b.aim = r.aim /\ b.tgt = new
  BY <1>1, RetargetFields
<1>5. PICK q : q = Observed(r, s, v, elapsed) /\ q.aim = r.aim /\ q.tgt = new
  BY <1>2, <1>4
<1> QED  BY <1>3, <1>5 DEF Marked

\* note_late_target marks a stored row that is closed.
LEMMA NotedMarks ==
  ASSUME NEW r \in Record, Sound(r), r.term, NEW s \in Stamps, NEW v \in Values
  PROVE  Marked(Noted(r, s, v), [stamp |-> s, value |-> v])
<1> DEFINE new == [h \in Horizons |-> IF r.aim[h] = s THEN NotedTarget(r.tgt[h], v) ELSE r.tgt[h]]
<1>1. new \in [Horizons -> Target]
  BY NotedTargetEvolves DEF Record
<1>2. Noted(r, s, v) = (IF new = r.tgt THEN r ELSE [Bump(r) EXCEPT !.tgt = new])
  BY DEF Noted
<1>3. ASSUME NEW h \in Horizons, r.aim[h] = s
      PROVE  /\ new[h].st # "pending"
             /\ new[h].first # None /\ new[h].first # v => new[h].conf
             /\ new[h].st \in {"missing", "restart_unmatched"} => new[h].late
  <2>1. PICK t \in Target : t = r.tgt[h]  BY DEF Record
  <2>2. PICK u \in Target : u = new[h] /\ u = NotedTarget(t, v)  BY <1>1, <1>3, <2>1
  <2>3. (t.st = "matched" <=> t.first # None) /\ t.st # "pending"
    BY <2>1 DEF Sound, SoundTarget
  <2>4. CASE t.st = "matched" /\ t.first # v /\ ~t.conf
    <3>1. u = [t EXCEPT !.conf = TRUE, !.lead = FALSE]  BY <2>2, <2>4 DEF NotedTarget
    <3>2. u.st = t.st /\ u.conf  BY <3>1 DEF Target
    <3> QED  BY <2>2, <2>4, <3>2
  <2>5. CASE t.st \in {"missing", "restart_unmatched"}
    <3>1. u = [t EXCEPT !.late = TRUE]  BY <2>2, <2>5 DEF NotedTarget
    <3>2. u.st = t.st /\ u.late /\ u.first = t.first  BY <3>1 DEF Target
    <3> QED  BY <2>2, <2>3, <2>5, <3>2
  <2>6. CASE ~(t.st = "matched" /\ t.first # v /\ ~t.conf) /\ t.st \notin {"missing", "restart_unmatched"}
    <3>1. u = t  BY <2>2, <2>6 DEF NotedTarget
    <3> QED  BY <2>2, <2>3, <2>6, <3>1
  <2> QED  BY <2>4, <2>5, <2>6
<1> HIDE DEF new
<1>4. PICK q : q = Noted(r, s, v) /\ q.aim = r.aim /\ q.tgt = new
  BY <1>1, <1>2, RetargetFields
<1> QED  BY <1>3, <1>4 DEF Marked

\* What was heard stays marked, or waits to be.
LEMMA HeardStays ==
  ASSUME Base, LineInv, HeardInv, LineInv', RowSteps, DiskSteps, Up, Up', issued \subseteq issued',
         phase' = "running" => phase = "running",
         \A p \in Prices : \/ Waits(p) => Waits(p)'
                           \/ \A d \in Decisions : row'[d] = None /\ db'[d] # None => Marked(db'[d], p)
  PROVE  /\ \A d \in Decisions, p \in Prices : <<d, p>> \in heard => HeardOf(d, p)'
         /\ phase' = "running" => \A d \in Decisions : row'[d] # None => Restarted(row'[d]) = {}
<1>1. ASSUME NEW d \in Decisions, NEW p \in Prices, <<d, p>> \in heard PROVE HeardOf(d, p)'
  <2>1. HeardOf(d, p) /\ d \in issued /\ RowStep(d) /\ DiskStep(d)
    BY <1>1 DEF HeardInv, HeardOf, RowSteps, DiskSteps
  <2>2. \A r \in Copies(d) : r \in Record /\ Sound(r)  BY DEF LineInv, FamilyInv, Family
  <2>3. \A r \in Copies(d)' : r \in Record /\ Sound(r)  BY DEF LineInv, FamilyInv, Family
  <2>4. ASSUME row'[d] # None PROVE Marked(row'[d], p)
    <3>1. row[d] # None /\ Grown(row[d], row'[d])  BY <2>1, <2>4 DEF RowStep
    <3>2. row[d] \in Record /\ Sound(row[d])  BY <2>2, <3>1 DEF Copies
    <3> QED  BY <2>1, <3>1, <3>2, MarkedStays DEF HeardOf, Grown
  <2>5. ASSUME row'[d] = None, db'[d] # None PROVE Marked(db'[d], p) \/ Waits(p)'
    <3>1. CASE row[d] # None
      BY <2>1, <2>5, <3>1 DEF HeardOf, RowStep
    <3>2. CASE row[d] = None
      <4>1. db[d] # None  BY <2>1, <2>5, <3>2 DEF RowStep
      <4>2. Line(db[d], db'[d])  BY <2>1, <4>1 DEF DiskStep
      <4>3. db[d] \in Record /\ Sound(db[d])  BY <2>2, <4>1 DEF Copies
      <4>4. db'[d] \in Record /\ Sound(db'[d])  BY <2>3, <2>5 DEF Copies
      <4>5. CASE Marked(db[d], p)  BY <4>2, <4>3, <4>4, <4>5, MarkedStays
      <4>6. CASE Waits(p)  BY <2>5, <4>6
      <4> QED  BY <2>1, <3>2, <4>1, <4>5, <4>6 DEF HeardOf
    <3> QED  BY <3>1, <3>2
  <2> QED  BY <2>1, <2>4, <2>5 DEF HeardOf
<1>2. ASSUME phase' = "running", NEW d \in Decisions, row'[d] # None PROVE Restarted(row'[d]) = {}
  BY <1>2 DEF HeardInv, RowSteps, RowStep
<1> QED  BY <1>1, <1>2

\* What a step may do to the prices that wait, and to who has heard what.
LEMMA Hearing ==
  ASSUME [Next]_vars
  PROVE  /\ \/ UNCHANGED <<heard, late>> /\ (Started \/ (Up' <=> Up))
            \/ \E s \in Stamps, v \in Values : OfferTwap(s, v)
            \/ LateNoted \/ LateFails
            \/ ~Up' /\ heard' = {} /\ late' = <<>>
         /\ issued \subseteq issued'
         /\ phase' = "running" => phase = "running" \/ Started
<1>1. CASE Calculate
  BY <1>1 DEF Calculate, Issue, OfferGap, ClockFault, OtherStop, FinalizeDue, OfferTwap, WindowElapses,
     world, Up
<1>2. CASE Publish
  BY <1>2 DEF Publish, PublishRefused, PublishWithheld, PublishIntent, PublishPreempted, PublishMasked,
     PublishAttempt, PublishTooLate, PublishSpoolFails, PublishCancelled, RedisApplies, PublishEnds,
     PublisherKeeps, memory, Up
<1>3. CASE Audit
  BY <1>3 DEF Audit, CampaignBegin, CampaignSaved, AuditSpooled, AuditPersisted, AuditRemoved, AuditFails,
     AuditCancelled, LateNoted, LateFails, FlushEnds, AuditBegin, AuditKeeps, Up
<1>4. CASE Guard
  BY <1>4 DEF Guard, GuardMeasured, NoCapacity, GuardFails, GuardAges, CheckpointDue, StaleGuardSeen, GuardKeeps, Up
<1>5. CASE Lifecycle
  BY <1>5 DEF Lifecycle, Start, RecoverRemoved, Started, StartFails, Close, DeadlinePasses, Freeze,
     PreserveEnds, Exit, Crash, RecoverSpooled, PreserveRow, RecoveryKeeps, AuditKeeps, Reset, world, Up
<1>6. CASE UNCHANGED vars
  BY <1>6 DEF vars, memory, world, Up
<1> QED  BY <1>1, <1>2, <1>3, <1>4, <1>5, <1>6 DEF Next

\* offer_price: live rows observe the price now, and it waits for the stored ones; a full
\* queue stops the runtime instead.
LEMMA OfferHeard ==
  ASSUME Base, LineInv, HeardInv, LineInv', RowSteps, DiskSteps,
         NEW s \in Stamps, NEW v \in Values, OfferTwap(s, v)
  PROVE  HeardInv'
<1> USE BaseTyped
<1> DEFINE seen == [d \in Decisions |-> IF row[d] = None THEN None
                                        ELSE Observed(row[d], s, v, d \in due)]
           price == [stamp |-> s, value |-> v]
<1>1. /\ phase = "running" /\ phase' = phase /\ issued' = issued /\ db' = db /\ Up /\ Up'
      /\ late \in Seq(Prices) /\ price \in Prices
  BY DEF OfferTwap, durable, Up, Base, Inv, TypeOK, TasksType, Prices
<1>2. CASE UNCHANGED <<late, heard>>
  <2>1. \A p \in Prices : Waits(p) => Waits(p)'  BY <1>2 DEF Waits
  <2> QED  BY <1>1, <1>2, <2>1, HeardStays DEF HeardInv
<1>3. CASE row' = seen /\ late' = Append(late, price) /\ heard' = heard \cup (issued \X {price})
  <2>1. \A p \in Prices : Waits(p) => Waits(p)'
    <3> TAKE p \in Prices
    <3>1. HAVE Waits(p)
    <3>2. PICK i \in 1..Len(late) : late[i] = p  BY <3>1 DEF Waits
    <3>3. i \in 1..Len(late') /\ late'[i] = p  BY <1>1, <1>3, <3>2
    <3> QED  BY <3>3 DEF Waits
  <2>2. Waits(price)'
    <3>1. Len(late) + 1 \in 1..Len(late') /\ late'[Len(late) + 1] = price  BY <1>1, <1>3
    <3> QED  BY <3>1 DEF Waits
  <2>3. /\ \A d \in Decisions, p \in Prices : <<d, p>> \in heard => HeardOf(d, p)'
        /\ \A d \in Decisions : row'[d] # None => Restarted(row'[d]) = {}
    BY <1>1, <2>1, HeardStays
  <2>4. ASSUME NEW d \in issued, d \in Decisions PROVE HeardOf(d, price)'
    <3>1. ASSUME row'[d] # None PROVE Marked(row'[d], price)
      <4>1. row[d] # None /\ row'[d] = Observed(row[d], s, v, d \in due)  BY <1>3, <2>4, <3>1
      <4>2. row[d] \in Record /\ Sound(row[d])  BY <2>4, <4>1 DEF LineInv, FamilyInv, Family, Copies
      <4>3. Restarted(row[d]) = {}  BY <1>1, <2>4, <4>1 DEF HeardInv
      <4>4. (d \in due) \in BOOLEAN  OBVIOUS
      <4> HIDE DEF price
      <4>5. Marked(Observed(row[d], s, v, d \in due), [stamp |-> s, value |-> v])
        BY <4>2, <4>3, <4>4, ObservedMarks
      <4> QED  BY <4>1, <4>5 DEF price
    <3> QED  BY <1>1, <2>2, <3>1 DEF HeardOf
  <2>5. ASSUME NEW d \in Decisions, NEW p \in Prices, <<d, p>> \in heard' PROVE HeardOf(d, p)'
    <3>1. <<d, p>> \in heard \/ (d \in issued /\ p = price)  BY <1>3, <2>5
    <3> QED  BY <2>3, <2>4, <3>1
  <2> QED  BY <1>1, <2>3, <2>5 DEF HeardInv
<1> QED  BY <1>2, <1>3 DEF OfferTwap, Proceed, ProceedWith, SetRows

\* note_late_target marks what is stored with the oldest price; a failure keeps it waiting.
LEMMA NotedHeard ==
  ASSUME Base, LineInv, HeardInv, LineInv', RowSteps, DiskSteps, LateNoted \/ LateFails
  PROVE  HeardInv'
<1> USE BaseTyped
<1>1. /\ phase' = phase /\ issued' = issued /\ heard' = heard /\ Up /\ Up' /\ late # <<>>
      /\ late \in Seq(Prices)
  BY DEF LateNoted, LateFails, AuditKeeps, Auditing, Up, Base, Inv, TypeOK, TasksType
<1>2. /\ Head(late) \in Prices /\ Head(late) = late[1] /\ Tail(late) \in Seq(Prices)
      /\ Len(late) \in Nat \ {0} /\ Len(Tail(late)) = Len(late) - 1
      /\ \A i \in 1..Len(late) : i # 1 => i - 1 \in 1..Len(Tail(late)) /\ Tail(late)[i - 1] = late[i]
  BY <1>1
<1>3. ASSUME NEW p \in Prices, Waits(p)
      PROVE  Waits(p)' \/ \A d \in Decisions : row'[d] = None /\ db'[d] # None => Marked(db'[d], p)
  <2>1. PICK i \in 1..Len(late) : late[i] = p  BY <1>3 DEF Waits
  <2>2. CASE i # 1
    <3>1. PICK j \in 1..Len(Tail(late)) : Tail(late)[j] = p  BY <1>2, <2>1, <2>2
    <3>2. CASE LateNoted
      BY <3>1, <3>2 DEF LateNoted, Waits
    <3>3. CASE LateFails
      <4>1. late' = Append(Tail(late), Head(late))  BY <3>3 DEF LateFails
      <4>2. j \in 1..Len(late') /\ late'[j] = p  BY <1>2, <3>1, <4>1
      <4> QED  BY <4>2 DEF Waits
    <3> QED  BY <3>2, <3>3
  <2>3. CASE i = 1 /\ LateFails
    <3>1. late' = Append(Tail(late), Head(late)) /\ Head(late) = p  BY <1>2, <2>1, <2>3 DEF LateFails
    <3>2. Len(Tail(late)) + 1 \in 1..Len(late') /\ late'[Len(Tail(late)) + 1] = p  BY <1>2, <3>1
    <3> QED  BY <3>2 DEF Waits
  <2>4. CASE i = 1 /\ LateNoted
    <3>1. Head(late) = p /\ p.stamp \in Stamps /\ p.value \in Values /\ row' = row
      BY <1>2, <2>1, <2>4 DEF LateNoted, Prices
    <3>2. ASSUME NEW d \in Decisions, row'[d] = None, db'[d] # None PROVE Marked(db'[d], p)
      <4>1. db[d] # None /\ db'[d] = Noted(db[d], p.stamp, p.value)
        BY <2>4, <3>1, <3>2 DEF LateNoted, Noting, Live
      <4>2. db[d] \in Record /\ Sound(db[d])  BY <4>1 DEF LineInv, FamilyInv, Family, Copies
      <4>3. db[d].term  BY <1>1, <3>1, <3>2, <4>1 DEF LineInv, OwnInv
      <4>4. Marked(Noted(db[d], p.stamp, p.value), [stamp |-> p.stamp, value |-> p.value])
        BY <3>1, <4>2, <4>3, NotedMarks
      <4>5. p = [stamp |-> p.stamp, value |-> p.value]  BY DEF Prices
      <4> QED  BY <4>1, <4>4, <4>5
    <3> QED  BY <3>2
  <2> QED  BY <2>2, <2>3, <2>4
<1>4. /\ \A d \in Decisions, p \in Prices : <<d, p>> \in heard => HeardOf(d, p)'
      /\ phase' = "running" => \A d \in Decisions : row'[d] # None => Restarted(row'[d]) = {}
  BY <1>1, <1>3, HeardStays
<1> QED  BY <1>1, <1>4 DEF HeardInv

LEMMA NextHeard ==
  ASSUME Base, LineInv, HeardInv, [Next]_vars
  PROVE  HeardInv'
<1>1. LineInv' /\ RowSteps /\ DiskSteps  BY NextLine
<1>2. /\ issued \subseteq issued'
      /\ phase' = "running" => phase = "running" \/ Started
  BY Hearing
<1>3. CASE Started
  <2>1. /\ heard' = heard /\ late' = late /\ ~Up /\ Up'  BY <1>3 DEF Started, Up
  <2>2. \A d \in Decisions : row'[d] = None
    <3>1. EvolvedRows(row, row')
      BY <1>3, BaseTyped, SoundRow, HandlerEvolves DEF Started, Proceed, LineInv
    <3>2. \A d \in Decisions : row[d] = None  BY <1>3, Recovering DEF Started
    <3> QED  BY <3>1, <3>2 DEF EvolvedRows
  <2> QED  BY <2>1, <2>2 DEF HeardInv
<1>4. CASE UNCHANGED <<heard, late>> /\ (Up' <=> Up) /\ ~Started
  <2>1. CASE Up
    <3>1. \A p \in Prices : Waits(p) => Waits(p)'  BY <1>4 DEF Waits
    <3> QED  BY <1>1, <1>2, <1>4, <2>1, <3>1, HeardStays DEF HeardInv
  <2>2. CASE ~Up
    BY <1>4, <2>2 DEF HeardInv, Up
  <2> QED  BY <2>1, <2>2
<1>5. CASE ~Up' /\ heard' = {} /\ late' = <<>>
  BY <1>5 DEF HeardInv, Up
<1> QED  BY <1>1, <1>3, <1>4, <1>5, Hearing, OfferHeard, NotedHeard

\* The outbox and the store accept whatever lies on one line with what they hold.
LEMMA LineAccepts ==
  ASSUME NEW a \in Record, NEW b \in Record, Line(a, b) \/ Line(b, a)
  PROVE  Accepts(a, b) /\ SpoolAccepts(a, b)
<1>1. b.aim = a.aim  BY LineAim
<1>2. b.ver = a.ver => b = a  BY LineVersion
<1>3. b.ver > a.ver => Legal(a, b)  BY LineVersion DEF Line, Record
<1> QED  BY <1>1, <1>2, <1>3 DEF Accepts, SpoolAccepts

LEMMA CopiesAccept ==
  ASSUME NEW d \in Decisions, Family(d), NEW a \in Copies(d) \cup {None}, NEW b \in Copies(d)
  PROVE  Accepts(a, b) /\ SpoolAccepts(a, b)
<1>1. CASE a = None  BY <1>1 DEF Accepts, SpoolAccepts
<1>2. CASE a # None
  <2>1. a \in Record /\ b \in Record /\ (Line(a, b) \/ Line(b, a))  BY <1>2 DEF Family
  <2> QED  BY <2>1, LineAccepts
<1> QED  BY <1>1, <1>2

\* EvidenceIsKept: while the tasks run every outbox file has its row, the outbox and PostgreSQL
\* accept whatever they are handed, a complete final pass closes every decision, and every
\* price a decision has heard leaves its mark in PostgreSQL.
THEOREM EvidenceNeverDropped == Spec => []EvidenceIsKept
<1>1. Init => HeardInv
  BY DEF Init, HeardInv
<1>2. Base /\ LineInv /\ HeardInv => EvidenceIsKept
  <2> SUFFICES ASSUME Base, LineInv, HeardInv PROVE EvidenceIsKept
    OBVIOUS
  <2> USE BaseTyped
  <2>1. \A d \in Decisions : Family(d) /\ Wire(d)  BY DEF LineInv, FamilyInv, WireInv
  <2>2. \A d \in Decisions : /\ spool[d] \in Copies(d) \cup {None} /\ db[d] \in Copies(d) \cup {None}
                             /\ row[d] \in Copies(d) \cup {None}
    BY DEF Copies
  <2>3. OutboxOwned
    BY DEF LineInv, OwnInv, OutboxOwned, Up
  <2>4. NothingRefused
    <3>1. ASSUME aud.at \in {"spool", "persist"}
          PROVE  SpoolAccepts(spool[aud.d], aud.rec) /\ Accepts(db[aud.d], aud.rec)
      <4>1. PICK d \in Decisions : d = aud.d  BY <3>1
      <4>2. aud.rec \in Copies(d)  BY <3>1, <4>1, NoneIsApart DEF Copies, Held
      <4> QED  BY <2>1, <2>2, <4>1, <4>2, CopiesAccept
    <3>2. aud.at = "remove" => RemoveMatches(aud.d)
      BY DEF LineInv, HandInv, RemoveMatches
    <3>3. ASSUME pub.at = "spool" PROVE SpoolAccepts(spool[pub.d], pub.rec)
      <4>1. PICK d \in Decisions : d = pub.d  BY <3>3 DEF Idle
      <4>2. pub.rec \in Copies(d)  BY <3>3, <4>1, NoneIsApart DEF Copies, Held, Idle
      <4> QED  BY <2>1, <2>2, <4>1, <4>2, CopiesAccept
    <3>4. \A d \in toSave : SpoolAccepts(spool[d], row[d])
      <4>1. \A d \in toSave : d \in Decisions /\ row[d] # None
        BY DEF Base, Inv, TypeOK, TasksType, TaskInv
      <4> QED  BY <2>1, <2>2, <4>1, CopiesAccept
    <3>5. ASSUME phase = "down", NEW d \in Decisions, spool[d] # None
          PROVE  Accepts(db[d], Reconciled(LatestOf(d)))
      <4>1. Copies(d) = {spool[d], db[d]} \ {None}
        BY <3>5 DEF Copies, Held, Idle, Base, Inv, PhaseInv
      <4>2. PICK r : r = LatestOf(d) /\ r = Ledger[d]  BY DEF Ledger
      <4>3. r \in {spool[d], db[d]} /\ r # None /\ \A q \in Copies(d) : Line(q, r)
        BY <2>1, <3>5, <4>1, <4>2, LedgerOnTop
      <4>4. Top(d, Reconciled(r))  BY <2>1, <4>3, ReconciledTop
      <4>5. CASE db[d] = None  BY <4>5 DEF Accepts
      <4>6. CASE db[d] # None
        <5>1. db[d] \in Record /\ Reconciled(r) \in Record /\ Line(db[d], Reconciled(r))
          BY <2>1, <4>1, <4>4, <4>6 DEF Top, Family
        <5> QED  BY <4>2, <5>1, LineAccepts
      <4> QED  BY <4>5, <4>6
    <3> QED  BY <3>1, <3>2, <3>3, <3>4, <3>5 DEF NothingRefused
  <2>5. FinalPassCloses
    <3> SUFFICES ASSUME phase \in {"draining", "leaving"}, Live \subseteq saved,
                        NEW d \in Decisions, Ledger[d] # None
                 PROVE  Ledger[d].term
      BY DEF FinalPassCloses
    <3>1. CASE row[d] # None
      BY <3>1 DEF LineInv, EndInv, Ends, Live
    <3>2. CASE row[d] = None
      <4>1. spool[d] = None /\ (db[d] # None => db[d].term)  BY <3>2 DEF LineInv, OwnInv, Up
      <4>2. Ledger[d] \in {spool[d], db[d]}  BY <2>1, LedgerOnTop
      <4> QED  BY <4>1, <4>2
    <3> QED  BY <3>1, <3>2
  <2>6. PriceReachesStore
    <3> SUFFICES ASSUME phase = "running", dirty = {}, late = <<>>,
                        NEW d \in Decisions, NEW p \in Prices, <<d, p>> \in heard, db[d] # None
                 PROVE  Marked(db[d], p)
      BY DEF PriceReachesStore, Marked
    <3>1. HeardOf(d, p)  BY DEF HeardInv
    <3>2. CASE row[d] # None
      BY <3>1, <3>2 DEF LineInv, CleanInv, HeardOf
    <3>3. CASE row[d] = None
      <4>1. ~Waits(p)  BY DEF Waits
      <4> QED  BY <3>1, <3>3, <4>1 DEF HeardOf
    <3> QED  BY <3>2, <3>3
  <2> QED  BY <2>3, <2>4, <2>5, <2>6 DEF EvidenceIsKept
<1>3. Base /\ LineInv /\ HeardInv /\ [Next]_vars => HeardInv'
  BY NextHeard
<1>4. Spec => Init /\ [][Next]_vars
  BY DEF Spec
<1> QED
  BY <1>1, <1>2, <1>3, <1>4, OneLine, PTL
=============================================================================
