----------------------------- MODULE GhostAudit -----------------------------
(***************************************************************************)
(* The durable path of a ghost forecast decision: GhostRuntime's tasks     *)
(* (calculation, publication, audit, guard, recovery and shutdown) around  *)
(* the fsynced outbox of GhostSpool, the PostgreSQL table behind           *)
(* GhostAuditStore and one fenced Redis attempt per decision.              *)
(*                                                                         *)
(* Tasks share one event loop, so an action is the code between two awaits *)
(* of a task; what an await hands to a thread or a server happens between  *)
(* two actions.  Prices, clocks and the engine that computes the forecasts *)
(* are inputs here.                                                        *)
(***************************************************************************)
EXTENDS AuditRecord, Sequences, FiniteSets

CONSTANTS
  Decisions,    \* decision identities, each issued at most once
  Aim,          \* the source timestamps each decision's horizons aim at
  Priced,       \* the sets of horizons a decision may have a price for
  Continuous,   \* continuous mode suspends on capacity, a canary stops
  AuditMax,     \* audit_max_records
  LateMax,      \* input_queue_max, as the bound of late_events
  MaxPrices,    \* bound: official prices offered
  MaxFaults,    \* bound: I/O, ordering and capacity faults
  MaxRestarts,  \* bound: crashes and clean shutdowns
  MaxEvents     \* bound: all of these together

ASSUME AimType == Aim \in [Decisions -> [Horizons -> Stamps]] /\ Priced \subseteq SUBSET Horizons
ASSUME NoneIsNoDecision == None \notin Decisions
ASSUME BoundsType == /\ Continuous \in BOOLEAN
                     /\ {AuditMax, LateMax, MaxPrices, MaxFaults, MaxRestarts, MaxEvents} \subseteq Nat

VARIABLES
  phase,      \* of the process
  row,        \* records: the live rows, in memory
  dirty,      \* _dirty: rows with changes PostgreSQL has not confirmed
  pending,    \* _pending_publication
  fresh,      \* unpublished rows whose publication_epoch is still _publication_epoch
  pub,        \* the publication task: where it awaits, with which decision and record
  aud,        \* the audit task, likewise (during recovery: start())
  susp,       \* suspensions
  stopped,    \* stop_reason is set
  campDirty,  \* _campaign_dirty
  guard,      \* the last capacity measurement
  late,       \* late_events: official prices to note on stored rows
  due,        \* rows whose 120 s match window has elapsed, until finalize_due
  toSave,     \* rows preserve() has still to write
  saved,      \* what the final pass wrote: final_outbox_rows_saved
  spool,      \* the outbox files
  durStop,    \* campaign.json's stop_reason is set
  db,         \* table ghost_twap_audit
  redis,      \* the command of each decision: never sent, sent, applied
  mask,       \* the horizons on the wire
  issued,     \* decisions ever issued
  spent,      \* prices, faults and restarts so far
  heard       \* history: which issued decision heard which price in this process

memory  == <<phase, row, dirty, pending, fresh, pub, aud, susp, stopped, campDirty,
             guard, late, due, toSave, saved, heard>>
durable == <<spool, durStop, db>>
world   == <<redis, mask, issued, spent>>
vars    == <<memory, durable, world>>

Prices == [stamp : Stamps, value : Values]
Scopes == {"guard", "audit", "publication", "capacity"}
Idle   == [at |-> "idle", d |-> None, rec |-> None]

RowsType ==
  /\ row \in [Decisions -> Slot]
  /\ dirty \subseteq Decisions /\ fresh \subseteq Decisions /\ susp \subseteq Scopes
  /\ stopped \in BOOLEAN /\ campDirty \in BOOLEAN

PubType == \/ pub = Idle
           \/ pub \in [at : {"spool", "eval"}, d : Decisions, rec : Record]
AudType == \/ aud = Idle
           \/ aud \in [at : {"campaign"}, d : {None}, rec : BOOLEAN]
           \/ aud \in [at : {"spool", "persist", "remove", "recovered"}, d : Decisions, rec : Record]

TasksType ==
  /\ phase \in {"down", "recovering", "running", "quiescing", "cancelling", "preserving",
               "draining", "leaving"}
  /\ pending \in Decisions \cup {None} /\ PubType /\ AudType
  /\ guard \in {"none", "stale", "full", "ok"}
  /\ late \in Seq(Prices)
  /\ due \subseteq Decisions /\ toSave \subseteq Decisions /\ saved \subseteq Decisions
  /\ heard \subseteq Decisions \X Prices

DurableType ==
  /\ spool \in [Decisions -> Slot] /\ db \in [Decisions -> Slot] /\ durStop \in BOOLEAN

WorldType ==
  /\ redis \in [Decisions -> {"never", "sent", "applied"}]
  /\ mask \in [Decisions -> SUBSET Horizons] /\ issued \subseteq Decisions
  /\ spent \in [prices : Nat, faults : Nat, restarts : Nat]

TypeOK == RowsType /\ TasksType /\ DurableType /\ WorldType

Init ==
  /\ phase = "down" /\ guard = "none" /\ late = <<>>
  /\ row = [d \in Decisions |-> None] /\ spool = row /\ db = row
  /\ dirty = {} /\ fresh = {} /\ due = {} /\ toSave = {} /\ saved = {} /\ issued = {}
  /\ susp = {} /\ pending = None /\ pub = Idle /\ aud = Idle /\ heard = {}
  /\ stopped = FALSE /\ campDirty = FALSE /\ durStop = FALSE
  /\ redis = [d \in Decisions |-> "never"] /\ mask = [d \in Decisions |-> {}]
  /\ spent = [prices |-> 0, faults |-> 0, restarts |-> 0]
----------------------------------------------------------------------------
(* Rows, stops and suspensions. *)

Live    == {d \in Decisions : row[d] # None}
Shut     == phase # "running"                 \* self._closed, once started
Spend(k) == /\ spent.prices + spent.faults + spent.restarts < MaxEvents
            /\ spent' = [spent EXCEPT ![k] = @ + 1]
CanFail  == spent.faults < MaxFaults /\ Spend("faults")

Touched(rows) == [d \in Decisions |-> IF rows[d] = None THEN None ELSE Bump(rows[d])]

\* The rows after a handler: those it changed (_changed), and those it adds itself,
\* are dirty.
SetRows(rows, also) ==
  /\ row' = rows
  /\ dirty' = dirty \cup also \cup {d \in Decisions : rows[d] # None /\ rows[d] # row[d]}

\* stop(): the first reason marks every row and the campaign.
StopWith(rows, also) ==
  /\ SetRows(IF stopped THEN rows ELSE Touched(rows), also)
  /\ stopped' = TRUE /\ campDirty' = (campDirty \/ ~stopped)
  /\ UNCHANGED <<susp, fresh>>

\* suspend(): a new scope of a runtime that is not stopped opens a new epoch.
SuspendWith(scope, rows, also) ==
  /\ IF stopped \/ scope \in susp
       THEN SetRows(rows, also) /\ UNCHANGED <<susp, fresh>>
       ELSE SetRows(Touched(rows), also) /\ susp' = susp \cup {scope} /\ fresh' = {}
  /\ UNCHANGED <<stopped, campDirty>>

\* A handler that neither stops nor suspends.
ProceedWith(rows, also) == SetRows(rows, also) /\ UNCHANGED <<susp, fresh, stopped, campDirty>>
Proceed(rows) == ProceedWith(rows, {})

\* _io_failure: a closing runtime only counts it; an integrity error (a ValueError, or a
\* data, schema or credential SQLSTATE) stops, anything else suspends.
IoFailure(scope, rows, also) ==
  IF Shut THEN ProceedWith(rows, also)
          ELSE StopWith(rows, also) \/ SuspendWith(scope, rows, also)

With(d, r)    == [row EXCEPT ![d] = r]
\* Mutant: the last writer of an outbox file wins.
NewestLast(old, new) == new

Newest(old, new) == IF old # None /\ old.ver > new.ver THEN old ELSE new
----------------------------------------------------------------------------
(* The calculation task and the feed callbacks. *)

HasGuard == guard \in {"ok", "full"}          \* measured, and not older than 3 s

\* _can_issue asks for a save of the campaign when the last one is CAMPAIGN_CHECKPOINT_SECONDS
\* old or this process has made none: at any check, as far as the model knows.
CheckpointMayBeDue == campDirty' \in {campDirty, TRUE}

\* _can_issue's tests; issue() has drained its inputs and frozen a decision whose
\* priced horizons are avail.
Issue(d, avail) ==
  /\ phase = "running" /\ ~stopped /\ susp = {} /\ guard = "ok"
  /\ d \notin issued /\ Cardinality(Live) < AuditMax
  /\ LET coalesced == IF pending = None THEN row
                      ELSE With(pending, SetStatus(row[pending], "coalesced_before_publication"))
     IN  SetRows([coalesced EXCEPT ![d] = NewRecord(Aim[d], avail)], {})
  /\ pending' = d /\ fresh' = (fresh \ {pending}) \cup {d} /\ issued' = issued \cup {d}
  /\ CheckpointMayBeDue
  /\ UNCHANGED <<phase, pub, aud, susp, stopped, guard, late, due, toSave, saved,
                 heard, durable, redis, mask, spent>>

\* offer_gap and input_overflow: every candidate of the old epoch is fenced.
OfferGap ==
  /\ phase = "running" /\ fresh # {}
  /\ fresh' = {}
  /\ UNCHANGED <<phase, row, dirty, pending, pub, aud, susp, stopped, campDirty, guard, late,
                 due, toSave, saved, heard, durable, world>>

\* offer_price of an official TWAP value: rows observe it now, stored rows later.
OfferTwap(s, v) ==
  /\ phase = "running" /\ spent.prices < MaxPrices /\ Spend("prices")
  /\ LET seen == [d \in Decisions |-> IF row[d] = None THEN None
                                      ELSE Observed(row[d], s, v, d \in due)]
         price == [stamp |-> s, value |-> v]
     IN  IF Len(late) >= LateMax
           THEN StopWith(seen, {}) /\ UNCHANGED <<late, heard>>
           ELSE Proceed(seen) /\ late' = Append(late, price)
                /\ heard' = heard \cup (issued \X {price})
  /\ UNCHANGED <<phase, pending, pub, aud, guard, due, toSave, saved, durable,
                 redis, mask, issued>>

\* A receipt, publication, wall or monotonic clock that went backwards.
ClockFault ==
  /\ phase = "running" /\ CanFail
  /\ StopWith([d \in Decisions |-> IF row[d] = None THEN None ELSE Invalidated(row[d])], {})
  /\ UNCHANGED <<phase, pending, pub, aud, guard, late, due, toSave, saved, heard, durable,
                 redis, mask, issued>>

\* Any other stop(): the canary deadline, a record over its bound, a dead task.
OtherStop ==
  /\ phase = "running" /\ ~stopped /\ CanFail
  /\ StopWith(row, {})
  /\ UNCHANGED <<phase, pending, pub, aud, guard, late, due, toSave, saved, heard, durable,
                 redis, mask, issued>>

WindowElapses(d) ==
  /\ d \in Live \ due /\ ~row[d].term /\ phase \in {"running", "quiescing"}
  /\ due' = due \cup {d}
  /\ UNCHANGED <<phase, row, dirty, pending, fresh, pub, aud, susp, stopped, campDirty,
                 guard, late, toSave, saved, heard, durable, world>>

\* finalize_due
FinalizeDue ==
  /\ phase \in {"running", "quiescing"} /\ due # {} /\ due' = {}
  /\ Proceed([d \in Decisions |-> IF d \in due THEN Closed(row[d], "missing") ELSE row[d]])
  /\ UNCHANGED <<phase, pending, pub, aud, guard, late, toSave, saved, heard, durable, world>>
----------------------------------------------------------------------------
(* The publication task. *)

\* _publishable, up to the validity deadline, which may have passed at any check.
Open(d) == /\ ~Shut /\ ~stopped /\ ~row[d].term /\ susp = {} /\ d \in fresh
Publishable(d) == Open(d) /\ d \notin due /\ HasGuard

\* d's publication is decided: its epoch no longer matters.
Decided(d, r) == /\ SetRows(With(d, r), {}) /\ fresh' = fresh \ {d}
                 /\ UNCHANGED <<susp, stopped, campDirty>>

\* A refused candidate; _publishable itself suspends on a stale guard.
Refuse(d, status) ==
  LET r == SetStatus(row[d], status) IN
  \/ Decided(d, r)
  \/ Open(d) /\ d \notin due /\ ~HasGuard /\ SuspendWith("guard", With(d, r), {})

PublisherKeeps == UNCHANGED <<phase, aud, guard, late, due, toSave, saved, heard, durStop, db, issued>>

\* _publication_loop takes the pending decision; publish() runs to its outbox write.
PublishRefused ==
  /\ phase = "running" /\ pub = Idle /\ pending # None
  /\ Refuse(pending, "expired_or_target_received")
  /\ pending' = None /\ pub' = Idle
  /\ UNCHANGED <<spool, redis, mask, spent>> /\ PublisherKeeps

PublishWithheld ==
  /\ phase = "running" /\ pub = Idle /\ pending # None
  /\ Publishable(pending) /\ ~Selected(row[pending])
  /\ Decided(pending, SetStatus(SetStatus(row[pending], "intent"), "no_eligible_horizons"))
  /\ pending' = None /\ pub' = Idle
  /\ UNCHANGED <<spool, redis, mask, spent>> /\ PublisherKeeps

PublishIntent ==
  /\ phase = "running" /\ pub = Idle /\ pending # None
  /\ Publishable(pending) /\ Selected(row[pending])
  /\ LET rec == SetStatus(row[pending], "intent") IN
     /\ Proceed(With(pending, rec))
     /\ pub' = [at |-> "spool", d |-> pending, rec |-> rec]
  /\ pending' = None
  /\ UNCHANGED <<spool, redis, mask, spent>> /\ PublisherKeeps

\* Mutant: the Redis attempt does not wait for the outbox.
SpooledUnwritten(d) == pub.at = "spool" /\ d = pub.d /\ UNCHANGED spool

\* The write returned: the intent is on disk, and everything is checked again.
Spooled(d) == /\ pub.at = "spool" /\ d = pub.d /\ SpoolAccepts(spool[d], pub.rec)
              /\ spool' = [spool EXCEPT ![d] = Newest(@, pub.rec)]

PublishPreempted(d) ==
  /\ Spooled(d) /\ Refuse(d, "preempted_after_spool") /\ pub' = Idle
  /\ UNCHANGED <<pending, redis, mask, spent>> /\ PublisherKeeps

PublishMasked(d) ==
  /\ Spooled(d) /\ Publishable(d) /\ ~Selected(row[d])
  /\ Decided(d, SetStatus(row[d], "no_eligible_horizons")) /\ pub' = Idle
  /\ UNCHANGED <<pending, redis, mask, spent>> /\ PublisherKeeps

Attempt(d) == [SetStatus(row[d], "attempting") EXCEPT !.sel = Eligible(row[d])]

PublishAttempt(d) ==
  /\ Spooled(d) /\ Publishable(d) /\ Selected(row[d])
  /\ Decided(d, Attempt(d))
  /\ pub' = [pub EXCEPT !.at = "eval"]
  /\ redis' = [redis EXCEPT ![d] = "sent"] /\ mask' = [mask EXCEPT ![d] = Eligible(row[d])]
  /\ UNCHANGED <<pending, spent>> /\ PublisherKeeps

\* Less than a millisecond of validity is left for the key's TTL.
PublishTooLate(d) ==
  /\ Spooled(d) /\ Publishable(d) /\ Selected(row[d])
  /\ Decided(d, SetStatus(Attempt(d), "expired_before_attempt")) /\ pub' = Idle
  /\ UNCHANGED <<pending, redis, mask, spent>> /\ PublisherKeeps

\* publish()'s handler of a failed write, which may have replaced the file.
PublishSpoolFails(d) ==
  /\ pub.at = "spool" /\ d = pub.d
  /\ CanFail /\ IoFailure("publication", With(d, SetStatus(row[d], "spool_unavailable")), {})
  /\ pub' = Idle
  /\ UNCHANGED spool \/ Spooled(d)
  /\ UNCHANGED <<pending, redis, mask>> /\ PublisherKeeps

\* Redis runs PUBLISH_LUA, possibly long after the client gave up or died.
RedisApplies(d) ==
  /\ redis[d] = "sent" /\ redis' = [redis EXCEPT ![d] = "applied"]
  /\ UNCHANGED <<memory, durable, mask, issued, spent>>

\* Mutant: any end of the command counts as its reply.
PublishEndsBlind(d, status) ==
  /\ pub.at = "eval" /\ d = pub.d
  /\ Decided(d, SetStatus(row[d], status)) /\ pub' = Idle
  /\ UNCHANGED <<pending, spool, redis, mask, spent>> /\ PublisherKeeps

\* The reply, or a timeout, error or cancellation that establishes nothing.
PublishEnds(d, status) ==
  /\ pub.at = "eval" /\ d = pub.d
  /\ status = "acknowledged" => redis[d] = "applied"
  /\ Decided(d, SetStatus(row[d], status)) /\ pub' = Idle
  /\ UNCHANGED <<pending, spool, redis, mask, spent>> /\ PublisherKeeps

\* The quiesce deadline cancels the task: its outbox write still ends.
PublishCancelled(d) ==
  /\ phase = "cancelling" /\ Spooled(d) /\ pub' = Idle
  /\ UNCHANGED <<row, dirty, susp, fresh, stopped, campDirty, pending, redis, mask, spent>>
  /\ PublisherKeeps
----------------------------------------------------------------------------
(* The audit task: flush_audit_once. *)

Auditing   == phase \in {"running", "quiescing", "draining"}
NoHalt     == UNCHANGED <<susp, fresh, stopped, campDirty>>
AuditKeeps == UNCHANGED <<phase, pending, pub, guard, due, toSave, saved, heard,
                          redis, mask, issued>>

RemoveMatches(d) == spool[d] = None \/ spool[d].ver = aud.rec.ver

\* What the operation the task awaits does to the disk or the database.
TakesEffect ==
  \/ /\ aud.at = "campaign" /\ durStop' = aud.rec /\ UNCHANGED <<spool, db>>
  \/ /\ aud.at = "spool" /\ SpoolAccepts(spool[aud.d], aud.rec)
     /\ spool' = [spool EXCEPT ![aud.d] = Newest(@, aud.rec)] /\ UNCHANGED <<durStop, db>>
  \/ /\ aud.at = "persist" /\ Accepts(db[aud.d], aud.rec)
     /\ db' = [db EXCEPT ![aud.d] = Stored(@, aud.rec)] /\ UNCHANGED <<durStop, spool>>
  \/ /\ aud.at = "remove" /\ RemoveMatches(aud.d)
     /\ spool' = [spool EXCEPT ![aud.d] = None] /\ UNCHANGED <<durStop, db>>

\* The live row or the campaign is copied before the first await.
CampaignBegin ==
  /\ Auditing /\ aud = Idle /\ campDirty
  /\ aud' = [at |-> "campaign", d |-> None, rec |-> stopped]
  /\ UNCHANGED <<row, dirty, late, durable, spent>> /\ NoHalt /\ AuditKeeps

AuditBegin(d) ==
  /\ Auditing /\ aud = Idle /\ d \in dirty \cap Live
  /\ aud' = [at |-> "spool", d |-> d, rec |-> row[d]]
  /\ UNCHANGED <<row, dirty, late, durable, spent>> /\ NoHalt /\ AuditKeeps

\* A stop during the fsync is saved by another write, and so is what the clock has run on meanwhile
\* if the fsync takes longer than the interval between two checkpoints (a fault).
CampaignSaved ==
  /\ aud.at = "campaign" /\ TakesEffect /\ aud' = Idle
  /\ \/ campDirty' = (stopped # aud.rec) /\ UNCHANGED spent
     \/ phase \in {"running", "quiescing"} /\ CanFail /\ campDirty' = TRUE
  /\ UNCHANGED <<row, dirty, susp, fresh, stopped, late>> /\ AuditKeeps

AuditSpooled ==
  /\ aud.at = "spool" /\ TakesEffect /\ aud' = [aud EXCEPT !.at = "persist"]
  /\ UNCHANGED <<row, dirty, late, spent>> /\ NoHalt /\ AuditKeeps

\* Mutant: a terminal row leaves although the publication task still refers to it.
UnclaimedByAll(d) == d \in Decisions
\* Neither waiting for the publication task nor in its hands.
Unclaimed(d) == pending # d /\ pub.d # d

\* Mutant: what was stored is clean, even if the row has changed since.
AuditPersistedClean ==
  /\ aud.at = "persist" /\ TakesEffect
  /\ dirty' = dirty \ {aud.d} /\ aud' = Idle
  /\ UNCHANGED <<row, late, spent>> /\ NoHalt /\ AuditKeeps

\* A row changed during the transaction stays dirty; a settled terminal row leaves the
\* outbox next.
AuditPersisted ==
  /\ aud.at = "persist" /\ TakesEffect
  /\ LET d == aud.d IN
     IF row[d].ver = aud.rec.ver
       THEN /\ dirty' = dirty \ {d}
            /\ aud' = IF row[d].term /\ Unclaimed(d)
                      THEN [aud EXCEPT !.at = "remove"] ELSE Idle
       ELSE aud' = Idle /\ UNCHANGED dirty
  /\ UNCHANGED <<row, late, spent>> /\ NoHalt /\ AuditKeeps

\* A row changed while its file was unlinked stays in memory.
AuditRemoved ==
  /\ aud.at = "remove" /\ TakesEffect /\ aud' = Idle
  /\ row' = IF row[aud.d].ver = aud.rec.ver THEN With(aud.d, None) ELSE row
  /\ UNCHANGED <<dirty, late, spent>> /\ NoHalt /\ AuditKeeps

\* Mutant: a failed campaign write is retried as if it were a row.
FailedKey == {aud.d}

\* _dirty.add(key): a failed row is dirty again, whatever failed.
FailedRow == {aud.d} \cap Decisions

\* An operation failed or timed out, with or without its effect.
AuditFails ==
  /\ aud.at \in {"campaign", "spool", "persist", "remove"} /\ aud' = Idle
  /\ UNCHANGED durable \/ TakesEffect
  /\ CanFail /\ IoFailure("audit", row, FailedRow)
  /\ UNCHANGED late /\ AuditKeeps

\* A shutdown stage ran out of time: the wait is cancelled, a disk operation still ends.
AuditCancelled ==
  /\ phase \in {"cancelling", "leaving"} /\ aud' = Idle
  /\ TakesEffect \/ (aud.at = "persist" /\ UNCHANGED durable)
  /\ UNCHANGED <<row, dirty, late, spent>> /\ NoHalt /\ AuditKeeps

\* Mutant: rows still owned by the process are annotated in the database too.
NotingAll ==
  /\ db' = [d \in Decisions |-> IF db[d] = None THEN None
                                 ELSE Noted(db[d], Head(late).stamp, Head(late).value)]
  /\ UNCHANGED <<spool, durStop>>

\* note_late_target for the oldest price: terminal rows this process does not own.
Noting ==
  /\ db' = [d \in Decisions |-> IF d \in Live \/ db[d] = None THEN db[d]
                                 ELSE Noted(db[d], Head(late).stamp, Head(late).value)]
  /\ UNCHANGED <<spool, durStop>>

LateNoted ==
  /\ Auditing /\ aud = Idle /\ late # <<>>
  /\ Noting /\ late' = Tail(late)
  /\ UNCHANGED <<row, dirty, aud, spent>> /\ NoHalt /\ AuditKeeps

\* Mutant: a price whose transaction failed is dropped.
LateFailsDrops ==
  /\ Auditing /\ aud = Idle /\ late # <<>>
  /\ UNCHANGED durable /\ late' = Tail(late)
  /\ CanFail /\ IoFailure("audit", row, {})
  /\ UNCHANGED aud /\ AuditKeeps

LateFails ==
  /\ Auditing /\ aud = Idle /\ late # <<>>
  /\ Noting \/ UNCHANGED durable
  /\ late' = Append(Tail(late), Head(late))
  /\ CanFail /\ IoFailure("audit", row, {})
  /\ UNCHANGED aud /\ AuditKeeps

\* _resume_if_caught_up, but for the freshness of the guard.
CaughtUp == /\ ~Shut /\ susp # {} /\ ~stopped /\ dirty = {} /\ late = <<>> /\ ~campDirty
            /\ pub = Idle

\* Mutant: a capacity suspension waits for an operator.
ResumesTransient ==
  /\ SetRows(Touched(row), {}) /\ susp' = susp \cap {"capacity"}
  /\ UNCHANGED <<fresh, stopped, campDirty>>

Resumes ==
  /\ SetRows(Touched(row), {}) /\ susp' = {}
  /\ UNCHANGED <<fresh, stopped, campDirty>>

FlushEnds ==
  /\ aud = Idle /\ CaughtUp /\ HasGuard /\ (Continuous => guard = "ok")
  /\ Resumes
  /\ UNCHANGED <<late, aud, durable, spent>> /\ AuditKeeps
----------------------------------------------------------------------------
(* The guard task. *)

GuardKeeps == UNCHANGED <<phase, pending, pub, aud, late, due, toSave, saved, heard, durable,
                          redis, mask, issued>>

GuardMeasured ==
  /\ phase = "running" /\ ~stopped
  /\ guard # "ok" \/ CaughtUp
  /\ guard' = "ok"
  /\ IF CaughtUp THEN Resumes ELSE Proceed(row)
  /\ UNCHANGED spent /\ GuardKeeps

\* refresh_guard finds, or _can_issue computes, that the reserve is used up.
NoCapacity ==
  /\ phase \in {"running", "quiescing"} /\ ~stopped /\ CanFail
  /\ guard' = "full" \/ (HasGuard /\ UNCHANGED guard)
  /\ IF Continuous THEN SuspendWith("capacity", row, {}) ELSE StopWith(row, {})
  /\ GuardKeeps

GuardFails ==
  /\ phase = "running" /\ ~stopped /\ CanFail
  /\ guard' = "none" /\ IoFailure("guard", row, {})
  /\ GuardKeeps

GuardAges ==
  /\ phase = "running" /\ HasGuard /\ CanFail
  /\ guard' = "stale" /\ Proceed(row)
  /\ GuardKeeps

\* A check that issues nothing: the guard task's own, or a decision that is refused.
CheckpointDue ==
  /\ phase = "running" /\ ~stopped /\ ~campDirty /\ campDirty' = TRUE
  /\ UNCHANGED <<row, dirty, susp, fresh, stopped, guard, spent>> /\ GuardKeeps

\* _can_issue meets a stale guard, from the guard task or before a decision.
StaleGuardSeen ==
  /\ phase = "running" /\ ~stopped /\ ~HasGuard /\ "guard" \notin susp
  /\ SuspendWith("guard", row, {})
  /\ UNCHANGED <<guard, spent>> /\ GuardKeeps
----------------------------------------------------------------------------
(* start(), close() and the death of the process. *)

\* A new process: everything in memory is gone.
Reset(stop, camp) ==
  /\ row' = [d \in Decisions |-> None]
  /\ dirty' = {} /\ fresh' = {} /\ due' = {} /\ toSave' = {} /\ saved' = {} /\ heard' = {}
  /\ susp' = {} /\ late' = <<>> /\ guard' = "none"
  /\ pending' = None /\ pub' = Idle /\ aud' = Idle
  /\ stopped' = stop /\ campDirty' = camp

\* Mutant: a new process begins a new campaign.
StartAfresh ==
  /\ phase = "down" /\ phase' = "recovering" /\ Reset(FALSE, FALSE)
  /\ UNCHANGED <<durable, redis, mask, issued, spent>>

\* The saved campaign keeps its stop; a wall clock behind it is a new one.
Start ==
  /\ phase = "down" /\ phase' = "recovering"
  /\ \/ Reset(durStop, FALSE) /\ UNCHANGED spent
     \/ CanFail /\ Reset(TRUE, ~durStop)
  /\ UNCHANGED <<durable, redis, mask, issued>>

\* Mutant: recovery takes an unconfirmed attempt for one that never happened.
ReconciledAsUnsent(r) ==
  IF r.term THEN r
  ELSE [Closed(r, "restart_unmatched") EXCEPT
         !.st = IF r.st \in OpenStatus THEN "preempted_after_spool" ELSE @]

\* _recover: an open row is closed without claiming more than was recorded.
Reconciled(r) == IF r.term THEN r ELSE Closed(r, "restart_unmatched")
LatestOf(d) == IF db[d] # None /\ (spool[d] = None \/ db[d].ver > spool[d].ver)
               THEN db[d] ELSE spool[d]

RecoveryKeeps == UNCHANGED <<row, dirty, late, durStop, spent>> /\ NoHalt /\ AuditKeeps

RecoverSpooled(d) ==
  /\ phase = "recovering" /\ aud = Idle /\ spool[d] # None
  /\ Accepts(db[d], Reconciled(LatestOf(d)))
  /\ db' = [db EXCEPT ![d] = Stored(@, Reconciled(LatestOf(d)))]
  /\ aud' = [at |-> "recovered", d |-> d, rec |-> spool[d]]
  /\ UNCHANGED spool /\ RecoveryKeeps

RecoverRemoved ==
  /\ aud.at = "recovered" /\ aud' = Idle
  /\ spool' = [spool EXCEPT ![aud.d] = None]
  /\ UNCHANGED db /\ RecoveryKeeps

\* Mutant: only the rows PostgreSQL knows are recovered.
OutboxIgnored == phase = "recovering"

OutboxEmpty == spool = [d \in Decisions |-> None]

\* list_incomplete, once the outbox is empty: a second net.  An open row always has its
\* outbox file, so the loop closes nothing unless a file was lost.
StoredClosed == [d \in Decisions |-> IF db[d] = None THEN None ELSE Reconciled(db[d])]

\* The guard is measured before the tasks are created.
Started ==
  /\ phase = "recovering" /\ aud = Idle /\ OutboxEmpty
  /\ db' = StoredClosed
  /\ phase' = "running"
  /\ \/ /\ guard' = IF stopped THEN "none" ELSE "ok"
        /\ Proceed(row) /\ UNCHANGED spent
     \/ /\ ~stopped /\ CanFail /\ guard' = "none"
        /\ StopWith(row, {}) \/ SuspendWith("guard", row, {})
  /\ UNCHANGED <<pending, pub, aud, late, due, toSave, saved, heard, spool, durStop, redis,
                 mask, issued>>

\* start() raises: the campaign it loaded is saved, the rest is left as it is.
StartFails ==
  /\ phase = "recovering" /\ CanFail /\ phase' = "down" /\ Reset(FALSE, FALSE)
  /\ durStop' = stopped /\ UNCHANGED <<spool, db, redis, mask, issued>>

Restart == spent.restarts < MaxRestarts /\ Spend("restarts")

Close ==
  /\ phase = "running" /\ Restart
  /\ phase' = "quiescing" /\ fresh' = {} /\ pending' = None
  /\ UNCHANGED <<row, dirty, pub, aud, susp, stopped, campDirty, guard, late, due, toSave, saved,
                 heard, durable, redis, mask, issued>>

\* _shutdown_stage: a deadline cancels the tasks of the stage and waits for what they own.
DeadlinePasses ==
  /\ CanFail
  /\ \/ phase = "quiescing" /\ phase' = "cancelling"
     \/ phase = "draining" /\ phase' = "leaving"
  /\ UNCHANGED <<row, dirty, pending, fresh, pub, aud, susp, stopped, campDirty, guard, late, due,
                 toSave, saved, heard, durable, redis, mask, issued>>

\* The tasks have ended: every row becomes terminal, whatever it was waiting for.
Freeze ==
  /\ phase \in {"quiescing", "cancelling"} /\ pub = Idle /\ aud = Idle
  /\ phase' = "preserving"
  /\ SetRows([d \in Decisions |-> IF row[d] = None THEN None
                                   ELSE Closed(row[d], "restart_unmatched")], {})
  /\ campDirty' = TRUE /\ toSave' = Live /\ saved' = {} /\ due' = {}
  /\ UNCHANGED <<pending, fresh, pub, aud, susp, stopped, guard, late, heard, durable, world>>

\* Mutant: the final pass counts the rows it tried to write.
PreserveRowTried(d) ==
  /\ phase = "preserving" /\ d \in toSave /\ SpoolAccepts(spool[d], row[d])
  /\ toSave' = toSave \ {d} /\ saved' = saved \cup {d}
  /\ \/ UNCHANGED spent /\ spool' = [spool EXCEPT ![d] = Newest(@, row[d])]
     \/ CanFail /\ UNCHANGED spool
  /\ UNCHANGED <<phase, row, dirty, pending, pub, aud, guard, late, due, heard, durStop, db,
                 redis, mask, issued>> /\ NoHalt

\* preserve(): the outbox first, one row after the other, then the campaign.
PreserveRow(d) ==
  /\ phase = "preserving" /\ d \in toSave /\ SpoolAccepts(spool[d], row[d])
  /\ toSave' = toSave \ {d}
  /\ \/ /\ saved' = saved \cup {d} /\ UNCHANGED spent
        /\ spool' = [spool EXCEPT ![d] = Newest(@, row[d])]
     \/ CanFail /\ UNCHANGED <<saved, spool>>
  /\ UNCHANGED <<phase, row, dirty, pending, pub, aud, guard, late, due, heard, durStop, db,
                 redis, mask, issued>> /\ NoHalt

PreserveEnds ==
  /\ phase = "preserving" /\ phase' = "draining" /\ toSave' = {}
  /\ \/ toSave = {} /\ durStop' = stopped /\ campDirty' = FALSE /\ UNCHANGED spent
     \/ CanFail /\ UNCHANGED <<durStop, campDirty>>
  /\ UNCHANGED <<row, dirty, pending, fresh, pub, aud, susp, stopped, guard, late, due, saved,
                 heard, spool, db, redis, mask, issued>>

\* Everything is drained, or the deadline has passed.
Exit ==
  /\ aud = Idle
  /\ phase = "leaving" \/ (phase = "draining" /\ dirty = {} /\ late = <<>> /\ ~campDirty)
  /\ phase' = "down" /\ Reset(FALSE, FALSE)
  /\ UNCHANGED <<durable, redis, mask, issued, spent>>

Crash ==
  /\ phase # "down" /\ Restart
  /\ phase' = "down" /\ Reset(FALSE, FALSE)
  /\ UNCHANGED <<durable, redis, mask, issued>>
----------------------------------------------------------------------------
Calculate == \/ \E d \in Decisions, avail \in Priced : Issue(d, avail)
             \/ OfferGap \/ ClockFault \/ OtherStop \/ FinalizeDue
             \/ \E s \in Stamps, v \in Values : OfferTwap(s, v)
             \/ \E d \in Decisions : WindowElapses(d)

Publish == \/ PublishRefused \/ PublishWithheld \/ PublishIntent
           \/ \E d \in Decisions :
                \/ PublishPreempted(d) \/ PublishMasked(d) \/ PublishAttempt(d)
                \/ PublishTooLate(d) \/ PublishSpoolFails(d) \/ PublishCancelled(d)
                \/ RedisApplies(d)
                \/ PublishEnds(d, "acknowledged") \/ PublishEnds(d, "uncertain")

Audit == \/ CampaignBegin \/ CampaignSaved \/ AuditSpooled \/ AuditPersisted \/ AuditRemoved
         \/ AuditFails \/ AuditCancelled \/ LateNoted \/ LateFails \/ FlushEnds
         \/ \E d \in Decisions : AuditBegin(d)

Guard == GuardMeasured \/ NoCapacity \/ GuardFails \/ GuardAges \/ CheckpointDue \/ StaleGuardSeen

Lifecycle == \/ Start \/ RecoverRemoved \/ Started \/ StartFails
             \/ Close \/ DeadlinePasses \/ Freeze \/ PreserveEnds \/ Exit \/ Crash
             \/ \E d \in Decisions : RecoverSpooled(d) \/ PreserveRow(d)

Next == Calculate \/ Publish \/ Audit \/ Guard \/ Lifecycle

Spec == Init /\ [][Next]_vars

(* Fairness.  A task that can run does, and an awaited operation ends, well or badly (every *)
(* one has a timeout or an owner that waits for it).  The audit cursor rotates over the     *)
(* dirty rows, and each flush also takes the campaign, the late prices and the resumption:  *)
(* what is enabled again and again is reached, hence SF.  systemd restarts the service.     *)
PublisherMoves == \/ PublishRefused \/ PublishWithheld \/ PublishIntent
                  \/ \E d \in Decisions :
                       \/ PublishPreempted(d) \/ PublishMasked(d) \/ PublishAttempt(d)
                       \/ PublishTooLate(d) \/ PublishSpoolFails(d)
                       \/ PublishCancelled(d)
                       \/ PublishEnds(d, "acknowledged") \/ PublishEnds(d, "uncertain")
AuditMoves   == \/ CampaignSaved \/ AuditSpooled \/ AuditPersisted \/ AuditRemoved
                \/ AuditFails \/ AuditCancelled
Recovers     == \/ Start \/ RecoverRemoved \/ Started
                \/ \E d \in Decisions : RecoverSpooled(d)
ShutsDown    == Freeze \/ PreserveEnds \/ Exit \/ \E d \in Decisions : PreserveRow(d)

Fairness == /\ WF_vars(PublisherMoves) /\ WF_vars(AuditMoves)
            /\ WF_vars(FinalizeDue) /\ WF_vars(GuardMeasured)
            /\ WF_vars(Recovers) /\ WF_vars(ShutsDown)
            /\ SF_vars(CampaignBegin) /\ SF_vars(LateNoted) /\ SF_vars(FlushEnds)
            /\ \A d \in Decisions : SF_vars(AuditBegin(d)) /\ WF_vars(WindowElapses(d))

FairSpec == Spec /\ Fairness
----------------------------------------------------------------------------
(* What must hold. *)

\* The newest record of a decision that survives the process.
Ledger == [d \in Decisions |-> LatestOf(d)]

\* A forecast that may be on the wire is never denied by the audit: from before the
\* Redis command is sent (publish() writes the outbox first), through crashes, recovery
\* and rejected retries, the newest durable record of the decision says it was intended,
\* attempted, acknowledged or uncertain.
NoFalseDenial ==
  \A d \in Decisions : redis[d] # "never" =>
    /\ Ledger[d] # None
    /\ Ledger[d].st \in {"intent", "attempting"} \cup WireStatus

\* An acknowledgement, in memory or durable, means Redis applied the command.
AckIsTrue ==
  \A d \in Decisions : redis[d] # "applied" =>
    \A r \in {row[d], spool[d], db[d]} : r # None => r.st # "acknowledged"

\* A confirmed lead in any copy of a record is earned: the acknowledged message carried
\* that horizon, the official value came after it, and neither a conflicting value nor a
\* clock fault has withdrawn it.
LeadIsCausal ==
  \A d \in Decisions, h \in Horizons : \A r \in {row[d], spool[d], db[d]} :
    (r # None /\ r.tgt[h].lead) =>
      /\ redis[d] = "applied" /\ h \in mask[d]
      /\ r.tgt[h].st = "matched" /\ ~r.tgt[h].conf /\ ~r.inv

\* While the tasks run, an outbox file belongs to a live row, so the admission bound on
\* rows (_can_issue) is what keeps the outbox within its own capacity.
OutboxOwned ==
  phase \in {"running", "quiescing", "cancelling"} =>
    \A d \in Decisions : spool[d] # None => row[d] # None

\* The tasks' references are to live rows (records[key] would raise KeyError and end the
\* task): the pending decision, the one being published, the one being audited.
ReferencesLive ==
  /\ pending # None => row[pending] # None
  /\ pub # Idle => row[pub.d] # None
  /\ aud.at \in {"spool", "persist", "remove"} => row[aud.d] # None
  /\ toSave \subseteq Live

\* The outbox and the store never refuse what the tasks hand them: no version conflict, no
\* illegal transition, no removal of a newer file. (A refusal stops the campaign, and in
\* start() it would keep the worker from ever recovering its outbox.)
NothingRefused ==
  /\ aud.at = "spool" => SpoolAccepts(spool[aud.d], aud.rec)
  /\ aud.at = "persist" => Accepts(db[aud.d], aud.rec)
  /\ aud.at = "remove" => RemoveMatches(aud.d)
  /\ pub.at = "spool" => SpoolAccepts(spool[pub.d], pub.rec)
  /\ \A d \in toSave : SpoolAccepts(spool[d], row[d])
  /\ phase = "down" => \A d \in Decisions : spool[d] # None => Accepts(db[d], Reconciled(LatestOf(d)))

\* After a complete final outbox pass, every decision ever recorded is durably closed,
\* although PostgreSQL may have taken none of it (GHOST_TWAP_REFERENCE.md: shutdown).
FinalPassCloses ==
  phase \in {"draining", "leaving"} /\ Live \subseteq saved =>
    \A d \in Decisions : Ledger[d] # None => Ledger[d].term

\* No official price is lost between the live row and the stored one: once the audit is
\* quiet, every price a decision could hear has left its mark in PostgreSQL.
PriceReachesStore ==
  (phase = "running" /\ dirty = {} /\ late = <<>> /\ aud = Idle) =>
    \A d \in Decisions, p \in Prices : <<d, p>> \in heard /\ db[d] # None =>
      \A h \in {g \in Horizons : db[d].aim[g] = p.stamp} :
        LET t == db[d].tgt[h] IN
        /\ t.st # "pending"
        /\ t.first # None /\ t.first # p.value => t.conf
        /\ t.st \in {"missing", "restart_unmatched"} => t.late

\* What any copy of a record says about the wire and the lead is true.
EvidenceIsTrue == NoFalseDenial /\ LeadIsCausal

\* No record, and no price a record has heard, is dropped between memory, outbox and PostgreSQL.
EvidenceIsKept == OutboxOwned /\ NothingRefused /\ FinalPassCloses /\ PriceReachesStore

\* A stop that reached campaign.json is final: no process forgets it, issues a decision or
\* sends a command after it.
StopIsFinal ==
  [][durStop => /\ durStop' /\ issued' = issued
                /\ \A d \in Decisions : redis[d] = "never" => redis'[d] = "never"]_vars

\* The durable state is a ledger that only grows (AuditLedger).
AbstractLedger == INSTANCE AuditLedger WITH ledger <- Ledger,
                                            wire <- {d \in Decisions : redis[d] = "applied"}
LedgerRefined == AbstractLedger!Spec

\* Whatever was recorded of a decision ends as a terminal row in PostgreSQL, through
\* failures, a stop, a shutdown or a crash.
RecordsSettle ==
  \A d \in Decisions : (Ledger[d] # None) ~> (db[d] # None /\ db[d].term)

\* A suspension is a pause: once the backlog is written, decisions are issued again, unless
\* the campaign is stopped for good.
SuspensionEnds == (susp # {}) ~> (susp = {} \/ stopped)
=============================================================================
