----------------------------- MODULE TwapDelivery -----------------------------
(***************************************************************************)
(* The TWAP collector: the RTDS reader, the bounded queue to PostgreSQL,   *)
(* its writer, the recovery of sessions a crash left open, and the         *)
(* shutdown of the runtime.  A connection is a session with a durable row; *)
(* nothing is replayed, so what a session lost must be told by a gap.      *)
(*                                                                         *)
(* An event is the number of the accepted message in its session.  Its     *)
(* transaction also writes price_samples, where the newest stored event of *)
(* a second (by provider and receipt time) wins: that row is a function of *)
(* the stored events, and no variable.  Frames that carry no price change  *)
(* only counters that are left out.  One event loop runs reader and        *)
(* writer; a step ends at an await.                                        *)
(***************************************************************************)
EXTENDS Integers, Sequences, FiniteSets

CONSTANTS
  Sessions,        \* connection ids
  Capacity,        \* POLYMARKET_TWAP_PERSIST_QUEUE_MAX_EVENTS
  RedisOutlasts,   \* a Redis attempt may outlast the wait for the cancelled reader
  None,
  MaxEvents, MaxFaults, MaxRestarts    \* bounds

ASSUME QueueLimit == Capacity \in Nat \ {0}

VARIABLES
  run,         \* the runtime: where start, run and shutdown are
  reader,      \* the reader: where it is, and its session
  barrier,     \* session_persisted is set
  accepted,    \* messages_accepted_total of every session
  queue,       \* records, oldest first
  hand,        \* the record the writer is writing, or None
  todo,        \* orphans listed and not yet recovered
  closing,     \* the orphan whose gap is written and whose finish is not, or None
  session,     \* the rows of polymarket_twap_sessions: absent, open, or by whom closed
  total,       \* the messages_accepted_total of those rows
  gaps,        \* polymarket_twap_gaps: a session, and how many events precede the gap
  stored,      \* polymarket_twap_events
  stray,       \* writes whose client is gone, and which PostgreSQL may still commit
  used,        \* sessions whose connection was made
  spent        \* of the bounds

process == <<run, reader, barrier, queue, hand, todo, closing>>
durable == <<session, total, gaps, stored>>
vars    == <<process, accepted, durable, stray, used, spent>>

Events  == Sessions \X Nat
Kinds   == {"start", "event", "gap", "finish", "recovered"}
Record  == [k : Kinds, c : Sessions, n : Nat]
Orphan  == [c : Sessions, n : Nat]

ASSUME NoneIsNothing == None \notin Sessions /\ None \notin Record /\ None \notin Orphan

\* Mutant: the reserve has no place for the event that finds the queue full.
ReserveForControls == 2
TWAP_FINAL_CONTROL_RESERVE == 3
QueueMax == Capacity + TWAP_FINAL_CONTROL_RESERVE

TypeOK ==
  /\ run \in {"down", "listing", "recovering", "running", "stopping", "joining"}
  /\ reader \in [at : {"idle", "barrier", "recv", "live", "saving", "closing", "done"},
                 c : Sessions \cup {None}]
  /\ reader.c = None <=> reader.at \in {"idle", "done"}
  /\ barrier \in BOOLEAN /\ accepted \in [Sessions -> Nat]
  /\ queue \in Seq(Record) /\ Len(queue) <= QueueMax /\ hand \in Record \cup {None}
  /\ todo \subseteq Orphan /\ closing \in Orphan \cup {None}
  /\ session \in [Sessions -> {"none", "open", "own", "orphan"}]
  /\ total \in [Sessions -> Nat] /\ gaps \subseteq Orphan /\ stored \subseteq Events
  /\ stray \subseteq Record /\ used \subseteq Sessions
  /\ spent \in [events : Nat, faults : Nat, restarts : Nat]

Off == [at |-> "idle", c |-> None]
Done == [at |-> "done", c |-> None]

Init ==
  /\ run = "down" /\ reader = Off /\ barrier = FALSE
  /\ accepted = [c \in Sessions |-> 0] /\ queue = <<>> /\ hand = None
  /\ todo = {} /\ closing = None
  /\ session = [c \in Sessions |-> "none"] /\ total = accepted
  /\ gaps = {} /\ stored = {} /\ stray = {} /\ used = {}
  /\ spent = [events |-> 0, faults |-> 0, restarts |-> 0]

Spend(k, max) == spent[k] < max /\ spent' = [spent EXCEPT ![k] = @ + 1]
CanFail == Spend("faults", MaxFaults)
----------------------------------------------------------------------------
(* PostgreSQL: every write is idempotent, and none reopens or recloses a session. *)

Finishes(c) == session[c] = "open"

Finish(c, by, n) ==
  /\ session' = IF Finishes(c) THEN [session EXCEPT ![c] = by] ELSE session
  /\ total'   = IF Finishes(c) THEN [total EXCEPT ![c] = n] ELSE total
  /\ UNCHANGED <<gaps, stored>>

\* INSERT ... ON CONFLICT DO NOTHING: a session is opened once.
Started(c) ==
  /\ session' = IF session[c] = "none" THEN [session EXCEPT ![c] = "open"] ELSE session
  /\ UNCHANGED <<total, gaps, stored>>

Stored(c, n) == stored' = stored \cup {<<c, n>>} /\ UNCHANGED <<session, total, gaps>>

Marked(c, n) == gaps' = gaps \cup {[c |-> c, n |-> n]} /\ UNCHANGED <<session, total, stored>>

\* The statements of _persist_twap_record and of recovery.
Persist(r) ==
  \/ r.k = "start" /\ Started(r.c)
  \/ r.k = "event" /\ Stored(r.c, r.n)
  \/ r.k = "gap" /\ Marked(r.c, r.n)
  \/ r.k = "finish" /\ Finish(r.c, "own", r.n)
  \/ r.k = "recovered" /\ Finish(r.c, "orphan", r.n)

\* A statement whose client died or was cancelled in the middle takes effect after all.
StrayLands(r) ==
  /\ r \in stray /\ Persist(r) /\ stray' = stray \ {r}
  /\ UNCHANGED <<process, accepted, used, spent>>
----------------------------------------------------------------------------
(* The reader. *)

ReaderKeeps == UNCHANGED <<hand, todo, closing, durable, stray, used>>

Rec(k, c) == [k |-> k, c |-> c, n |-> accepted[c]]

\* Mutant: asyncio.Queue without a bound.
RoomAlways(q) == q \in Seq(Record)
Room(q) == Len(q) < QueueMax

\* put_nowait; on QueueFull the record is not enqueued.
Offer(q, r) == IF Room(q) THEN Append(q, r) ELSE q

\* Mutant: the finish is offered first.
FinalsSwapped(c) ==
  LET q == Offer(queue, Rec("finish", c)) IN
  queue' = IF Room(queue) THEN Offer(q, Rec("gap", c)) ELSE q

\* _offer_twap_session_final_records: without its gap, no finish.
Finals(c) ==
  LET q == Offer(queue, Rec("gap", c)) IN
  queue' = IF Room(queue) THEN Offer(q, Rec("finish", c)) ELSE q

\* Connected and subscribed; the start waits for a place in the queue.  Nothing of c is
\* read before its row is durable.
Subscribe(c) ==
  /\ run = "running" /\ reader.at = "idle" /\ c \notin used /\ Room(queue)
  /\ queue' = Append(queue, Rec("start", c)) /\ used' = used \cup {c}
  /\ reader' = [at |-> "barrier", c |-> c] /\ barrier' = FALSE
  /\ UNCHANGED <<run, accepted, spent, hand, todo, closing, durable, stray>>

\* Mutant: the first message is read while the start is on its way.
BarrierOpen == reader.at = "barrier"
BarrierPassed == reader.at = "barrier" /\ barrier

Subscribed ==
  /\ BarrierPassed /\ reader' = [reader EXCEPT !.at = "recv"]
  /\ UNCHANGED <<run, barrier, accepted, queue, spent>> /\ ReaderKeeps

\* A price: it is counted, offered to the Ghost worker and sent to Redis, before the queue.
Accept ==
  /\ reader.at = "recv" /\ Spend("events", MaxEvents)
  /\ accepted' = [accepted EXCEPT ![reader.c] = @ + 1]
  /\ reader' = [reader EXCEPT !.at = "live"]
  /\ UNCHANGED <<run, barrier, queue>> /\ ReaderKeeps

\* The Redis attempt ended, well or badly.  At the capacity the event takes a place of the
\* reserve, and the socket is closed.
LiveEnds ==
  /\ reader.at = "live"
  /\ queue' = Offer(queue, Rec("event", reader.c))
  /\ reader' = [reader EXCEPT !.at = IF Len(queue) < Capacity THEN "recv" ELSE "closing"]
  /\ UNCHANGED <<run, barrier, accepted, spent>> /\ ReaderKeeps

\* Idle timeout, remote close or another error: the socket is closed.
Breaks ==
  /\ reader.at = "recv" /\ reader' = [reader EXCEPT !.at = "closing"]
  /\ UNCHANGED <<run, barrier, accepted, queue, spent>> /\ ReaderKeeps

Closed ==
  /\ reader.at = "closing" /\ Finals(reader.c) /\ reader' = Off
  /\ UNCHANGED <<run, barrier, accepted, spent>> /\ ReaderKeeps

\* run_collector cancels the runtime, and that the reader, at whatever it awaits.
Cancel ==
  /\ run = "running" /\ Spend("restarts", MaxRestarts) /\ run' = "stopping"
  /\ \/ reader.at \in {"idle", "barrier"} /\ reader' = Done /\ UNCHANGED queue
     \/ reader.at \in {"recv", "closing"} /\ reader' = Done /\ Finals(reader.c)
     \/ reader.at = "live" /\ reader' = [reader EXCEPT !.at = "saving"] /\ UNCHANGED queue
  /\ UNCHANGED <<barrier, accepted>> /\ ReaderKeeps

\* The shielded Redis attempt ended: the event, then the final records.
Saved(q) ==
  LET gap == Offer(q, Rec("gap", reader.c)) IN
  queue' = IF Room(q) THEN Offer(gap, Rec("finish", reader.c)) ELSE gap

\* Mutant: the cancelled handoff is left at once.
HandoffDrops == Saved(queue)
HandoffEnds  == Saved(Offer(queue, Rec("event", reader.c)))

\* _cancel_twap_task_bounded cancels again: the attempt is given up, and the event with it.
GivenUp == RedisOutlasts /\ Finals(reader.c)

SavingEnds ==
  /\ reader.at = "saving" /\ reader' = Done
  /\ HandoffEnds \/ GivenUp
  /\ UNCHANGED <<run, barrier, accepted, spent>> /\ ReaderKeeps
----------------------------------------------------------------------------
(* The writer: in order, and one record until it is written. *)

WriterKeeps == UNCHANGED <<run, reader, accepted, todo, closing, stray, used>>
Writing == run \in {"running", "stopping", "joining"}

WriterTakes ==
  /\ Writing /\ hand = None /\ queue # <<>>
  /\ hand' = Head(queue) /\ queue' = Tail(queue)
  /\ UNCHANGED <<barrier, durable, spent>> /\ WriterKeeps

WriterPersists ==
  /\ Writing /\ hand # None /\ Persist(hand) /\ hand' = None
  /\ barrier' = (barrier \/ hand.k = "start")
  /\ UNCHANGED <<queue, spent>> /\ WriterKeeps

\* Mutant: a record whose write failed is dropped.
WriterGivesUp ==
  /\ Writing /\ hand # None /\ CanFail
  /\ UNCHANGED durable \/ Persist(hand)
  /\ hand' = None /\ UNCHANGED <<queue, barrier>> /\ WriterKeeps

\* An error, with or without the effect: the same record is written again.
WriterFails ==
  /\ Writing /\ hand # None /\ CanFail
  /\ UNCHANGED durable \/ Persist(hand)
  /\ UNCHANGED <<queue, hand, barrier>> /\ WriterKeeps
----------------------------------------------------------------------------
(* Start, recovery, shutdown and crash. *)

LifeKeeps == UNCHANGED <<accepted, used>>
Empty     == reader' = Off /\ barrier' = FALSE /\ queue' = <<>> /\ hand' = None

Boot ==
  /\ run = "down" /\ run' = "listing"
  /\ UNCHANGED <<reader, barrier, queue, hand, todo, closing, durable, stray, spent>> /\ LifeKeeps

Number(c) == {e[2] : e \in {e \in stored : e[1] = c}}
Count(c)  == Cardinality(Number(c))

\* The open sessions, with what PostgreSQL holds of them.
ListOrphans ==
  /\ run = "listing" /\ run' = "recovering"
  /\ todo' = {[c |-> c, n |-> Count(c)] : c \in {c \in Sessions : session[c] = "open"}}
  /\ UNCHANGED <<reader, barrier, queue, hand, closing, durable, stray, spent>> /\ LifeKeeps

GapOf(o)    == [k |-> "gap", c |-> o.c, n |-> o.n]
FinishOf(o) == [k |-> "recovered", c |-> o.c, n |-> o.n]

\* The gap first, then the finish.
RecoverGap(o) ==
  /\ run = "recovering" /\ closing = None /\ o \in todo
  /\ Persist(GapOf(o)) /\ closing' = o /\ todo' = todo \ {o}
  /\ UNCHANGED <<run, reader, barrier, queue, hand, stray, spent>> /\ LifeKeeps

RecoverFinish ==
  /\ run = "recovering" /\ closing # None
  /\ Persist(FinishOf(closing)) /\ closing' = None
  /\ UNCHANGED <<run, reader, barrier, queue, hand, todo, stray, spent>> /\ LifeKeeps

\* What recovery may be writing.
Recovering == IF closing # None THEN {FinishOf(closing)} ELSE {GapOf(o) : o \in todo}

\* A write, or after them the look-up of the instrument, failed: the runtime ends, and its
\* supervisor starts it again.
RecoveryFails ==
  /\ run = "recovering" /\ CanFail /\ run' = "listing" /\ todo' = {} /\ closing' = None
  /\ UNCHANGED durable \/ \E r \in Recovering : Persist(r)
  /\ UNCHANGED <<reader, barrier, queue, hand, stray>> /\ LifeKeeps

Recovered ==
  /\ run = "recovering" /\ todo = {} /\ closing = None /\ run' = "running"
  /\ UNCHANGED <<reader, barrier, queue, hand, todo, closing, durable, stray, spent>> /\ LifeKeeps

ReaderStopped ==
  /\ run = "stopping" /\ reader = Done /\ run' = "joining"
  /\ UNCHANGED <<reader, barrier, queue, hand, todo, closing, durable, stray, spent>> /\ LifeKeeps

\* The statement the client is waiting for, if any.
InFlight == ({hand} \ {None}) \cup Recovering
Strays   == \/ InFlight = {} /\ UNCHANGED stray
            \/ \E r \in InFlight : stray' = stray \cup {r}

\* records.join() returned, or its deadline passed and the writer is cancelled.
Exit ==
  /\ run = "joining" /\ run' = "down" /\ Empty /\ Strays
  /\ \/ queue = <<>> /\ hand = None /\ UNCHANGED spent
     \/ CanFail
  /\ UNCHANGED <<todo, closing, durable>> /\ LifeKeeps

Crash ==
  /\ run # "down" /\ Spend("restarts", MaxRestarts) /\ run' = "down" /\ Empty /\ Strays
  /\ todo' = {} /\ closing' = None
  /\ UNCHANGED durable /\ LifeKeeps
----------------------------------------------------------------------------
Read  == \/ Subscribed \/ Accept \/ LiveEnds \/ Breaks \/ Closed \/ SavingEnds
         \/ \E c \in Sessions : Subscribe(c)
Write == WriterTakes \/ WriterPersists \/ WriterFails
Live  == \/ Boot \/ ListOrphans \/ RecoverFinish \/ RecoveryFails \/ Recovered
         \/ Cancel \/ ReaderStopped \/ Exit \/ Crash
         \/ \E c \in Sessions, n \in 0..MaxEvents : RecoverGap([c |-> c, n |-> n])

Next == Read \/ Write \/ Live \/ \E r \in stray : StrayLands(r)

Spec == Init /\ [][Next]_vars

(* Fairness: a task that can run does, an awaited operation ends, systemd restarts the *)
(* process.  Nothing is assumed of the provider, of crashes or of stray statements.    *)
Recovers == \/ Boot \/ ListOrphans \/ RecoverFinish \/ Recovered
            \/ \E c \in Sessions, n \in 0..MaxEvents : RecoverGap([c |-> c, n |-> n])

Fairness == /\ WF_vars(LiveEnds \/ SavingEnds) /\ WF_vars(Closed)
            /\ WF_vars(WriterTakes) /\ WF_vars(WriterPersists)
            /\ WF_vars(Recovers) /\ WF_vars(ReaderStopped) /\ WF_vars(Exit)

FairSpec == Spec /\ Fairness
----------------------------------------------------------------------------
(* What must hold. *)

\* What was accepted belongs to a durable session; a session that is closed has a gap that
\* begins no later than the first event PostgreSQL does not hold.
LossIsMarked(c) ==
  /\ accepted[c] > 0 => session[c] # "none"
  /\ session[c] \in {"own", "orphan"} => \E g \in gaps : g.c = c /\ 1..g.n \subseteq Number(c)

\* A session's own finish counts every accepted event and comes after the last of them; a
\* recovered session counts no event that PostgreSQL does not hold.
TotalIsTrue(c) ==
  /\ session[c] = "own" => total[c] = accepted[c] /\ Number(c) = 1..total[c]
  /\ session[c] = "orphan" => 1..total[c] \subseteq Number(c)

\* Nothing is lost in silence, whatever was cancelled, killed, retried or committed late:
\* the durable story of every session is complete, or says where it is not.
NoSilentLoss == TypeOK /\ \A c \in Sessions : LossIsMarked(c) /\ TotalIsTrue(c)

\* A session that brought events does not stay open behind its reader: it is closed by its
\* own finish or, after a restart, by recovery.
SessionsSettle ==
  \A c \in Sessions :
    (session[c] = "open" /\ accepted[c] > 0 /\ reader.c # c) ~> session[c] \in {"own", "orphan"}

\* Refuted if RedisOutlasts.  polymarket_twap.py:1123, of the live attempt and the queue: "The
\* handoff preserves this event even when a planned restart cancels the reader while Redis is
\* in flight."
HandoffPreserves ==
  \A c \in Sessions : session[c] = "own" => Cardinality(Number(c)) = accepted[c]
=============================================================================
