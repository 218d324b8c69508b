----------------------------- MODULE RawCapture -----------------------------
(***************************************************************************)
(* Raw capture of the futures trade feed: FeedSession, the 100 ms          *)
(* FuturesPriceTraceCoalescer, DropOldestCaptureBuffer and the writer of   *)
(* RawCaptureRuntime.                                                      *)
(*                                                                         *)
(* The reader task and the writer task share one event loop.  Offers are   *)
(* synchronous; the writer awaits the buffer, maintenance and COPY, and    *)
(* close() may cancel it at any of these.  Time is in buckets; a message   *)
(* may carry any wall time, because the wall clock may be set.             *)
(***************************************************************************)
EXTENDS Integers, Sequences, FiniteSets

CONSTANTS
  Buckets,      \* wall times of messages, in buckets
  QueueMax,     \* queue_max_events
  BatchMax,     \* batch_max_rows
  MaxMessages, MaxConns   \* bounds: accepted trades, connections

ASSUME Limits == QueueMax \in Nat /\ BatchMax \in Nat /\ 0 < BatchMax /\ BatchMax <= QueueMax
ASSUME BucketsAreTimes == Buckets \subseteq Nat

VARIABLES
  conn,        \* connections opened so far
  open,        \* a feed session is open
  pending,     \* bucket of _pending, or -1
  sealed,      \* last sealed bucket of this connection, or -1
  accepted,    \* trades handed to the coalescer
  sessions,    \* session records made
  coalesced,   \* records_coalesced_total
  dropped,     \* records_dropped_total
  persisted,   \* records_persisted_total
  buffer,      \* _items
  batch,       \* _active_batch, and the batch of _take_batch
  group,       \* the group of the batch being written
  rows,        \* positions of the batch reported as persisted
  pc,          \* where the writer is
  permitted,   \* _storage_permitted
  stop,        \* _stop_requested, and not _accepting_offers
  closer,      \* where close() is
  accounted,   \* _shutdown_buffer_accounted
  stored       \* the records that have taken effect in PostgreSQL

reader == <<conn, open, pending, sealed, accepted, sessions, coalesced>>
totals == <<dropped, persisted>>
writer == <<batch, group, rows, pc, permitted, stored>>
ending == <<stop, closer, accounted>>
vars   == <<reader, totals, buffer, writer, ending>>

Trace(b)      == [kind |-> "trace", conn |-> conn, at |-> b]
Session(c, e) == [kind |-> "session", conn |-> c, at |-> e]
Record == [kind : {"trace"}, conn : Nat, at : Buckets] \cup
          [kind : {"session"}, conn : Nat, at : {0, 1}]

TypeOK ==
  /\ conn \in Nat /\ open \in BOOLEAN
  /\ pending \in Buckets \cup {-1} /\ sealed \in Buckets \cup {-1}
  /\ accepted \in Nat /\ sessions \in Nat /\ coalesced \in Nat
  /\ dropped \in Nat /\ persisted \in Nat
  /\ buffer \in Seq(Record) /\ Len(buffer) <= QueueMax
  /\ batch \in Seq(Record) /\ Len(batch) <= BatchMax
  /\ group \in {"trace", "session"} /\ rows \subseteq 1..Len(batch)
  /\ pc \in {"maintain", "idle", "suspended", "gather", "recheck", "writing", "closing", "done"}
  /\ permitted \in BOOLEAN /\ stop \in BOOLEAN /\ accounted \in BOOLEAN
  /\ closer \in {"none", "waiting", "cancelling", "closed"}
  /\ stored \subseteq Record

Init ==
  /\ conn = 0 /\ open = FALSE /\ pending = -1 /\ sealed = -1
  /\ accepted = 0 /\ sessions = 0 /\ coalesced = 0 /\ dropped = 0 /\ persisted = 0
  /\ buffer = <<>> /\ batch = <<>> /\ group = "trace" /\ rows = {}
  /\ pc = "maintain" /\ permitted = TRUE
  /\ stop = FALSE /\ closer = "none" /\ accounted = FALSE /\ stored = {}
----------------------------------------------------------------------------
(* The reader: every offer is synchronous. *)

\* Mutant: the oldest record goes only when the buffer is over its limit.
OfferedLong(state, r) ==
  IF stop \/ ~permitted THEN [buffer |-> state.buffer, dropped |-> state.dropped + 1]
  ELSE IF Len(state.buffer) > QueueMax
    THEN [buffer |-> Append(Tail(state.buffer), r), dropped |-> state.dropped + 1]
    ELSE [buffer |-> Append(state.buffer, r), dropped |-> state.dropped]

\* offer_nowait: a full buffer loses its oldest record.
Offered(state, r) ==
  IF stop \/ ~permitted THEN [buffer |-> state.buffer, dropped |-> state.dropped + 1]
  ELSE IF Len(state.buffer) = QueueMax
    THEN [buffer |-> Append(Tail(state.buffer), r), dropped |-> state.dropped + 1]
    ELSE [buffer |-> Append(state.buffer, r), dropped |-> state.dropped]

Here == [buffer |-> buffer, dropped |-> dropped]
Becomes(state) == buffer' = state.buffer /\ dropped' = state.dropped

ReaderKeeps == UNCHANGED <<persisted, writer, ending>>

\* A connection: a new session and a new coalescer.
Connect ==
  /\ ~open /\ ~stop /\ conn < MaxConns
  /\ conn' = conn + 1 /\ open' = TRUE /\ pending' = -1 /\ sealed' = -1
  /\ sessions' = sessions + 1 /\ Becomes(Offered(Here, Session(conn + 1, 0)))
  /\ UNCHANGED <<accepted, coalesced>> /\ ReaderKeeps

\* Mutant: a bucket that has been sealed may be opened again.
LateAllowed(b) == pending # -1 /\ b < pending

\* add_trade refuses a wall time that has moved back.
Late(b) == b <= sealed \/ (pending # -1 /\ b < pending)

ReceiveLate(b) ==
  /\ open /\ accepted < MaxMessages /\ Late(b)
  /\ accepted' = accepted + 1 /\ dropped' = dropped + 1
  /\ UNCHANGED <<conn, open, pending, sealed, sessions, coalesced, buffer>> /\ ReaderKeeps

ReceiveFirst(b) ==
  /\ open /\ accepted < MaxMessages /\ ~Late(b) /\ pending = -1
  /\ accepted' = accepted + 1 /\ pending' = b
  /\ UNCHANGED <<conn, open, sealed, sessions, coalesced, dropped, buffer>> /\ ReaderKeeps

ReceiveSame(b) ==
  /\ open /\ accepted < MaxMessages /\ ~Late(b) /\ pending = b
  /\ accepted' = accepted + 1 /\ coalesced' = coalesced + 1
  /\ UNCHANGED <<conn, open, pending, sealed, sessions, dropped, buffer>> /\ ReaderKeeps

\* The next bucket: the pending one is sealed and offered.
ReceiveNext(b) ==
  /\ open /\ accepted < MaxMessages /\ ~Late(b) /\ pending \notin {-1, b}
  /\ accepted' = accepted + 1 /\ pending' = b /\ sealed' = pending
  /\ Becomes(Offered(Here, Trace(pending)))
  /\ UNCHANGED <<conn, open, sessions, coalesced>> /\ ReaderKeeps

\* finish_if_elapsed, after a silence.
SealIdle ==
  /\ open /\ pending # -1 /\ pending' = -1 /\ sealed' = pending
  /\ Becomes(Offered(Here, Trace(pending)))
  /\ UNCHANGED <<conn, open, accepted, sessions, coalesced>> /\ ReaderKeeps

\* The reader's finally: what is pending, then the end of the session.
Disconnect ==
  /\ open /\ open' = FALSE /\ sessions' = sessions + 1
  /\ pending' = -1 /\ sealed' = IF pending = -1 THEN sealed ELSE pending
  /\ LET flushed == IF pending = -1 THEN Here ELSE Offered(Here, Trace(pending)) IN
       Becomes(Offered(flushed, Session(conn, 1)))
  /\ UNCHANGED <<conn, accepted, coalesced>> /\ ReaderKeeps
----------------------------------------------------------------------------
(* The writer.  Once close() has cancelled it, it only obeys. *)

WriterKeeps == UNCHANGED <<reader, ending>>
Free        == closer \in {"none", "waiting"}

\* The head of the loop when maintenance is not due.
Resume(allowed, items) ==
  IF stop /\ items = <<>> THEN "closing" ELSE IF allowed THEN "idle" ELSE "suspended"

\* discard_all, counted.
Discard == buffer' = <<>> /\ dropped' = dropped + Len(buffer)

\* _run_maintenance at the head of the loop: storage is permitted, or it is not, or it failed.
Maintain(allowed) ==
  /\ pc = "maintain" /\ Free /\ permitted' = allowed
  /\ IF allowed THEN UNCHANGED <<buffer, dropped>> ELSE Discard
  /\ pc' = Resume(allowed, IF allowed THEN buffer ELSE <<>>)
  /\ UNCHANGED <<persisted, batch, group, rows, stored>> /\ WriterKeeps

\* wait_for_item ends, by its timeout or by wake(), with nothing to take.
Wait ==
  /\ pc \in {"idle", "suspended"} /\ Free
  /\ pc = "idle" => buffer = <<>>
  /\ Discard /\ pc' \in {"maintain", Resume(permitted, <<>>)}
  /\ UNCHANGED <<persisted, batch, group, rows, permitted, stored>> /\ WriterKeeps

\* drain_nowait: as much as the batch has room for.
Drained ==
  LET room == BatchMax - Len(batch) IN IF Len(buffer) < room THEN Len(buffer) ELSE room

Take ==
  /\ pc \in {"idle", "gather"} /\ Free /\ Drained > 0
  /\ batch' = batch \o SubSeq(buffer, 1, Drained)
  /\ buffer' = SubSeq(buffer, 1 + Drained, Len(buffer))
  /\ pc' = "gather"
  /\ UNCHANGED <<totals, group, rows, permitted, stored>> /\ WriterKeeps

\* The batch is full, or its time is over; maintenance may be due first.
Gathered ==
  /\ pc = "gather" /\ Free /\ pc' \in {"recheck", "writing"}
  /\ UNCHANGED <<totals, buffer, batch, group, rows, permitted, stored>> /\ WriterKeeps

\* Mutant: the batch in hand is written although storage has just been suspended.
RecheckIgnored(allowed) ==
  /\ pc = "recheck" /\ Free /\ permitted' = allowed /\ pc' = "writing"
  /\ IF allowed THEN UNCHANGED <<buffer, dropped>> ELSE Discard
  /\ UNCHANGED <<persisted, batch, group, rows, stored>> /\ WriterKeeps

\* _run_maintenance with a batch in hand.
Recheck(allowed) ==
  /\ pc = "recheck" /\ Free /\ permitted' = allowed
  /\ IF allowed
       THEN pc' = "writing" /\ UNCHANGED <<buffer, dropped, batch>>
       ELSE /\ buffer' = <<>> /\ dropped' = dropped + Len(buffer) + Len(batch)
            /\ batch' = <<>> /\ pc' = Resume(FALSE, <<>>)
  /\ UNCHANGED <<persisted, group, rows, stored>> /\ WriterKeeps

Group == {i \in 1..Len(batch) : batch[i].kind = group}

\* Mutant: a group that fails counts as written.
ReportedAlways(ok) == rows \cup Group

Reported(ok) == IF ok THEN rows \cup Group ELSE rows

\* One COPY or upsert is atomic; one that fails, by its timeout, may have taken effect.
Copied(effect) == IF effect THEN stored \cup {batch[i] : i \in Group} ELSE stored

WriteTraces(effect, ok) ==
  /\ pc = "writing" /\ Free /\ group = "trace" /\ (ok => effect)
  /\ stored' = Copied(effect) /\ rows' = Reported(ok) /\ group' = "session"
  /\ UNCHANGED <<totals, buffer, batch, pc, permitted>> /\ WriterKeeps

\* record_batch_result.
Settle(written) ==
  /\ persisted' = persisted + Cardinality(written)
  /\ dropped' = dropped + Len(batch) - Cardinality(written)
  /\ batch' = <<>> /\ rows' = {} /\ group' = "trace"

WriteSessions(effect, ok) ==
  /\ pc = "writing" /\ Free /\ group = "session" /\ (ok => effect)
  /\ stored' = Copied(effect) /\ Settle(Reported(ok))
  /\ pc' \in {"maintain", Resume(permitted, buffer)}
  /\ UNCHANGED <<buffer, permitted>> /\ WriterKeeps
----------------------------------------------------------------------------
(* close(). *)

DiscardOnce ==
  /\ accounted' = TRUE
  /\ IF accounted THEN UNCHANGED <<buffer, dropped>> ELSE Discard

\* The readers have been cancelled and awaited: no session is open.
Stop ==
  /\ ~open /\ ~stop /\ stop' = TRUE /\ closer' = "waiting"
  /\ UNCHANGED <<accounted, reader, totals, buffer, writer>>

TimesOut ==
  /\ closer = "waiting" /\ pc # "done" /\ closer' = "cancelling"
  /\ UNCHANGED <<stop, accounted, reader, totals, buffer, writer>>

\* The writer ends, and with it what is left in the buffer.
WriterEnds ==
  /\ pc = "closing" /\ pc' = "done" /\ DiscardOnce
  /\ UNCHANGED <<persisted, batch, group, rows, permitted, stored, stop, closer, reader>>

\* Mutant: the batch in hand is forgotten.
CancelledSilently ==
  /\ ~Free /\ pc \notin {"closing", "done"} /\ pc' = "closing"
  /\ batch' = <<>> /\ rows' = {} /\ group' = "trace"
  /\ UNCHANGED <<totals, buffer, permitted, stored>> /\ WriterKeeps

\* Mutant: a cancellation is handled like the failure of a batch.
CancelledSwallowed ==
  /\ ~Free /\ pc \notin {"closing", "done"} /\ pc' = "maintain"
  /\ \E effect \in BOOLEAN : stored' = Copied(effect /\ pc = "writing")
  /\ Settle(rows)
  /\ UNCHANGED <<buffer, permitted>> /\ WriterKeeps

\* CancelledError at any await; the group being written may have taken effect.
Cancelled ==
  /\ ~Free /\ pc \notin {"closing", "done"} /\ pc' = "closing"
  /\ \E effect \in BOOLEAN : stored' = Copied(effect /\ pc = "writing")
  /\ Settle(rows)
  /\ UNCHANGED <<buffer, permitted>> /\ WriterKeeps

\* close() returns: the writer is done, or has not obeyed in time.
Closes ==
  /\ \/ closer = "waiting" /\ pc = "done"
     \/ closer = "cancelling"
  /\ closer' = "closed" /\ DiscardOnce
  /\ UNCHANGED <<stop, persisted, reader, writer>>
----------------------------------------------------------------------------
Reader == \/ Connect \/ SealIdle \/ Disconnect
          \/ \E b \in Buckets : ReceiveLate(b) \/ ReceiveFirst(b) \/ ReceiveSame(b) \/ ReceiveNext(b)

Write == \E effect, ok \in BOOLEAN : WriteTraces(effect, ok) \/ WriteSessions(effect, ok)

Writer == \/ \E allowed \in BOOLEAN : Maintain(allowed) \/ Recheck(allowed)
          \/ Wait \/ Take \/ Gathered \/ Write \/ WriterEnds \/ Cancelled

Closer == Stop \/ TimesOut \/ Closes

Next == Reader \/ Writer \/ Closer

Spec == Init /\ [][Next]_vars

\* The writer runs, every await of it and of close() ends.
Fairness == WF_vars(Writer) /\ WF_vars(TimesOut) /\ WF_vars(Closes)

FairSpec == Spec /\ Fairness
----------------------------------------------------------------------------
(* What must hold. *)

\* Every accepted trade and every session record is in exactly one place: coalesced, pending,
\* buffered, in the batch, persisted or dropped.  No path of failure, suspension, overflow or
\* cancellation counts one twice or forgets one.
Accounted ==
  accepted + sessions =
    coalesced + (IF pending = -1 THEN 0 ELSE 1) + Len(buffer) + Len(batch) + persisted + dropped

Held == {buffer[i] : i \in 1..Len(buffer)} \cup {batch[i] : i \in 1..Len(batch)} \cup stored

\* A connection has one trace for a bucket, although the wall clock may step back: what is
\* sealed is neither stored nor on its way.
OneTracePerBucket ==
  [][(open /\ pending # -1 /\ pending' # pending) => Trace(pending) \notin Held]_vars

\* records_persisted_total claims no record that has not taken effect in PostgreSQL.
PersistedIsTrue == persisted + Cardinality(rows) <= Cardinality(stored)

\* After maintenance has suspended storage nothing more is stored until it resumes.
SuspendedStoresNothing == [][stored' # stored => permitted]_vars

\* close() returns and the writer ends, whatever it was doing; nothing is left in the buffer.
StopCompletes == stop ~> (closer = "closed" /\ pc = "done" /\ buffer = <<>>)
=============================================================================
