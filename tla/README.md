# TLA+ models of the BTC price collector

The repository collects BTC prices from Binance and Polymarket, keeps the
newest ones in Redis and their history in PostgreSQL, and publishes short-term
forecasts ("ghost TWAP") whose every step is audited. This directory models the
parts of it in which the order of events decides whether the data can be
trusted. Paths below are relative to `src/price_collector/` unless they start
with `src/`.

## 1. The system

Four collector services and an API service, each one process with one asyncio
event loop, run under systemd with `Restart=always`; a timer runs the retention
pass each minute. Two rules run through the code: *live before historical
storage* (Redis first, PostgreSQL later, the first never waits for the second)
and *bounded queues with counted losses*.

| Part | State | Operations | Hard behaviour |
| --- | --- | --- | --- |
| Ghost TWAP runtime `ghost_twap_runtime.py`, spool, store | records in memory, dirty set, one pending publication, suspensions, late prices, spool files, audit rows, the campaign | issue, publish, audit, note a late price, measure the guard, start/recover, stop, close | fsync in threads, cancellation, crashes between spool and PostgreSQL, a Redis command whose effect is unknown |
| Ghost engine `ghost_twap.py` | rolling windows of prices, decisions of a second | accept a price, gap, tick | clock faults, reconnects |
| Ghost SSE hub `ghost_twap_stream.py` | the current payload, its deadline, run and generation, a slot per client, one pub/sub connection | subscribe, read, publish, expire, resync | delayed and lost messages, slow clients, half-open connections |
| Ghost retention and archive `ghost_twap_retention.py` | compacted rows, archived days | compact, archive, delete | races with late prices |
| Raw capture `raw_capture.py` | bounded queue, the open 100 ms bucket, sealed history, the batch in hand | offer, drain, write, maintain, suspend, close | cancellation, uncertain COPY, wall clock steps |
| Chainlink collector `polymarket_chainlink_collector.py` | latest sample, pending seconds, the sample in flight | accept, write live, write history, drain | corrections during a write, capacity, shutdown |
| TWAP relay `polymarket_twap.py` | durable queue with a reserve, sessions and gaps | accept, persist, finish a session, recover orphans | cancellation between Redis and the queue, saturation |
| Evidence `polymarket_evidence*.py` | metadata, control and quote queues, deferred session ends, losses, the pause of quotes | start, sample and end a session, poll a market, persist, retry, recover, close | partial failure, order of a session's records across two workers, recovery beside live sessions |
| Probability collector `polymarket_probability_collector.py` | current and next task, the four quotes of a market, resolutions, backfill cursor | discover, preload, roll over, sample, resolve, reconcile, recover, stop | a failure at any await, cancellation while a task is drained, two sources of one fact |
| Microstructure `binance_microstructure*.py` | events by receipt, connection states, one second being aggregated, rows to be stored, health | finalise, catch up, publish, store, rebase, stop | lateness, a full queue, cancellation, a worker that fails with its heap |
| Spot and futures collectors | last sample; streams and their sequence numbers | poll, read, reconnect | sequence gaps |
| History retention `retention.py` | expired rows, per-pass error and leaf sets | one batch per table and lap | foreign keys, concurrent inserts, deadlines |
| API, dashboard, config, market windows, research | none that lasts | reads | – |

Interaction: the futures collector offers trades to raw capture and prices to
the ghost engine by direct calls that never wait; the engine hands decisions to
the runtime; the runtime spools, publishes through one Redis script and audits;
Redis pub/sub reaches the hub in the API process; every collector and the
retention pass meet only in PostgreSQL.

`PROJECT.json` lists the components with what is and is not modelled, the
hazards at their lines, and for each definition the lines it stands for.

## 2. Modules

| Module | Models | Composes |
| --- | --- | --- |
| `AuditRecord` | the record of one prediction, its legal transitions, what the spool and the store accept | – |
| `AuditLedger` | abstract: what an audit promises – per decision a record that only ever says more | extends `AuditRecord` |
| `GhostAudit` | the runtime's tasks around the spool, the store, the campaign and Redis | extends `AuditRecord`, refines `AuditLedger` |
| `GhostStream` | the hub, its subscription, Redis, the producer and clients | – |
| `RawCapture` | queue, trace builder, writer, maintenance and close | – |
| `ChainlinkDelivery` | reader, delivery state, live and history worker, shutdown | – |
| `TwapDelivery` | reader, durable queue, writer, recovery of sessions, shutdown and restart | – |
| `HistoryRetention` | the pass over all tables, foreign keys, concurrent writers | – |
| `ProbabilityCollector` | run_collector with its current and next task, the samples of a market and their writes, SIGTERM | – |
| `MarketResolution` | rows of market results, written by the socket and by the reconciler; backfill and pages of due rows | – |
| `EvidenceWriter` | quote sessions, three queues, losses, two workers, size pause, recovery | – |
| `Microstructure` | sockets, event queue, finalisation of seconds, queue of rows, rebase | – |
| `MC*` | constants for TLC | one module each |
| `*_proofs` | theorems | one module each |

A step of a model is the code between two awaits of one task. A thread or a
server acts between two steps; where its answer can be lost, the model lets the
effect happen and the answer not. State and actions carry the source's names,
or the comment at the variable gives it; a comment that begins with *Mutant*
marks a variant of the definition after it with a plausible mistake, which
shows that the properties notice it and is used by nothing else.

### GhostAudit
`row`, `dirty`, `pending` are `records`, `_dirty` and `_pending_publication`;
`pub` and `aud` say where the publication and the audit task await and which
copy of a record they hold; `spool`, `db`, `durable`, `durStop` and `redis`
survive a crash. Publication is `PublishIntent` → spool → `PublishAttempt` →
the Redis command (`RedisApplies`, at any time up to its end) → `PublishEnds`,
or a cancellation or timeout that leaves the result open. The audit task takes
a copy (`AuditBegin`), spools, persists and removes it, and clears `dirty` only
for the version it wrote. `Crash` forgets everything but the durable variables;
`Start` replays the outbox.
`campDirty` asks for a save of `campaign.json`: a stop does, and so does each check of
`_can_issue` once the last save is thirty seconds old, which the model lets happen at
any check (`CheckpointDue`, or with `Issue`). A save that fails suspends like any
other write.
Left out: the value of `last_wall_ms`, `clock_anomaly` as a data field, future
targets, paging of late rows, `reconcile_compacted`, the rate limit of log
records. The engine and its prices are inputs.

### GhostStream
`key` and `wire` are Redis and what it has not delivered; `link`, `pipe`,
`queue` the subscription, its socket and the hub's buffer; `snapshot` what the
hub shows; `pend`, `out` and `told` a client's slot and what it has been sent.
Left out: frame sequence numbers and skip counters, the parsing of payloads
(they are good, expired or `Bad`), what happens outside once the hub is closed.
Wall and monotonic time are one clock.
The hub knows one producer run at a time, so `OneStory` compares what is shown
with what was shown before of the run it follows (`last`). A late command of a
former run that passes for a new producer, even one that is already stale and
never shown, ends the comparison: with three commands and two instants TLC then
shows an older decision of the run that the hub returns to, in a new generation
and with a resync.

### RawCapture
`pending` is the open bucket, `buffer` the queue, `batch` the writer's hand;
counters are those of the code. `stored` and `rows` distinguish what PostgreSQL
has from what the writer knows.
Left out: partition creation and deletion, records that fail validation,
session counters; the history of sealed buckets is unbounded here and an LRU of
1,024 connections in the code. A session's two rows count as two records. The
Chainlink group of a batch takes the same path as the trace group.

### ChainlinkDelivery
A sample is its sequence number; `pending` the numbers in `_history_pending`,
whose order is that of the numbers; `young` the ones received less than the
settle delay ago. A failed write may have been committed. `Stop` is any end of
`run_collector`.
Left out: offers to the ghost runtime and raw capture (inputs of the two
modules above), the outcome of the Redis write (only that it was attempted
counts in the code), a wall clock that steps back and makes a sample young
again, cancellation at a point where the code holds nothing.

### TwapDelivery
An event is the number of an accepted message in its session (the code numbers
all frames, and counts the accepted ones). `reader.at` is the await of
`polymarket_twap_reader_loop`: `barrier` (`session_persisted.wait`), `recv`,
`live` (the shielded Redis attempt), `saving` (the same after a cancellation),
`closing` (leaving the socket). `queue` and `hand` are `records` and the
writer's record; `session`, `total`, `gaps` and `stored` the three tables;
`todo` and `closing` the rows of the recovery query that are still to be closed.
A gap is known by the number of events that precede it. A write whose client is
cancelled or killed becomes a `stray` that PostgreSQL may commit at any later
time. `RedisOutlasts` says whether a Redis attempt may last longer than the
shutdown waits for the cancelled reader: not with the default settings, and so
not in `twap` (section 6 says what happens if it may).
Left out: the value in Redis, `price_samples` (the newest stored event of each
second), the counters of frames that are no price, the ping task, the reconnect
delay.

### HistoryRetention
A row is its table, its key, the parents it refers to and whether it is
older than the cutoff. `Select` is the snapshot of the `DELETE` with its
`SKIP LOCKED`; a collector's transaction (`Insert`) may come between it and
`Commit`; then the foreign keys of `schema.sql` (`Constrains`) decide, which are
not the same as the anti-joins of the predicates (`UnreferencedBy`): raw
sessions have no foreign key. What is written meanwhile is therefore assumed to
be constrained (`ArrivalsAreConstrained`: a transaction brings the parents of its
rows, and a parent is held by a foreign key of the row, or of one written with
it) except for raw events, which arrive for sessions that are not old: a
connection that is silent for ten days is the only source of an old and empty
one.
Left out: the report of what remains, the advisory lock against a second pass,
the cutoff moving between passes, the order within a batch (a batch is any
subset of its size, which includes the ordered one).

### ProbabilityCollector
`loop` is the await of `run_collector` (a discovery, the wait for the current
task, a preload, a drain, a pause) and `left` how long it may still last;
`tasks` has a place for the current task, the next one and the one being
started, each with the await of `collect_current_market` it is in. A sample is
taken in one step (`Sample`, the check of `build_probability_snapshot`) and
written in another: while its upsert is awaited (`writes`) the market may be
resolved, its window may end, the task may fail or be cancelled, the process may
die, and the row may land after any of these, until the `gather` in the finally
block has ended (`Closed`); a cancelled write takes effect or not. What the socket
and the REST primer quote, and when a quote is stale, is left to chance: a sample
may be taken at any time its window and the state of its market allow. The upsert
is unconditional, so that nothing in SQL keeps a late sample from replacing a
newer one of the same second; `SamplesInOrder` says that the order of the tasks
does. Only what a dead process had already sent can outlive it; a COMMIT that is
under way keeps its row locked, so the model lets it end with the process.

A tick is 10 s. The window, the grace, the pauses and the limits have
their defaults in ticks, with the preload of 45 s rounded up to five. `CallMax`, two
ticks, is the limit of a whole discovery (up to two GETs and an upsert, lines
754-801), of a connect, of a close and of the write of a result. It is an assumption: httpx's ten
seconds hold for each phase of a GET, not for all of it, and a write may take
`command_timeout`, 30 s. The theorem about the deadline holds for every `CallMax`
that `LimitsFit` admits, which with ticks of a second is up to 22 s. `quiet` counts the ticks since the
last fault, for `CollectionResumes`, which is liveness with a deadline: it bounds
the time after a fault at which the market in force must be collected again. The
longest ways back are named at `Overtaken`: a preloaded task that fails at once is
looked at only when the current one has ended, and a failure near the end of a
window may be overtaken by that end, so that what was found for the window is
cancelled, closed and followed by another pause, discovery and connect. In the
instance `Bound` is 25 ticks, a good four minutes, and it is exact for the model: with
`quiet >= Bound` TLC finds a way that takes that long. A pause of up to a minute
may come twice in it. The
reconciler is a module of its own, as the two tasks share nothing but rows.
Left out: HTTP and frames, the quotes and their ages, Decimal arithmetic, the live
display, counters.

### MarketResolution
`row` is `polymarket_btc_5m_resolutions`, a market's prices and results being
small numbers, and `MustValidate` … `Reschedule` the merge of
`upsert_polymarket_btc_5m_resolution` and the retry statement. A write lands a
tick after what it was computed from, so that the socket's and the
reconciler's may cross. `Missing` and `Due` are the two queries, in pages;
`Backoff` is the retry delay, with a ceiling. The venue decides each market
once; what it says of it may be absent, partial, early or of another rule.
A complete result is never replaced by a partial one, and an official one only
by itself (`OfficialStands`); but a partial official answer does not improve a
row that has not been validated, and a result told by the socket is dropped
when a row exists, both by design: the reconciler validates later.
Left out: the retention floor of the backfill, the payload hashes.

### EvidenceWriter
A record is `<<connection, kind>>`; `metadataQ`, `controlQ`, `quoteQ`,
`losses`, `overflow`, `deferred`, `live` and `pauseReason` are the fields of
`EvidenceWriter`; `meta` and `writing` what the two workers hold. A durable gap
accounts for a set of records (`told`); in the code it carries their number and
the first and last of their clocks. A transaction commits or does not, and in
either case the worker may be told that it failed.
Left out: responses and payload hashes, `market_windows`, the age limit of
recovery. Three limits of the code show in the bounds: `_live_connections`
remembers 64 connections, and the instance no fewer than are in play; a session
whose start was refused and of which only a tick size is durable is not closed
by recovery; and losses that are in memory die with a crash (a comment calls
the writer "not a crash-safe spool"), which is why `Settles` asks of an earlier
process only that its connections are closed.

### Microstructure
The unit of time is the second of a row. `events` is the queue,
`pendingEvents` the worker's heap, `state` the connection flags, the end of the cooldown, the last
second and the frames counted; `hand`, `rows` and `writing` follow a finished
row to PostgreSQL. The last group of variables is history, for the properties:
what was received when, which seconds were not fully observed, and which
markers of connections a full queue refused. Such a marker leaves the state
wrong until the socket's next one (`doubtful`), and a row that is closed while
the full queue still owes the marker of a loss may call itself healthy
(`owing`): the code accepts both, and the properties except them by name.
A connection ends in two ways. When the peer ends it, or it fails, `recv` raises
and the marker follows at once (`Disconnects`). When the reader ends it – the reconnect
after 23 h 50 min, a shutdown notice of Binance, an error in its own code, a
cancellation by the supervisor – `async with` first waits for the closing handshake,
up to ten seconds (`BeginsClosing`); what arrives meanwhile is discarded, and the
marker is offered, with the later time, when the handshake is over
(`HandshakeEnds`). A second that ends inside a handshake therefore has nothing
that could make its row unhealthy; `HealthyIsWhole` does not speak of such seconds,
and section 6 shows one. Nor does it speak of a half-open connection, which
only the ages in the row and the ping timeout reveal.
Left out: what a row says of prices and sizes and the ages and lags that can
only make it less healthy, the size gate and its hysteresis (a row is stored or
skipped with a report; the code throttles these reports), the local
retention, a wall clock that is set back.

## 3. What is checked

| Run | Question | Bounds |
| --- | --- | --- |
| `audit` | Does one decision with two horizons and two target times, prices of two values, keep its evidence true and complete and refine the ledger? | at most two events among prices, faults and restarts, in any order |
| `audit_live` | Do records settle and suspensions end? | one horizon, two events |
| `stream` | Does the hub tell each client one story, the last one, through two publications, faults and a producer restart? | two publications, two faults, no passing of time |
| `stream_time` | And with time: nothing stale, and a lost link is restored | one publication, two faults, four instants |
| `raw_capture` | Is every record counted, each trace unique, suspension obeyed and close complete? | three buckets, queue and batch of two, three trades, two connections |
| `delivery` | Is no sample forgotten, is live first, do the workers never wait for each other for ever, and is a silent feed replaced? | samples of two seconds, a store of one, one fault |
| `retention` | Do passes delete all that expired and nothing that is needed? | 20 rows of 12 tables, batches of one, one fault, three concurrent transactions |
| `twap` | Does every session end with a story that is complete or says where it is not, whatever is cancelled, killed, retried or committed late? | two sessions, three events, a queue of one and its reserve of three, two failures, two restarts or crashes |
| `collector` | Is there one task of a market, is collection resumed after any failure, and are samples written in the order in which they were taken? | two windows and the rollover, two faults, SIGTERM at any moment |
| `resolution` | Do official results stand, is nothing unlearned, and does no row starve another? | three markets, pages of one, one fault |
| `evidence` | Is an end of a session only written when it is true, and does everything settle? | two connections, one with a quote, one with a tick size and a gap of its own; queues of one, one loss range, batches of two, one fault |
| `micro` | Does a healthy row hold the whole second, does the state follow the sockets, and is every row stored or reported? | two sockets, four seconds, a queue of two events and one row, one frame, one fault |

Several properties are conjunctions of named parts, for one sweep each:
`EvidenceIsTrue` and `EvidenceIsKept` (`GhostAudit`), `NothingMissed` and
`SwitchesAreTold` (`GhostStream`), `ExpiryIsExact` (`HistoryRetention`),
`EndsAreTrue` (`EvidenceWriter`). The mutants break them at different parts.

The bounds are chosen so that each pair of adverse events meets in each order:
the hazards in `PROJECT.json` need two (a crash and a late answer, a correction
and a failed write), and a store or a queue of one or two already makes
eviction, refusal and overflow happen. Every property has a mutant that breaks
it. `CHECK_DEADLOCK FALSE` is set where the modelled process really ends
(shutdown) or the bound on events is spent; the retention pass is repeated for
ever and is checked for deadlock. In `TwapDelivery` the only stop is a runtime
whose sessions are all used.

Fairness. A task of an event loop that can run does run (weak fairness of the
tasks; systemd restarts a process that ended). Servers that have been asked
answer or time out: each await of the code has a timeout, or the query a
statement timeout. The audit task picks the dirty rows in the order of a list
it builds anew in each flush, so a row that keeps coming back into the set is
taken again and again (strong fairness of `AuditBegin`, `LateNoted`,
`FlushEnds` and `CampaignBegin`). Faults are never fair: they are bounded, and
may not happen. `SilentFeedReplaced` rests on time passing (`Passes`), and
`ExpiresInTheEnd` on the timer. In `EvidenceWriter` the two
workers are fair, each as a whole, and so are the minute of the loss timer and
the restart; nothing is assumed of the sessions. In `MarketResolution` fair are
the reconciler, the restart and the venue, which decides in the end: of a market
for which it never does, `EachSettles` asks nothing but that it delays no other.
`ProbabilityCollector` needs no fairness: awaits that have a timeout must end
before time passes beyond it (`Hurried`).

## 4. What is proved

All theorems hold for every value of the constants that satisfies the
assumptions beside them: positive queue, batch, page and backoff limits, times in
whole ticks with a preload shorter than a window, in the probability collector
limits that fit into a window as the defaults do (`LimitsFit`: the preload is
longer than two calls, and preload, grace, the longest pause and three calls are
together shorter than a window), finitely many markets to
resolve and rows to expire, rows that refer to each other as `schema.sql` lets
them and are inserted with their parents, quotes with names of their own, and a
`None` that is not one of the things it stands beside. The number
of decisions, prices, sessions, markets, quotes, faults and restarts is free; so
are the bounds that keep TLC's instances finite.

* **GhostAudit_proofs** – `TypeCorrect` and `ReferencesAlive`. `ReferencesLive`
  alone is not inductive: the invariant adds which task may hold which record
  in which phase, and that rows leave memory only when neither the publisher
  nor the audit task refers to them. `StopNeverUndone`: a persisted stop is
  never lost, and nothing is issued or sent after it; the invariant relates the
  durable stop to the process's own in each phase of a start.
  `AcknowledgedIsApplied`: an acknowledgement in any copy of a record means
  Redis applied the command; the invariant follows the status from the task's
  copy through memory, outbox and store.
  The larger part is about the audit's evidence. A decision has up to five
  copies of its record: the live row, those in the hands of the publication and
  the audit task, the outbox file and the row in PostgreSQL. Each of the
  properties about them is too weak to be inductive, because a step compares
  two copies that were taken at different times. What is inductive (`OneLine`)
  is that all copies lie on one *line*: of any two, one is what legal
  transitions with rising versions have made of the other, and the live row is
  at the end (`FamilyInv`). Around it: what each copy says of the wire and of a
  lead is true, and the newest durable copy announces whatever was sent
  (`WireInv`); what the status of a record in a task's hands is (`StatusInv`);
  what the audit task knows of the disk while it awaits (`HandInv`); that files
  belong to live rows and other stored rows are closed (`OwnInv`); that a row
  which is not dirty is stored (`CleanInv`); that saved rows are closed in the
  end (`EndInv`). From this follow `EvidenceNeverLies` (`EvidenceIsTrue`) and, as
  every step moves the ledger along its line, `LedgerImplemented`: initial
  states map to initial states of `AuditLedger` and each step to one of its
  steps or a stutter. `EvidenceNeverDropped` (`EvidenceIsKept`) adds where each
  price that was heard is (`HeardInv`): marked on the live row at once, and for
  a row that only PostgreSQL has, marked there or still waiting in `late`.
* **GhostStream_proofs** – every step of the hub's tasks shows nothing new, says
  that it has nothing, repeats, or adopts a payload (`HubSteps`), and the
  invariants are proved for these four. `OneStoryIsTold` (`OneStory`): what was
  shown last is of the run in `prod` and not newer (`StoryInv`), and what is
  shown is exactly `prod` in the present generation (`SnapshotInv`).
  `SwitchesAreAnnounced` (`SwitchesAreTold`): a client that was told of the
  present generation and has no resync since knows the run the hub follows
  (`RunInv`). `NothingStaleIsSent` (`NeverStale`) and `NothingIsMissed`
  (`NothingMissed`): a client's queue holds the snapshot or is empty after it
  (`SlotInv`), and while the subscription is whole the newest message that was not
  heard yet, or else the answer, is what Redis holds (`WireInv`).
* **RawCapture_proofs** – `TypeCorrect`, `NothingUncounted` (each record
  offered is in exactly one place; one lemma for each way in and out of the
  queue) and `TracesAreUnique` (a bucket that was sealed never comes back; the
  invariant bounds the buckets of all that is held by the open one).
  `SuspensionIsObeyed` needs that the writer has permission at each point from
  which it may write without asking again. `PersistedIsReal` (`PersistedIsTrue`): the counter
  never claims a record that PostgreSQL does not hold, whichever group failed,
  timed out after it had taken effect, or was cancelled. It may claim fewer: what
  took effect without an answer is counted as uncertain and is not sent again.
  It needs that no record is queued, held or stored twice (`OnceInv`), so that
  each record of a group adds a row.
* **SecondRows_proofs** – two stores of one row a second, each with a queue of its
  own before PostgreSQL. Of `ChainlinkDelivery`: `TypeCorrect` (the store never
  exceeds its capacity: eviction needs the oldest of a finite set to exist),
  `LiveBeforeHistory`, and `NewestIsNeverForgotten`. The last needs that
  PostgreSQL never holds a newer sample of a second than one still pending or
  in flight, otherwise a delayed write would put an older price over a newer.
  Of `Microstructure`: `NoRowVanishes` (`HistoryKept`). The invariant (`RowsInv`)
  has that the row being written, the queue and the row in hand rise in this
  order and are newer than what was given up (`RowsInOrder`), that only seconds
  before the next one to be finalised are among them (`RowsAreOver`), and that
  the row in hand is there exactly while the worker publishes; a full queue
  loses its oldest row, a rebase all of them, and each of these raises `gone`
  no further than the rows it took.
* **SessionHistory_proofs** – sessions from their start to their expiry. Of
  `TwapDelivery`: `LossIsNeverSilent` (`NoSilentLoss`), under the
  hypothesis `~RedisOutlasts` (section 6 shows that it is needed). The invariant
  has what is stored before each record of the queue, of the writer and of a
  commit that is still under way (`OrderInv`), that a finish is only of a session
  that the reader has left (`EndedInv`), that the reserve has room for what the
  reader still has to offer (`RoomInv`: a refused control would lose the
  finish), that a start is last in the line (`StartInv`) and that recovery runs
  alone (`RunInv`).
  Of `HistoryRetention`: `ExactExpiry` (`ExpiryIsExact`), for any rows and any
  concurrent transactions. That no row is deleted which another still needs
  is inductive only with what guards a batch between its snapshot and its
  commit: a row that has come to refer to one of the batch is constrained by a
  foreign key, or another row is (`BatchIsGuarded`), so that the commit is
  refused. That a complete pass without an error has left nothing it may
  delete (`CleanWhenDone`) rests on three more: a batch smaller than its limit
  is all that was left of the table (`BatchIsWhole`), a leaf that is
  taken as completed is dry and stays so, as no table's predicate makes its rows
  wait and what arrives during a pass is excused (`CompletedAreDry`), and
  a lap that made no progress so far has passed nothing that is left
  (`LapIsIdle`), which holds because parents wait until no leaf is pending.
* **MarketResolution_proofs** – `OfficialResultStands` and `NothingIsUnlearned`.
  The invariant says of each answer in the reconciler's hands that what it
  marks as validated is the complete official result (`HandInv`), and of the
  page that its head is the row in hand; a write then merges two sound rows.
* **ProbabilityCollector_proofs** – `OneTaskPerMarket` (`OneTaskEach`): what the
  loop knows at each of its awaits (`LoopInv`), the taken slots are those of the
  current and the next task (`TakenInv`), for different markets (`ApartInv`).
  `RowsInOrder` (`SamplesInOrder`) adds that each write in flight is of a task that
  has opened its socket and has not ended (`WritesInv`, kept by every cancellation,
  and by every release, as only a task that is done is released), and that it is
  the newest of its market (`Newest`): whoever takes a sample has no write in
  flight, and any other task's is of another market.
  `CollectionIsResumed` (`CollectionResumes`) is the deadline after a fault. Its
  invariant (`WayBack`) says at each await of the loop how long ago the last
  fault can be, given how late it is in the window: `Soon(t, q)`, that a loop
  which looks for a market at time `t`, after `q` quiet ticks, is in time, also
  if the window ends before the answer comes; `SoonFor`, that it is at each
  instant until a drain or a pause is over; `WatchInv`, `CurInv` and `NextInv`,
  that the present and the next task are well, or fail with time enough. It is
  proved in three layers: what a step of a task (`Goes`) and a tick (`Passes`)
  leave of these (`WatchGoes` … `NextTick`), how one turns into the next at
  an action of the loop (`FoundInTime`, `PreloadInTime`, `AwaitEnds`,
  `RollsInTime`, ...), and one lemma for each action.

* **EvidenceWriter_proofs** – `EndsTellAll` and `OnlyTrueEnds` (`EndsAreTrue`). An
  end overtakes nothing of its session: behind it in the control queue, and once
  it is deferred, there is no record of its connection (`OrderInv`); every other
  record of a live session is queued, in a worker's hands, durable or counted
  (`KeptInv`), and a loss is counted under its connection (`LossInv`); so that a
  batch with an end takes all that is left of the session with it (`BatchInv`).
  `OnlyTrueEnds` adds that recovery finds nothing durable of the sessions that run
  beside it but what is of connections the process remembers (`SpareInv`). It has
  a hypothesis, `FewBeforeRecovery`: no more connections are started before
  recovery is over than `LiveMax`, 64 in the code
  (`polymarket_evidence_store.py:468`). It is needed: with `LiveMax = 1` and two
  connections TLC lets the scan of orphans end a session that is open, whose
  start is still queued behind recovery while its quotes are durable.

Only model-checked: all liveness properties and the deadlines derived from
fairness (`SilentFeedReplaced`, `Settles`, `EachSettles`, `RecordsSettle`, ...),
as temporal reasoning with fairness is out
of the prover's reach, and `HealthyIsWhole` and `FollowsSockets` of
`Microstructure`, where the events of a second are folded over and filtered from
sequences: what a fold computes needs an induction over data, which the prover
cannot do.

## 5. Not modelled

Numerical content (prices, averages, probabilities, statistics), parsing and
formatting, logging and metrics, HTTP handlers and the dashboard, which keep no
state, configuration, and the research scripts. The engine of the ghost
forecasts and its retention and archive, and the spot collector, are left for
the plan below; the futures streams are modelled where they meet the ghost
runtime, raw capture and the microstructure.

## 6. Where the code and its comments part

Four claims of comments and docstrings, and one conclusion that the documentation
invites, are stated in the modules and are refuted by TLC in the instance named here. None loses data that the code counts
as safe, and no run includes them; to see a counterexample, put the definition
under `PROPERTY` (or `INVARIANT`) of the module's cfg with these constants.

`OneErrorStarvesNoOther` (`HistoryRetention`; the instance of `retention`,
`SPECIFICATION RetentionSpec`). `retention.py:149`: "One error cannot starve others." A leaf
table with an error never leaves `pending_leaves` (lines 173, 178, 188), and
while that set is not empty all six parent tables are passed over, also those
that have nothing to do with the failed leaf. The pass then makes no progress
and ends before its deadline. The next pass tries again.

`HandoffPreserves` (`TwapDelivery`; `RedisOutlasts = TRUE`).
`polymarket_twap.py:1123`: "The handoff preserves this event even when a planned
restart cancels the reader while Redis is in flight." The cancelled reader
waits for the attempt (line 634), but the shutdown waits for the reader at most
two seconds, or the shutdown timeout if that is shorter, and then cancels it
again (line 1237), which interrupts the wait. The event is lost, while the
finish of the session counts it. With a Redis timeout of 0.25 s, the default,
this does not happen; nothing ties the two settings together. With
`RedisOutlasts` false, `twap` shows the comment true.

`StopStarts` (`ProbabilityCollector`; the instance of `collector`). `polymarket_probability_collector.py:2473`:
"Let systemd SIGTERM drain evidence queues and close socket sessions." The
signal cancels `run_collector` once. If it arrives while a failed task is being
drained, `suppress(CancelledError)` in `cancel_and_drain_task` (line 2229, from
line 2445) takes that cancellation for the task's own; recovery goes on, starts
a new collection, and systemd kills the process after `TimeoutStopSec`. The
module models it as it is (`Swallowed`). Nearby, a preloaded task that fails is
not noticed before the current one has ended (line 2402), so its collection
resumes only after the grace period; `CollectionResumes` allows for that.

`Reconciles` (`Microstructure`; the instance of `micro`).
`binance_microstructure_collector.py:1181-1186`: the latest transition of the
core socket is reconciled, "so a drained `opened` marker cannot leave health
false until the socket's next proactive reconnect (about 23h50), and a `closed`
marker cannot leave a stale true state". Only the queue is searched; a marker
that the worker had already staged in its own heap is gone with it, and the
state keeps the opposite until the socket's next transition. `FollowsSockets`
excepts the core socket for that time (`buried`).

`Observed` (`Microstructure`; the instance of `micro`). `README.md:575-577` warns that
zero flow in an unhealthy interval does not establish that the market was quiet,
which invites the conclusion that in a healthy one it does. A reader that ends its own connection
(`binance_microstructure_collector.py:305`, `326`; `binance_futures_streams.py` likewise) discards
what arrives during the closing handshake and stamps the marker after it, so the
row of a second that ends in between can call itself healthy. A planned
reconnect comes once in 23 h 50 min, and a handshake mostly takes one round trip.

## 7. Plan

1. *Done*: the audit path, the SSE hub, raw capture, Chainlink delivery, TWAP
   delivery, history retention, the probability collector with market
   resolution, evidence, microstructure; the types and the safety properties of
   the audit, the hub, raw capture, Chainlink delivery, TWAP delivery, market
   resolution, the collector, evidence and history retention and that no row of the
   microstructure vanishes proved, and that the audit implements its ledger.
2. `AuditRecord` with compaction and archive; the engine's epochs.

The mapped definitions stand for a third of the implementation. Of the rest, most
is what section 5 names: queries, parsing, display and statistics.
