---------------------------- MODULE Microstructure ----------------------------
(***************************************************************************)
(* One-second rows of the Binance microstructure: readers stamp what they  *)
(* receive and offer it to a bounded queue; the aggregate worker heaps it  *)
(* by that stamp, closes each second once it is over, publishes the row to *)
(* Redis and queues it for PostgreSQL; a supervisor restarts the readers   *)
(* and the worker, and rebases their state, when one of them fails.        *)
(*                                                                         *)
(* The unit of time is the second of a row: row s covers [s, s + 1) and is *)
(* closed at s + 1 or later.  A frame is its number.  What a row says of   *)
(* prices and sizes is left out: kept are which frames it counts and       *)
(* whether it calls itself healthy.                                        *)
(***************************************************************************)
EXTENDS Integers, Sequences, FiniteSets, SequencesExt

CONSTANTS
  Core,        \* the socket of the core collector, which this runtime does not restart
  Own,         \* the sockets of this runtime
  None,
  QueueMax, RowsMax,      \* places in the queue of events and in that of rows
  Cooldown,               \* 5 s after a gap
  MaxNow, MaxFrames, MaxFailures   \* bounds

Sources == Own \cup {Core}
Never   == -1     \* a time that no clock shows

ASSUME MicrostructureAssumption ==
  /\ Core \notin Own /\ None \notin Sources
  /\ {QueueMax, RowsMax, Cooldown} \subseteq Nat \ {0}

VARIABLES
  now, link,              \* the wall clock; each socket: "down", "open", or "closing" in a handshake
  events, lostAt,         \* the queue; _overflow_error_received_ms, or Never
  worker,                 \* "runs", "publishes", "fails", "sleeps", "stops" or "ended"
  pendingEvents, next, last,    \* the worker's heap, next_boundary_ms and last_finalized_boundary_ms
  state,                  \* CollectorState
  hand, rows, writing,    \* the row between its end and its queue, the queue, the writer's row
  sent, spent,            \* frames received and faults so far
  (* History, of the second of the latest row and of those since: *)
  received, row,          \* frames and when they were received; the row
  blind, doubtful,        \* seconds not fully observed (below); in which a marker was missing
  due, gone,              \* rows neither stored nor reported; the newest that was
  strayed, buried         \* sources whose last marker was refused; Core's went down with a worker

heap == <<pendingEvents, next, last>>
history == <<hand, rows, writing, due, gone>>
ghosts == <<received, row, blind, doubtful, strayed, buried>>
microVars == <<now, link, events, lostAt, worker, heap, state, history, sent, spent, ghosts>>

RowSeconds == 0..(MaxNow + 1)
Event   == [at : RowSeconds, kind : {"frame", "error", "opened", "closed"}, source : Sources \cup {None},
            frame : 0..MaxFrames]
Row     == [second : RowSeconds, frames : SUBSET (1..MaxFrames), healthy : BOOLEAN, owing : BOOLEAN]

MicroTypeOK ==
  /\ now \in 0..MaxNow /\ link \in [Sources -> {"down", "open", "closing"}]
  /\ events \in Seq(Event) /\ Len(events) <= QueueMax /\ lostAt \in RowSeconds \cup {Never}
  /\ worker \in {"runs", "publishes", "fails", "sleeps", "stops", "ended"}
  /\ pendingEvents \in Seq(Event) /\ next \in RowSeconds /\ last \in RowSeconds \cup {Never}
  /\ state \in [conn : [Sources -> BOOLEAN], until : Int, sample : RowSeconds \cup {Never},
                counted : SUBSET (1..MaxFrames)]
  /\ hand \in RowSeconds \cup {Never} /\ writing \in RowSeconds \cup {Never}
  /\ rows \in Seq(RowSeconds) /\ Len(rows) <= RowsMax
  /\ sent \in 0..MaxFrames /\ spent \in 0..MaxFailures
  /\ received \subseteq (1..sent) \X RowSeconds /\ row \in Row /\ blind \cup doubtful \subseteq RowSeconds
  /\ due \subseteq RowSeconds /\ gone \in RowSeconds \cup {Never}
  /\ strayed \subseteq Sources /\ buried \in BOOLEAN

MicroInit ==
  /\ now = 0 /\ link = [s \in Sources |-> "down"]
  /\ events = <<>> /\ lostAt = Never
  /\ worker = "runs" /\ pendingEvents = <<>> /\ next = 1 /\ last = Never
  /\ state = [conn |-> [s \in Sources |-> FALSE], until |-> 0, sample |-> Never, counted |-> {}]
  /\ hand = Never /\ rows = <<>> /\ writing = Never
  /\ sent = 0 /\ spent = 0 /\ received = {} /\ blind = {0} /\ doubtful = {}
  /\ row = [second |-> 0, frames |-> {}, healthy |-> FALSE, owing |-> FALSE]
  /\ due = {} /\ gone = Never /\ strayed = {} /\ buried = FALSE

Max2(a, b) == IF a >= b THEN a ELSE b
Spends == spent < MaxFailures /\ spent' = spent + 1
-----------------------------------------------------------------------------
(* CollectorState: what one event does to it. *)

GapAt(m, t) == [m EXCEPT !.until = Max2(@, t + Cooldown)]

\* Mutant: only a gap starts a cooldown.
OpenedAtOnce(m, e) == [m EXCEPT !.conn[e.source] = TRUE]

\* connection_opened: the second of a connect is observed in part.
Opened(m, e) ==
  [m EXCEPT !.until = IF m.conn[e.source] THEN @ ELSE Max2(@, e.at + Cooldown),
            !.conn[e.source] = TRUE]

Closed(m, e) == [GapAt(m, e.at) EXCEPT !.conn[e.source] = FALSE]

\* handle_*: the frame counts in the open interval.
Counted(m, e) == [m EXCEPT !.counted = @ \cup {e.frame}]

Apply(m, e) ==
  CASE e.kind = "frame"  -> Counted(m, e)
    [] e.kind = "opened" -> Opened(m, e)
    [] e.kind = "closed" -> Closed(m, e)
    [] e.kind = "error"  -> GapAt(m, e.at)

ApplyAll(m, s) == FoldLeft(Apply, m, s)
IsMarker(e) == e.kind \in {"opened", "closed"}

\* snapshot: the row of [b - 1, b), closed at t, calls itself healthy, unless one of the ages, lags
\* or values in it says otherwise.
IsHealthy(m, b, t) ==
  /\ t = b                        \* at most half a second late
  /\ m.sample = b - 2             \* the row before is that of the second before
  /\ b > m.until
  /\ \A s \in Sources : m.conn[s]
-----------------------------------------------------------------------------
(* The readers and the sink. *)

Marker(kind, s) == [at |-> now, kind |-> kind, source |-> s, frame |-> 0]
Frame(s, f) == [at |-> now, kind |-> "frame", source |-> s, frame |-> f]
ErrorAt(t) == [at |-> t, kind |-> "error", source |-> None, frame |-> 0]

\* Mutant: a refused event is forgotten.
OfferUnremembered(e) ==
  IF Len(events) < QueueMax THEN events' = Append(events, e) /\ UNCHANGED lostAt
                            ELSE UNCHANGED <<events, lostAt>>

\* _offer: the marker of an earlier loss goes first; a full queue remembers the first loss.
Offer(e) ==
  LET full   == Len(events) = QueueMax
      queue  == IF lostAt = Never \/ full THEN events ELSE Append(events, ErrorAt(lostAt))
      owes   == lostAt # Never /\ full
      placed == ~owes /\ Len(queue) < QueueMax
  IN /\ events' = IF placed THEN Append(queue, e) ELSE queue
     /\ lostAt' = CASE placed -> Never [] owes -> lostAt [] OTHER -> e.at

Offered(e) == events' # <<>> /\ events'[Len(events')] = e /\ events' # events

\* A marker that is refused leaves the state in the dark until the socket's next one.
Transition(kind, s) ==
  /\ Offer(Marker(kind, s))
  /\ strayed' = IF Offered(Marker(kind, s)) THEN strayed \ {s} ELSE strayed \cup {s}
  /\ buried' = (buried /\ ~(s = Core /\ Offered(Marker(kind, s))))
  /\ doubtful' = IF strayed' = {} /\ ~buried' THEN doubtful ELSE doubtful \cup {now}
  /\ UNCHANGED <<worker, heap, state, history, sent, received, row>>

\* The core collector reads all the time; a reader of this runtime, while it is not restarting.
Reading(s) == worker \notin {"ended", "stops"} /\ (s = Core \/ worker \in {"runs", "publishes"})

Connects(s) ==
  /\ Reading(s) /\ link[s] = "down" /\ link' = [link EXCEPT ![s] = "open"] /\ Transition("opened", s)
  /\ UNCHANGED <<now, blind, spent>>

\* The peer has ended the connection: recv raises, and nothing is left to wait for.
Disconnects(s) ==
  /\ Reading(s) /\ link[s] = "open" /\ Spends /\ link' = [link EXCEPT ![s] = "down"]
  /\ Transition("closed", s) /\ blind' = blind \cup {now} /\ UNCHANGED now

\* The reader ends it, to reconnect in time or for an error: `async with` waits for the closing
\* handshake, up to ten seconds, and what still arrives is discarded.
BeginsClosing(s) ==
  /\ Reading(s) /\ link[s] = "open" /\ Spends /\ link' = [link EXCEPT ![s] = "closing"]
  /\ UNCHANGED <<now, events, lostAt, worker, heap, state, history, sent, ghosts>>

\* Mutant: a reader offers no marker after a handshake.
UnmarkedEnd(s) ==
  /\ Reading(s) \/ worker = "fails"
  /\ link[s] = "closing" /\ link' = [link EXCEPT ![s] = "down"] /\ blind' = blind \cup {now}
  /\ UNCHANGED <<now, events, lostAt, worker, heap, state, history, sent, spent, received, row, doubtful, strayed, buried>>

\* The handshake is over, also for a cancelled reader: only now is the end offered, at this time.
HandshakeEnds(s) ==
  /\ Reading(s) \/ worker = "fails"
  /\ link[s] = "closing" /\ link' = [link EXCEPT ![s] = "down"] /\ Transition("closed", s)
  /\ blind' = blind \cup {now} /\ UNCHANGED <<now, spent>>

\* A reader of this runtime reports a failed attempt as an end, the core collector does not.
ConnectFails(s) ==
  /\ Reading(s) /\ s \in Own /\ link[s] = "down" /\ Spends /\ Transition("closed", s)
  /\ UNCHANGED <<now, link, blind>>

Receives(s) ==
  /\ Reading(s) /\ link[s] = "open" /\ sent < MaxFrames /\ sent' = sent + 1
  /\ received' = received \cup {<<sent', now>>}
  /\ Offer(Frame(s, sent'))
  /\ UNCHANGED <<now, link, worker, heap, state, history, spent, row, blind, doubtful, strayed, buried>>

\* Mutant: a frame that cannot be read is skipped.
SkipsSilently(s) ==
  /\ Reading(s) /\ link[s] = "open" /\ Spends /\ blind' = blind \cup {now}
  /\ UNCHANGED <<events, lostAt, now, link, worker, heap, state, history, sent, received, row, doubtful, strayed, buried>>

\* A frame that cannot be read: its second cannot be whole.
Rejects(s) ==
  /\ Reading(s) /\ link[s] = "open" /\ Spends /\ Offer(ErrorAt(now)) /\ blind' = blind \cup {now}
  /\ UNCHANGED <<now, link, worker, heap, state, history, sent, received, row, doubtful, strayed, buried>>
-----------------------------------------------------------------------------
(* The aggregate worker. *)

\* The heap: by time of receipt, then in the order of the offers.
Insert(h, e) == SelectSeq(h, LAMBDA x : x.at <= e.at) \o <<e>> \o SelectSeq(h, LAMBDA x : x.at > e.at)

IsLate(e) == last # Never /\ e.at < last

\* _stage_pending_event: a late event is a gap of now, and is dropped.
Stage(w, e) == IF IsLate(e) THEN [w EXCEPT !.state = GapAt(@, now)] ELSE [w EXCEPT !.heap = Insert(@, e)]

StageAll == FoldLeft(Stage, [heap |-> pendingEvents, state |-> state], events)

\* One event, while its second is not over.
Stages ==
  /\ worker = "runs" /\ now < next /\ events # <<>>
  /\ LET w == Stage([heap |-> pendingEvents, state |-> state], Head(events)) IN
       pendingEvents' = w.heap /\ state' = w.state
  /\ events' = Tail(events)
  /\ UNCHANGED <<now, link, lostAt, worker, next, last, history, ghosts, sent, spent>>

\* Mutant: what was received after the boundary counts in the row before it.
ConsumedWhole(w) == [heap |-> <<>>, state |-> ApplyAll(w.state, w.heap)]

\* finalize_boundary up to its snapshot: of what precedes the interval only the markers count,
\* and it is a gap of this row.
Consumed(w) ==
  LET early  == SelectSeq(w.heap, LAMBDA x : x.at < next - 1)
      inside == SelectSeq(w.heap, LAMBDA x : x.at \in (next - 1)..(next - 1))
      marked == ApplyAll(w.state, SelectSeq(early, IsMarker))
  IN [heap |-> SelectSeq(w.heap, LAMBDA x : x.at >= next),
      state |-> ApplyAll(IF early = <<>> THEN marked ELSE GapAt(marked, next), inside)]

Snapshot(m) == [m EXCEPT !.counted = {}, !.sample = next - 1]

\* The second is over: everything queued is staged, and its row is made before any await.
Finalizes ==
  /\ worker = "runs" /\ next <= now
  /\ LET w == Consumed(StageAll) IN
       /\ pendingEvents' = w.heap /\ state' = Snapshot(w.state)
       /\ row' = [second |-> next - 1, frames |-> w.state.counted,
                   healthy |-> IsHealthy(w.state, next, now), owing |-> lostAt # Never]
  /\ received' = {x \in received : x[2] >= next - 1} /\ blind' = {s \in blind : s >= next - 1}
  /\ doubtful' = {s \in doubtful : s >= next - 1}
  /\ due' = due \cup {next - 1}
  /\ events' = <<>> /\ last' = next /\ next' = next + 1 /\ hand' = next - 1 /\ worker' = "publishes"
  /\ UNCHANGED <<now, link, lostAt, rows, writing, gone, sent, spent, strayed, buried>>

\* These rows are stored, or their loss is reported.
Accounts(these) ==
  /\ due' = due \ these
  /\ gone' \in these \cup {gone} /\ \A g \in these \cup {gone} : g <= gone'

\* Mutant: at capacity the new row is dropped.
EnqueueOldest ==
  IF Len(rows) < RowsMax THEN rows' = Append(rows, hand) /\ UNCHANGED <<due, gone>>
                         ELSE UNCHANGED rows /\ Accounts({hand})

\* enqueue_finalized_microstructure_row: at capacity the oldest row is dropped and reported.
Enqueue ==
  IF Len(rows) < RowsMax THEN rows' = Append(rows, hand) /\ UNCHANGED <<due, gone>>
                         ELSE rows' = Append(Tail(rows), hand) /\ Accounts({Head(rows)})

\* Redis has answered, or failed: the row is queued for PostgreSQL.
Published ==
  /\ worker = "publishes" /\ worker' = "runs" /\ Enqueue /\ hand' = Never
  /\ UNCHANGED <<now, link, events, lostAt, heap, state, writing, sent, spent, ghosts>>
-----------------------------------------------------------------------------
(* The writer of rows. *)

WriterKeeps == UNCHANGED <<now, link, events, lostAt, worker, heap, state, hand, sent, spent, ghosts>>

Takes ==
  /\ worker # "ended" /\ writing = Never /\ rows # <<>>
  /\ writing' = Head(rows) /\ rows' = Tail(rows) /\ UNCHANGED <<due, gone>> /\ WriterKeeps

\* The row is stored, skipped while the size gate is closed, or its failure is reported.
Concludes ==
  /\ worker # "ended" /\ writing # Never
  /\ Accounts({writing}) /\ writing' = Never /\ UNCHANGED rows /\ WriterKeeps
-----------------------------------------------------------------------------
(* Failure, rebase and shutdown. *)

\* The heap is lost, and the supervisor cancels its readers; it waits for their handshakes, whose
\* markers go into the queue that it will drain.
Fails(lost) ==
  /\ worker = "runs" /\ Spends /\ worker' = "fails" /\ pendingEvents' = <<>>
  /\ link' = [s \in Sources |-> IF s \in Own /\ link[s] = "open" THEN "closing" ELSE link[s]]
  /\ blind' = blind \cup {now}
  /\ buried' = (buried \/ \E i \in DOMAIN lost : IsMarker(lost[i]) /\ lost[i].source = Core)
  /\ doubtful' = IF buried' THEN doubtful \cup {now} ELSE doubtful
  /\ UNCHANGED <<now, lostAt, next, last, history, sent, received, row, strayed>>

\* The worker fails at a frame that it applies; those before it have been applied.
FailsApplying ==
  /\ next <= now /\ events' = <<>>
  /\ LET w == StageAll
         early == SelectSeq(w.heap, LAMBDA x : x.at < next - 1)
         inside == SelectSeq(w.heap, LAMBDA x : x.at = next - 1)
         after(n) == SubSeq(inside, n + 1, Len(inside)) \o SelectSeq(w.heap, LAMBDA x : x.at >= next)
     IN \E n \in 0..(Len(inside) - 1) :
          /\ inside[n + 1].kind = "frame"
          /\ state' = ApplyAll(ApplyAll(w.state, SelectSeq(early, IsMarker)), SubSeq(inside, 1, n))
          /\ Fails(after(n))

\* Mutant: the sockets that are closed keep their state.
ResetKeepsSockets(m) == [GapAt(m, now) EXCEPT !.counted = {}]

\* reset_after_runtime_gap.
ResetAfterGap(m) ==
  [GapAt(m, now) EXCEPT !.counted = {}, !.conn = [s \in Sources |-> s = Core /\ m.conn[s]]]

\* _rebase_after_worker_failure: only what is still in the queue says where the core socket is.
Rebase ==
  LET core == SelectSeq(events, LAMBDA x : IsMarker(x) /\ x.source = Core)
      sorted == FoldLeft(Insert, <<>>, core)
  IN /\ worker' = "sleeps"
     /\ state' = LET m == ResetAfterGap(state) IN IF core = <<>> THEN m ELSE Apply(m, sorted[Len(sorted)])
     /\ strayed' = strayed \ Own /\ buried' = (buried /\ core = <<>>)
     /\ events' = <<>> /\ lostAt' = Never
     /\ UNCHANGED <<now, link, heap, history, sent, spent, received, row, blind, doubtful>>

\* Mutant: the supervisor does not wait for the readers it has cancelled.
RebasesAtOnce == worker = "fails" /\ Rebase

\* The cancelled readers are gone.
Rebases == worker = "fails" /\ (\A s \in Own : link[s] = "down") /\ Rebase

\* After the delay: new readers, and a worker that starts with the second after this one.
Restarts ==
  /\ worker = "sleeps" /\ worker' = "runs" /\ next' = now + 1 /\ last' = Never
  /\ UNCHANGED <<now, link, events, lostAt, pendingEvents, state, history, sent, spent, ghosts>>

\* run() is cancelled, and with it the publication of a row; the writer has some seconds more.
Stops ==
  /\ worker \notin {"stops", "ended"} /\ worker' = "stops"
  /\ hand' = Never /\ due' = due \ {hand}
  /\ UNCHANGED <<now, link, events, lostAt, heap, state, rows, writing, gone, sent, spent, ghosts>>

\* Mutant: the row that the cancelled writer held is forgotten.
DiscardsQueued ==
  /\ worker = "stops" /\ worker' = "ended"
  /\ Accounts(ToSet(rows)) /\ rows' = <<>> /\ writing' = Never
  /\ UNCHANGED <<now, link, events, lostAt, heap, state, hand, sent, spent, ghosts>>

\* The writer is cancelled and puts its row back; what the queue still holds is reported.
Discards ==
  /\ worker = "stops" /\ worker' = "ended"
  /\ Accounts(ToSet(rows) \cup ({writing} \ {Never})) /\ rows' = <<>> /\ writing' = Never
  /\ UNCHANGED <<now, link, events, lostAt, heap, state, hand, sent, spent, ghosts>>

\* Time passes.  A second in which a socket is down is not observed; one at whose end a handshake
\* still goes on has no marker that could say so, and is left out of `blind`.
Tick ==
  /\ now < MaxNow /\ worker \notin {"stops", "ended"} /\ now' = now + 1
  /\ blind' = IF \A s \in Sources : link[s] # "down" THEN blind ELSE blind \cup {now + 1}
  /\ doubtful' = IF strayed = {} /\ ~buried THEN doubtful ELSE doubtful \cup {now + 1}
  /\ UNCHANGED <<link, events, lostAt, worker, heap, state, history, sent, spent, received, row, strayed, buried>>
-----------------------------------------------------------------------------
Readers   ==
  \E s \in Sources :
    Connects(s) \/ Disconnects(s) \/ BeginsClosing(s) \/ HandshakeEnds(s) \/ ConnectFails(s) \/ Receives(s) \/ Rejects(s)
Aggregate == Stages \/ Finalizes \/ Published
Writer    == Takes \/ Concludes
Runtime   == FailsApplying \/ Rebases \/ Restarts \/ Stops \/ Discards

MicroNext == Tick \/ Readers \/ Aggregate \/ Writer \/ Runtime

MicroSpec == MicroInit /\ [][MicroNext]_microVars
-----------------------------------------------------------------------------
(* What must hold. *)

\* README.md:226 and the health fields: a row counts only frames taken in its own second, each at
\* most once; a row that calls itself healthy counts all of them, and every socket was read
\* and every frame legible in the whole second.  Excepted are rows closed while a full queue
\* still owes the marker of a loss, which then comes with the next event, for a later row, and
\* seconds at whose end a closing handshake still went on (see Observed).
HealthyIsWhole ==
  LET mine == {x[1] : x \in {y \in received : y[2] = row.second}} IN
    /\ MicroTypeOK
    /\ row.frames \subseteq mine
    /\ row.healthy /\ ~row.owing => row.frames = mine /\ row.second \notin blind \ doubtful

\* The state, once it has taken in the heap and the queue, says of a socket whether it is gone,
\* unless its last marker was refused by a full queue, or went down with a worker.
FollowsSockets ==
  \A s \in Sources \ (strayed \cup (IF buried THEN {Core} ELSE {})) :
    worker \in {"runs", "publishes"} => ApplyAll(state, pendingEvents \o events).conn[s] = (link[s] # "down")

\* README.md:133-136: no finalised row vanishes: it is stored, or what became of it is reported,
\* or it is on its way, oldest first; only the row that was being published at a shutdown is cut off.
HistoryKept ==
  LET way == (IF writing = Never THEN <<>> ELSE <<writing>>) \o rows \o (IF hand = Never THEN <<>> ELSE <<hand>>)
  IN /\ due = ToSet(way)
     /\ \A i, j \in DOMAIN way : i < j => way[i] < way[j]
     /\ \A i \in DOMAIN rows : rows[i] > gone

\* Refuted.  What README.md:575-577 invites a reader to conclude: a row that calls itself healthy is
\* made while every socket is read.
Observed == [][Finalizes => (row'.healthy => \A s \in Sources : link[s] # "closing")]_microVars

\* Refuted.  The comment at binance_microstructure_collector.py:1181-1186: after a rebase the state
\* says of the core socket what it is, unless its marker had been refused by the queue.
Reconciles == [][Rebases => (Core \notin strayed => state'.conn[Core] = (link[Core] # "down"))]_microVars
=============================================================================
