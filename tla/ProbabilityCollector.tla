------------------------ MODULE ProbabilityCollector ------------------------
(***************************************************************************)
(* The probability collector: run_collector keeps one collection task for  *)
(* the market of the present five minutes, preloads the next one, rolls    *)
(* over, recovers, and drains when it is stopped.  A collection task owns  *)
(* one CLOB socket and a sampler, whose rows are taken in one step and     *)
(* written in another.  What the socket quotes is left out: whether a      *)
(* snapshot is complete and fresh is left to chance.                       *)
(*                                                                         *)
(* Time is cut into ticks.  A discovery (two GETs and an upsert), a        *)
(* connect, a write of a result or a close lasts at most CallMax ticks,    *)
(* the write of a sample at most Notice.  A step is the code between two   *)
(* awaits of one task.                                                     *)
(***************************************************************************)
EXTENDS Integers, FiniteSets

CONSTANTS
  Window,      \* MARKET_MS
  Preload,     \* POLYMARKET_NEXT_MARKET_PRELOAD_SECONDS
  Grace,       \* POLYMARKET_RESOLUTION_WS_GRACE_SECONDS
  Notice,      \* a socket is read for at most this long before the sampler is looked at, and
               \* command_timeout: a sample is written for at most as long
  CallMax,     \* the time limit of a discovery, a connect, a close and the write of a result
  PauseMax,    \* the longest reconnect_delay_seconds
  StopMax,     \* TimeoutStopSec
  MaxNow, MaxFaults     \* bounds

Longest(spans) == CHOOSE d \in spans : \A e \in spans : e <= d

ASSUME PreloadFits == Window \in Nat /\ Preload \in 1..(Window - 1) /\ Grace \in Nat
ASSUME LimitsAreTicks ==
  /\ Notice \in Nat /\ CallMax \in Nat /\ PauseMax \in Nat /\ StopMax \in Nat
  /\ MaxNow \in Nat /\ MaxFaults \in Nat

\* As by default: less than half of the 45 s of preload for a discovery, 30 s until the sampler is
\* looked at, 30 s of grace, pauses of up to a minute in a window of five.
ASSUME LimitsFit ==
  /\ CallMax >= 1 /\ CallMax <= Notice /\ CallMax <= Grace /\ 2 * CallMax < Preload
  /\ Preload + Grace + PauseMax + 3 * CallMax < Window

VARIABLES
  now,
  loop,       \* where run_collector awaits
  left,       \* ticks this await may still last
  cur, nxt,   \* the slots of current_task and next_task, or NoTask
  target,     \* the window that is being discovered
  tasks,      \* the collection tasks
  writes,     \* the samples that are being written
  row,        \* the sample that was written last
  stop,       \* ticks until systemd kills the service after SIGTERM, or Never
  quiet,      \* ticks since the last fault
  faults

control == <<loop, left, cur, nxt, target>>
vars == <<now, control, tasks, writes, row, stop, quiet, faults>>

\* The longest ways back.  The preloaded task fails at once, which is looked at when the present
\* one has ended, spent its grace, persisted its result and closed; then a pause, a discovery
\* and a connect.  Or a task fails near the end of its window: until the discovery that the end
\* overtakes the failure was noticed, and a pause or the time from the preload on went by; what
\* was found is then cancelled, closed and followed by another pause, discovery and connect.
Overtaken == {Preload + Grace, Notice + CallMax + PauseMax, Notice + CallMax + Preload - 1}
Bound == Longest(Overtaken) + PauseMax + 4 * CallMax

Slots  == 1..3
NoTask == 0
Never  == -1

Task == [st : {"free", "opening", "open", "persisting", "closing",
               "returned", "failed", "cancelled"},
         out : {"returned", "failed", "cancelled"},    \* how a closing task will end
         win : Nat, left : 0..(CallMax + Notice),
         sampler : {"on", "failed"}]

Free == [st |-> "free", out |-> "returned", win |-> 0, left |-> 0, sampler |-> "on"]

\* The write of a sample: the task that took it, and history: whether it is the newest of its market.
Write == [by : Slots, win : Nat, left : 0..Notice, newest : BOOLEAN]

Calls   == {"finding", "preloading", "rejoining"}
Drains  == {"dropCur", "dropNext", "leaveCur", "leaveNext"}

TypeOK ==
  /\ now \in 0..MaxNow /\ left \in Nat
  /\ loop \in Calls \cup Drains \cup {"starting", "watching", "awaiting", "pausing", "down"}
  /\ cur \in Slots \cup {NoTask} /\ nxt \in Slots \cup {NoTask} /\ target \in Nat
  /\ tasks \in [Slots -> Task]
  /\ writes \subseteq Write /\ row \in [win : Nat, newest : BOOLEAN]
  /\ stop \in {Never} \cup 0..StopMax
  /\ quiet \in 0..(Bound + 1) /\ faults \in 0..MaxFaults

Init ==
  /\ now = 0 /\ loop = "starting" /\ left = 0 /\ cur = NoTask /\ nxt = NoTask /\ target = 0
  /\ tasks = [s \in Slots |-> Free]
  /\ writes = {} /\ row = [win |-> 0, newest |-> TRUE]
  /\ stop = Never /\ quiet = 0 /\ faults = 0

WindowOf(t)  == t \div Window
Start(w)     == w * Window
End(w)       == Start(w) + Window

Running(s) == tasks[s].st \in {"opening", "open", "persisting", "closing"}
Done(s)    == tasks[s].st \in {"returned", "failed", "cancelled"}

Fault == faults < MaxFaults /\ faults' = faults + 1 /\ quiet' = 0
NoFault == UNCHANGED <<faults, quiet>>
SamplesKeep == UNCHANGED <<writes, row>>
LoopKeeps == UNCHANGED <<now, stop>> /\ SamplesKeep
TaskKeeps == UNCHANGED <<now, control, stop>>
----------------------------------------------------------------------------
(* One collection task. *)

TaskBecomes(s, t) == tasks' = [tasks EXCEPT ![s] = t]

\* The finally block of collect_current_market: cancel the helpers, close the evidence, the socket.
Ending(t, how) ==
  [Free EXCEPT !.st = "closing", !.out = how, !.win = t.win, !.left = CallMax]

\* task.cancel().
Cancelled(t) ==
  CASE t.st \in {"opening", "open", "persisting"} -> Ending(t, "cancelled")
    [] t.st = "closing" -> [t EXCEPT !.out = "cancelled"]
    [] OTHER -> t

NewTask(w) == [Free EXCEPT !.st = "opening", !.win = w, !.left = CallMax]

Opened(s) ==
  /\ tasks[s].st = "opening" /\ TaskBecomes(s, [tasks[s] EXCEPT !.st = "open"])
  /\ TaskKeeps /\ NoFault /\ SamplesKeep

OpenFails(s) ==
  /\ tasks[s].st = "opening" /\ Fault /\ TaskBecomes(s, [tasks[s] EXCEPT !.st = "failed"])
  /\ TaskKeeps /\ SamplesKeep

\* build_probability_snapshot, as far as it is not about the quotes.
Snapshot(t) == WindowOf(now) = t.win /\ t.st = "open"

Writing(s) == \E w \in writes : w.by = s

\* A sample is taken; its write is awaited.
Taken(s) ==
  {[w EXCEPT !.newest = @ /\ w.win # tasks[s].win] : w \in writes}
    \cup {[by |-> s, win |-> tasks[s].win, left |-> Notice, newest |-> TRUE]}

\* Mutant: the sampler does not wait for its upsert.
SampleOnly(s) ==
  /\ tasks[s].sampler = "on" /\ Snapshot(tasks[s]) /\ writes' = Taken(s)
  /\ TaskKeeps /\ NoFault /\ UNCHANGED <<tasks, row>>
Sample(s) ==
  /\ tasks[s].sampler = "on" /\ ~Writing(s) /\ Snapshot(tasks[s]) /\ writes' = Taken(s)
  /\ TaskKeeps /\ NoFault /\ UNCHANGED <<tasks, row>>

\* upsert_polymarket_probability_sample replaces whatever the row has.
Upserted(w) == [win |-> w.win, newest |-> w.newest]

\* By then the market may be resolved, its window over, or the sampler cancelled.
SampleLands(s) == \E w \in writes :
  /\ w.by = s /\ writes' = writes \ {w} /\ row' = Upserted(w)
  /\ TaskKeeps /\ NoFault /\ UNCHANGED tasks

\* The finally block has cancelled the sampler, and its transaction is rolled back.
SampleCut(s) == \E w \in writes :
  /\ w.by = s /\ tasks[s].st = "closing" /\ writes' = writes \ {w}
  /\ TaskKeeps /\ NoFault /\ UNCHANGED <<tasks, row>>

\* The write of a sample fails, or only its answer is lost: the sampler ends, and nobody looks at
\* it before the next frame or the receive timeout.
SamplerFails(s) == \E w \in writes :
  /\ w.by = s /\ tasks[s].st \in {"open", "persisting"} /\ Fault
  /\ writes' = writes \ {w} /\ row' \in {row, Upserted(w)}
  /\ TaskBecomes(s, [tasks[s] EXCEPT !.sampler = "failed",
                                     !.left = IF tasks[s].st = "open" THEN Notice ELSE @])
  /\ TaskKeeps

\* A frame or the receive timeout lets the task look at its sampler.
Noticed(s) ==
  /\ tasks[s].st = "open" /\ tasks[s].sampler = "failed"
  /\ TaskBecomes(s, Ending(tasks[s], "failed"))
  /\ TaskKeeps /\ NoFault /\ SamplesKeep

\* market_resolved, whose result is then persisted; before the end it is a fault of the venue.
Resolved(s) ==
  /\ tasks[s].st = "open" /\ TaskBecomes(s, [tasks[s] EXCEPT !.st = "persisting", !.left = CallMax])
  /\ IF now < End(tasks[s].win) THEN Fault ELSE NoFault
  /\ TaskKeeps /\ SamplesKeep

\* Written or skipped: the task returns.
Persisted(s) ==
  /\ tasks[s].st = "persisting" /\ TaskBecomes(s, Ending(tasks[s], "returned"))
  /\ TaskKeeps /\ NoFault /\ SamplesKeep

\* Mutant: the socket stays open until the venue tells the winner, or the next market ends.
GraceOfWindow(s) == tasks[s].st = "open" /\ now >= End(tasks[s].win) + Window
GraceIsOver(s) == tasks[s].st = "open" /\ now >= End(tasks[s].win) + Grace

GraceOver(s) ==
  /\ GraceIsOver(s) /\ TaskBecomes(s, Ending(tasks[s], "returned"))
  /\ TaskKeeps /\ NoFault /\ SamplesKeep

\* The socket breaks: an error before the end of the window, a return in the grace.
SocketCloses(s) ==
  /\ tasks[s].st = "open" /\ Fault
  /\ TaskBecomes(s, Ending(tasks[s], IF now < End(tasks[s].win) THEN "failed" ELSE "returned"))
  /\ TaskKeeps /\ SamplesKeep

\* gather(ping_task, sampler_task, rest_prime_task); mutant: they are only cancelled.
ClosedAtOnce(s) ==
  /\ tasks[s].st = "closing"
  /\ TaskBecomes(s, [Free EXCEPT !.st = tasks[s].out, !.win = tasks[s].win])
  /\ TaskKeeps /\ NoFault /\ SamplesKeep
Closed(s) ==
  /\ tasks[s].st = "closing" /\ ~Writing(s)
  /\ TaskBecomes(s, [Free EXCEPT !.st = tasks[s].out, !.win = tasks[s].win])
  /\ TaskKeeps /\ NoFault /\ SamplesKeep

TaskStep(s) ==
  \/ Opened(s) \/ OpenFails(s) \/ Sample(s) \/ SampleLands(s) \/ SampleCut(s) \/ SamplerFails(s)
  \/ Noticed(s) \/ Resolved(s) \/ Persisted(s) \/ GraceOver(s) \/ SocketCloses(s) \/ Closed(s)
----------------------------------------------------------------------------
(* Gamma.  An answer is what the parsers make of it: how many sources and   *)
(* rule ids the market and its event name, and whether they are the rule in *)
(* force; or no market with two tokens, or no answer.                       *)

Answer == [found : BOOLEAN, sources : 0..2, ids : 0..2, known : BOOLEAN]

\* parse_market_settlement_rule: contradictory or unknown identities are no rule.
Canonical(a) == a.sources = 1 /\ a.ids = 1 /\ a.known

\* discover_current_polymarket_market: the event first, the market list when it has none.
Accepted(event, list) == IF event.found THEN Canonical(event) ELSE list.found /\ Canonical(list)

Outcomes == {Accepted(event, list) : event, list \in Answer}
Discovered == TRUE \in Outcomes
Refused == FALSE \in Outcomes /\ Fault
----------------------------------------------------------------------------
(* run_collector. *)

FreeSlot == CHOOSE s \in Slots : tasks[s].st = "free"

Goto(where, ticks) == loop' = where /\ left' = ticks
CancelTask(ts, s) == IF s = NoTask THEN ts ELSE [ts EXCEPT ![s] = Cancelled(@)]
Release(ts, s) == IF s = NoTask THEN ts ELSE [ts EXCEPT ![s] = Free]

\* The window that holds the present second is asked for.
Start1(next) ==
  /\ Goto(next, CallMax) /\ target' = WindowOf(now)
  /\ LoopKeeps /\ NoFault /\ UNCHANGED <<cur, nxt, tasks>>

Begin == loop = "starting" /\ Start1("finding")
Rejoin == loop = "pausing" /\ Start1("rejoining")

\* start_market_collection.
Found ==
  /\ loop \in {"finding", "rejoining"} /\ Discovered
  /\ tasks' = [tasks EXCEPT ![FreeSlot] = NewTask(target)] /\ cur' = FreeSlot
  /\ Goto("watching", 0) /\ LoopKeeps /\ NoFault /\ UNCHANGED <<nxt, target>>

NotFound ==
  /\ loop = "finding" /\ Refused
  /\ \E d \in 0..PauseMax : Goto("starting", d)
  /\ LoopKeeps /\ UNCHANGED <<cur, nxt, target, tasks>>

\* The way out of run_collector: its finally block.
Leave == tasks' = CancelTask(tasks, cur) /\ Goto("leaveCur", 0) /\ UNCHANGED <<cur, nxt, target>>

\* An exception inside the handler of an exception leaves the loop: systemd restarts the service.
NotRejoined == loop = "rejoining" /\ Refused /\ Leave /\ LoopKeeps

Recover ==
  /\ tasks' = CancelTask(tasks, cur) /\ Goto("dropCur", 0)
  /\ LoopKeeps /\ UNCHANGED <<cur, nxt, target>>

PreloadAt == End(tasks[cur].win) - Preload

\* sleep_until_ms_or_task_done.
CollectionEnds == loop = "watching" /\ Done(cur) /\ Recover /\ NoFault

PreloadBegins ==
  /\ loop = "watching" /\ ~Done(cur) /\ now >= PreloadAt
  /\ IF now < End(tasks[cur].win)
     THEN /\ Goto("preloading", CallMax) /\ target' = tasks[cur].win + 1
          /\ LoopKeeps /\ UNCHANGED <<cur, nxt, tasks>>
     ELSE Recover
  /\ NoFault

\* discover_market_with_retries; an answer may come after its deadline.
Preloaded ==
  /\ loop = "preloading" /\ Discovered
  /\ tasks' = [tasks EXCEPT ![FreeSlot] = NewTask(target)] /\ nxt' = FreeSlot
  /\ Goto("awaiting", 0) /\ LoopKeeps /\ NoFault /\ UNCHANGED <<cur, target>>

\* The deadline lies within the last tick of the window.
PreloadFails ==
  /\ loop = "preloading" /\ Refused
  /\ \/ /\ now < End(tasks[cur].win) /\ Goto("preloading", CallMax)
        /\ LoopKeeps /\ UNCHANGED <<cur, nxt, target, tasks>>
     \/ now >= End(tasks[cur].win) - 1 /\ Recover

\* await current_task: its end is the rollover, except for an error before the end of its window.
RollsOver == tasks[cur].st = "returned" \/ now >= End(tasks[cur].win)

Rollover ==
  /\ loop = "awaiting" /\ Done(cur) /\ RollsOver
  /\ tasks' = Release(tasks, cur) /\ cur' = nxt /\ nxt' = NoTask
  /\ Goto("watching", 0) /\ LoopKeeps /\ NoFault /\ UNCHANGED target

AwaitFails == loop = "awaiting" /\ Done(cur) /\ ~RollsOver /\ Recover /\ NoFault

Drained(s) == s \in Slots => Done(s)

\* cancel_and_drain_task for both tasks; mutant: only for the current one.
CurrentDroppedOnly ==
  /\ loop = "dropCur" /\ Drained(cur) /\ cur' = NoTask /\ nxt' = NoTask
  /\ tasks' = Release(tasks, cur)
  /\ \E d \in 0..PauseMax : Goto("pausing", d)
  /\ LoopKeeps /\ NoFault /\ UNCHANGED target
CurrentDropped ==
  /\ loop = "dropCur" /\ Drained(cur) /\ cur' = NoTask
  /\ tasks' = CancelTask(Release(tasks, cur), nxt) /\ Goto("dropNext", 0)
  /\ LoopKeeps /\ NoFault /\ UNCHANGED <<nxt, target>>

NextDropped ==
  /\ loop = "dropNext" /\ Drained(nxt) /\ nxt' = NoTask /\ tasks' = Release(tasks, nxt)
  /\ \E d \in 0..PauseMax : Goto("pausing", d)
  /\ LoopKeeps /\ NoFault /\ UNCHANGED <<cur, target>>

LeaveNext ==
  /\ loop = "leaveCur" /\ Drained(cur) /\ cur' = NoTask
  /\ tasks' = CancelTask(Release(tasks, cur), nxt) /\ Goto("leaveNext", 0)
  /\ LoopKeeps /\ NoFault /\ UNCHANGED <<nxt, target>>

Left ==
  /\ loop = "leaveNext" /\ Drained(nxt) /\ nxt' = NoTask /\ tasks' = Release(tasks, nxt)
  /\ Goto("down", 1) /\ LoopKeeps /\ NoFault /\ UNCHANGED <<cur, target>>

\* Restart=always, unless the service was told to stop.
Restart ==
  /\ loop = "down" /\ stop = Never /\ Goto("starting", 0)
  /\ LoopKeeps /\ NoFault /\ UNCHANGED <<cur, nxt, target, tasks>>

\* What a dead process was writing is committed or rolled back: a COMMIT that it has sent keeps its
\* row locked until it is over, so that no later sample of that second overtakes it.
Dies ==
  /\ tasks' = [s \in Slots |-> Free] /\ cur' = NoTask /\ nxt' = NoTask
  /\ writes' = {} /\ row' \in {row} \cup {Upserted(w) : w \in writes}
  /\ Goto("down", 1) /\ UNCHANGED <<now, target>>

Crash == loop # "down" /\ Fault /\ Dies /\ UNCHANGED stop

\* run_with_signals: one cancellation.  A loop that waits for a task it has cancelled itself
\* is woken by that task's CancelledError, which cancel_and_drain_task suppresses.
Swallowed ==
  \/ loop \in {"dropCur", "leaveCur"} /\ ~Drained(cur)
  \/ loop \in {"dropNext", "leaveNext"} /\ ~Drained(nxt)

Sigterm ==
  /\ stop = Never /\ stop' = StopMax
  /\ IF Swallowed \/ loop \in {"leaveCur", "leaveNext", "down"} THEN UNCHANGED <<control, tasks>> ELSE Leave
  /\ NoFault /\ UNCHANGED now /\ SamplesKeep

\* TimeoutStopSec is over: SIGKILL.
Killed == stop = 0 /\ loop # "down" /\ Dies /\ NoFault /\ UNCHANGED stop
----------------------------------------------------------------------------
(* Time passes when nothing is due. *)

Hurried(t) ==
  t.st \in {"opening", "persisting", "closing"} \/ (t.st = "open" /\ t.sampler = "failed")

Due ==
  \/ loop \in Calls \cup {"starting", "pausing"} /\ left = 0
  \/ loop = "watching" /\ (Done(cur) \/ now >= PreloadAt)
  \/ loop = "awaiting" /\ Done(cur)
  \/ loop \in {"dropCur", "leaveCur"} /\ Drained(cur)
  \/ loop \in {"dropNext", "leaveNext"} /\ Drained(nxt)
  \/ loop = "down" /\ stop = Never /\ left = 0
  \/ stop = 0 /\ loop # "down"
  \/ \E w \in writes : w.left = 0
  \/ \E s \in Slots : GraceIsOver(s) \/ (Hurried(tasks[s]) /\ tasks[s].left = 0)

Tick ==
  /\ now < MaxNow /\ ~Due /\ now' = now + 1
  /\ left' = IF left > 0 THEN left - 1 ELSE 0
  /\ tasks' = [s \in Slots |-> IF Hurried(tasks[s]) THEN [tasks[s] EXCEPT !.left = @ - 1]
                                                  ELSE tasks[s]]
  /\ quiet' = IF quiet > Bound THEN quiet ELSE quiet + 1
  /\ stop' = IF stop > 0 THEN stop - 1 ELSE stop
  /\ writes' = {[w EXCEPT !.left = @ - 1] : w \in writes}
  /\ UNCHANGED <<loop, cur, nxt, target, row, faults>>

Collect == \E s \in Slots : TaskStep(s)

Run ==
  \/ Begin \/ Found \/ NotFound \/ CollectionEnds \/ PreloadBegins \/ Preloaded \/ PreloadFails
  \/ Rollover \/ AwaitFails \/ CurrentDropped \/ NextDropped \/ Rejoin \/ NotRejoined
  \/ LeaveNext \/ Left \/ Restart \/ Crash \/ Sigterm \/ Killed

Next == Tick \/ Collect \/ Run

Spec == Init /\ [][Next]_vars
----------------------------------------------------------------------------
(* Properties. *)

\* Every task that holds a socket is one that run_collector knows and will cancel, two tasks are
\* never for the same market, and a service that is down has none: whatever fails, is cancelled,
\* rolls over or recovers (2401-2460).
OneTaskEach ==
  /\ TypeOK
  /\ \A s \in Slots : tasks[s].st # "free" => s \in {cur, nxt} /\ cur # nxt
  /\ \A s, t \in Slots : s # t /\ Running(s) /\ Running(t) => tasks[s].win # tasks[t].win
  /\ loop = "down" => \A s \in Slots : tasks[s].st = "free"

\* The upsert of a sample is unconditional (db.py 1801): nothing but the tasks' order keeps a late one
\* from replacing what a later collection of that second saw.  A sample is written only for a task
\* that has not ended, and never once a later one of its market has been taken: whatever fails, is
\* cancelled while it writes, rolls over or recovers.
SamplesInOrder ==
  /\ \A w \in writes : Running(w.by) /\ tasks[w.by].win = w.win
  /\ row.newest

Covered == \E s \in Slots :
  tasks[s].st = "open" /\ tasks[s].sampler = "on" /\ tasks[s].win = WindowOf(now)

\* Whatever failed, Bound ticks after the last fault the market in force is collected again,
\* unless the service was stopped.
CollectionResumes == quiet > Bound /\ stop = Never => Covered

\* Refuted.  What run_with_signals says of SIGTERM (2473): it drains the queues and closes the
\* sessions.  No collection is started once it has been sent.
StopStarts == [][stop # Never => \A s \in Slots : tasks[s].st = "free" => tasks'[s].st = "free"]_vars
=============================================================================
