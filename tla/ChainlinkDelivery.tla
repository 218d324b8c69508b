-------------------------- MODULE ChainlinkDelivery --------------------------
(***************************************************************************)
(* Delivery of Chainlink prices: the RTDS reader, ChainlinkDeliveryState,  *)
(* the live worker, the history worker and the shutdown of run_collector.  *)
(*                                                                         *)
(* A sample is its sequence number.  _history_pending is the set of the    *)
(* numbers it holds: an entry is inserted, or moved to the end, with the   *)
(* newest number, so its order is that of the numbers.  One event loop     *)
(* runs all tasks; a step ends at an await.                                *)
(***************************************************************************)
EXTENDS Integers, Sequences, FiniteSets

CONSTANTS
  Seconds,      \* provider seconds of samples
  Capacity,     \* history_capacity_seconds
  IdleMax,      \* accepted event idle timeout
  MaxTicks, MaxFaults   \* bounds: samples accepted, history writes that fail

ASSUME SecondsAreTimes == Seconds \subseteq Nat
ASSUME DeliveryLimits == Capacity \in Nat \ {0} /\ IdleMax \in Nat \ {0}

VARIABLES
  feed,        \* the reader: no connection, one that is up, or at its end
  healthy,     \* the connection brings prices
  idle,        \* time since an accepted price
  accepting,   \* _accepting
  accepted,    \* the second of every accepted sample; its length is _sequence
  pending,     \* _history_pending
  young,       \* pending samples received less than history_settle_ms ago
  inflight,    \* _history_inflight, or 0
  lost,        \* samples dropped for want of capacity
  attempted,   \* _live_attempted_sequence
  livePc,      \* where the live worker is
  live,        \* the sample it is writing to Redis
  historyPc,   \* where the history worker is
  stored,      \* price_samples: the sample of a second, or 0
  faults,
  stop,        \* run_collector is in its finally
  cut          \* the workers have been cancelled

reader  == <<feed, healthy, idle>>
queue   == <<pending, young, inflight, lost>>
workers == <<attempted, livePc, live, historyPc, stored, faults>>
ending  == <<stop, cut>>
vars    == <<reader, accepting, accepted, queue, workers, ending>>

Samples == 1..Len(accepted)

TypeOK ==
  /\ feed \in {"down", "up", "over"} /\ healthy \in BOOLEAN /\ idle \in 0..IdleMax
  /\ accepting \in BOOLEAN /\ accepted \in Seq(Seconds)
  /\ pending \subseteq Samples /\ Cardinality(pending) <= Capacity
  /\ \A i, j \in pending : accepted[i] = accepted[j] => i = j
  /\ young \subseteq pending /\ inflight \in {0} \cup Samples /\ lost \subseteq Samples
  /\ attempted \in 0..Len(accepted) /\ live \in 0..Len(accepted)
  /\ livePc \in {"wait", "write", "done"}
  /\ historyPc \in {"pick", "held", "write", "retry", "done"}
  /\ stored \in [Seconds -> 0..Len(accepted)] /\ faults \in Nat
  /\ stop \in BOOLEAN /\ cut \in BOOLEAN

Init ==
  /\ feed = "down" /\ healthy = FALSE /\ idle = 0
  /\ accepting = TRUE /\ accepted = <<>>
  /\ pending = {} /\ young = {} /\ inflight = 0 /\ lost = {}
  /\ attempted = 0 /\ livePc = "wait" /\ live = 0 /\ historyPc = "pick"
  /\ stored = [s \in Seconds |-> 0] /\ faults = 0
  /\ stop = FALSE /\ cut = FALSE
----------------------------------------------------------------------------
(* The reader. *)

ReaderKeeps == UNCHANGED <<accepting, accepted, queue, workers, ending>>

\* A connection and its subscription; it may bring prices or only other frames.
Connect ==
  /\ feed = "down" /\ accepting /\ ~stop
  /\ feed' = "up" /\ healthy' \in BOOLEAN /\ idle' = 0
  /\ ReaderKeeps

\* The provider stops sending prices, or the connection is lost.
Sours == /\ feed = "up" /\ healthy /\ healthy' = FALSE
         /\ UNCHANGED <<feed, idle>> /\ ReaderKeeps

\* The connection's locals go with it.
Leaves(next) == feed' = next /\ healthy' = FALSE /\ idle' = 0

Drops == feed = "up" /\ Leaves("down") /\ ReaderKeeps

\* Mutant: any frame postpones the timeout.
SkipsAndWaits ==
  /\ feed = "up" /\ idle < IdleMax /\ idle' = 0
  /\ UNCHANGED <<feed, healthy>> /\ ReaderKeeps

\* A PONG, an empty frame, a snapshot or a message that does not parse: the timeout goes on.
Skips == feed = "up" /\ idle < IdleMax /\ UNCHANGED vars

Passes == /\ feed = "up" /\ idle < IdleMax /\ idle' = idle + 1
          /\ UNCHANGED <<feed, healthy>> /\ ReaderKeeps

IdleTimeout == feed = "up" /\ idle = IdleMax /\ Leaves("down") /\ ReaderKeeps

\* Pending samples that may give way: the second being written keeps its place.
Yielding == {i \in pending : inflight = 0 \/ accepted[i] # accepted[inflight]}
First(set) == CHOOSE i \in set : \A j \in set : i <= j

Same(s) == {i \in pending : accepted[i] = s}

\* offer_history of sample n: collapsed, added, added for the oldest, or dropped.
Collapses(n, s) ==
  /\ Same(s) # {} /\ pending' = (pending \ Same(s)) \cup {n} /\ UNCHANGED lost

\* Mutant: the oldest entry makes room one insertion late.
FitsLoosely(n, s) ==
  /\ Same(s) = {} /\ Cardinality(pending) <= Capacity
  /\ pending' = pending \cup {n} /\ UNCHANGED lost

Fits(n, s) ==
  /\ Same(s) = {} /\ Cardinality(pending) < Capacity
  /\ pending' = pending \cup {n} /\ UNCHANGED lost

Evicts(n, s) ==
  /\ Same(s) = {} /\ Cardinality(pending) >= Capacity /\ Yielding # {}
  /\ pending' = (pending \ {First(Yielding)}) \cup {n} /\ lost' = lost \cup {First(Yielding)}

Refused(n, s) ==
  /\ Same(s) = {} /\ Cardinality(pending) >= Capacity /\ Yielding = {}
  /\ lost' = lost \cup {n} /\ UNCHANGED pending

OfferHistory(n, s) == Collapses(n, s) \/ Fits(n, s) \/ Evicts(n, s) \/ Refused(n, s)

\* A price: update_latest, then offer_history.
Accept(s) ==
  /\ feed = "up" /\ healthy /\ idle < IdleMax /\ accepting /\ Len(accepted) < MaxTicks
  /\ accepted' = Append(accepted, s) /\ idle' = 0
  /\ OfferHistory(Len(accepted) + 1, s)
  /\ young' = (young \cup {Len(accepted) + 1}) \cap pending'
  /\ UNCHANGED <<feed, healthy, accepting, inflight, workers, ending>>

\* Cancelled, or refused by a closed delivery state.
ReaderEnds == stop /\ feed # "over" /\ Leaves("over") /\ ReaderKeeps
----------------------------------------------------------------------------
(* The live worker: only the latest sample is written, successfully or not. *)

LiveKeeps == UNCHANGED <<reader, accepting, accepted, queue, historyPc, stored, faults, ending>>

LiveTakes ==
  /\ livePc = "wait" /\ ~cut /\ Len(accepted) > attempted
  /\ live' = Len(accepted) /\ livePc' = "write"
  /\ UNCHANGED attempted /\ LiveKeeps

LiveAttempted ==
  /\ livePc = "write" /\ ~cut /\ attempted' = live /\ livePc' = "wait"
  /\ UNCHANGED live /\ LiveKeeps

\* Mutant: a closed state is noticed before a sample that has not been attempted.
LiveEndsEarly ==
  /\ livePc = "wait" /\ ~cut /\ ~accepting /\ livePc' = "done"
  /\ UNCHANGED <<attempted, live>> /\ LiveKeeps

\* wait_for_latest_after: nothing new, and closed.
LiveEnds ==
  /\ livePc = "wait" /\ ~cut /\ ~accepting /\ Len(accepted) = attempted /\ livePc' = "done"
  /\ UNCHANGED <<attempted, live>> /\ LiveKeeps

LiveCut ==
  /\ cut /\ livePc # "done" /\ livePc' = "done"
  /\ UNCHANGED <<attempted, live>> /\ LiveKeeps
----------------------------------------------------------------------------
(* The history worker: the oldest second first, once it is settled and attempted. *)

HistoryKeeps == UNCHANGED <<reader, accepting, accepted, attempted, livePc, live, ending>>

\* history_settle_ms passes for a sample.
Settles(i) ==
  /\ i \in young /\ young' = young \ {i}
  /\ UNCHANGED <<reader, accepting, accepted, pending, inflight, lost, workers, ending>>

Ready(i) ==
  /\ i \in pending /\ \A j \in pending : accepted[i] <= accepted[j]
  /\ ~accepting \/ i \notin young \/ \E j \in pending : accepted[i] < accepted[j]

\* next_history_ready.
Pick ==
  /\ historyPc = "pick" /\ ~cut /\ \E i \in pending : Ready(i) /\ inflight' = i
  /\ historyPc' = "held"
  /\ UNCHANGED <<pending, young, lost, stored, faults>> /\ HistoryKeeps

\* Mutant: history does not wait for the live price.
BeginAtOnce ==
  /\ historyPc = "held" /\ ~cut /\ historyPc' = "write"
  /\ UNCHANGED <<queue, stored, faults>> /\ HistoryKeeps

\* wait_until_live_attempted has returned.
Begin ==
  /\ historyPc = "held" /\ ~cut /\ attempted >= inflight /\ historyPc' = "write"
  /\ UNCHANGED <<queue, stored, faults>> /\ HistoryKeeps

Upserted(effect) ==
  IF effect THEN [stored EXCEPT ![accepted[inflight]] = inflight] ELSE stored

\* Mutant: success removes whatever is pending for the second.
WrittenAnySequence ==
  /\ historyPc = "write" /\ ~cut /\ stored' = Upserted(TRUE)
  /\ pending' = pending \ Same(accepted[inflight]) /\ young' = young \cap pending'
  /\ inflight' = 0 /\ historyPc' = "pick"
  /\ UNCHANGED <<lost, faults>> /\ HistoryKeeps

\* mark_history_succeeded: a newer sample of the second stays.
Written ==
  /\ historyPc = "write" /\ ~cut /\ stored' = Upserted(TRUE)
  /\ pending' = pending \ {inflight} /\ young' = young \ {inflight}
  /\ inflight' = 0 /\ historyPc' = "pick"
  /\ UNCHANGED <<lost, faults>> /\ HistoryKeeps

\* A write that fails may have been committed; the pending entry stays.
Failed ==
  /\ historyPc = "write" /\ ~cut /\ faults < MaxFaults /\ faults' = faults + 1
  /\ \E effect \in BOOLEAN : stored' = Upserted(effect)
  /\ inflight' = 0 /\ historyPc' = "retry"
  /\ UNCHANGED <<pending, young, lost>> /\ HistoryKeeps

\* wait_for_history_retry ends, by its delay or by close().
Retry ==
  /\ historyPc = "retry" /\ ~cut /\ historyPc' = "pick"
  /\ UNCHANGED <<queue, stored, faults>> /\ HistoryKeeps

HistoryEnds ==
  /\ historyPc = "pick" /\ ~cut /\ ~accepting /\ pending = {} /\ inflight = 0
  /\ historyPc' = "done"
  /\ UNCHANGED <<queue, stored, faults>> /\ HistoryKeeps

\* Cancelled while it writes, it releases the sample; before that it does not.
HistoryCut ==
  /\ cut /\ historyPc # "done" /\ historyPc' = "done"
  /\ IF historyPc = "write"
       THEN inflight' = 0 /\ \E effect \in BOOLEAN : stored' = Upserted(effect)
       ELSE UNCHANGED <<inflight, stored>>
  /\ UNCHANGED <<pending, young, lost, faults>> /\ HistoryKeeps
----------------------------------------------------------------------------
(* run_collector ends: the reader is cancelled, the state closed, the workers drained. *)

Stop == /\ ~stop /\ stop' = TRUE
        /\ UNCHANGED <<cut, reader, accepting, accepted, queue, workers>>

\* close(), when the reader has ended or not obeyed in time.
Close == /\ stop /\ accepting /\ accepting' = FALSE
         /\ UNCHANGED <<reader, accepted, queue, workers, ending>>

DrainTimeout ==
  /\ ~accepting /\ ~cut /\ (livePc # "done" \/ historyPc # "done") /\ cut' = TRUE
  /\ UNCHANGED <<stop, reader, accepting, accepted, queue, workers>>
----------------------------------------------------------------------------
Reader  == Connect \/ Sours \/ Drops \/ Skips \/ Passes \/ IdleTimeout \/ ReaderEnds
           \/ \E s \in Seconds : Accept(s)
Live    == LiveTakes \/ LiveAttempted \/ LiveEnds \/ LiveCut
History == \/ Pick \/ Begin \/ Written \/ Failed \/ Retry \/ HistoryEnds \/ HistoryCut
           \/ \E i \in Samples : Settles(i)
Ending  == Stop \/ Close \/ DrainTimeout

Next == Reader \/ Live \/ History \/ Ending

Spec == Init /\ [][Next]_vars

\* Tasks run, awaits of Redis and PostgreSQL end, time passes.  Nothing makes the drain time out.
Fairness ==
  /\ WF_vars(Live) /\ WF_vars(History) /\ \A i \in 1..MaxTicks : WF_vars(Settles(i))
  /\ WF_vars(Passes) /\ WF_vars(IdleTimeout) /\ WF_vars(ReaderEnds) /\ WF_vars(Close)

FairSpec == Spec /\ Fairness
----------------------------------------------------------------------------
(* What must hold. *)

\* The newest sample of a second is stored, on its way to be, or counted as dropped: neither a
\* correction that arrives during the write of its second nor a failed write is forgotten.  A
\* worker that ends by itself leaves nothing pending.
NothingForgotten ==
  /\ \A i \in Samples :
       \/ i \in pending \cup lost \/ stored[accepted[i]] = i
       \/ \E j \in Samples : i < j /\ accepted[i] = accepted[j]
  /\ historyPc = "done" /\ ~cut => pending = {}

\* A price is in PostgreSQL only after it, or a later one, was offered to Redis.
LiveFirst == \A s \in Seconds : stored[s] <= attempted

\* The workers wait for each other and for time, never for ever: what is pending is written,
\* replaced or dropped, during shutdown too.
Flows == \A i \in 1..MaxTicks : i \in pending ~> (i \notin pending \/ cut)

\* A connection that brings frames but no price is given up.
SilentFeedReplaced == (feed = "up" /\ ~healthy) ~> feed # "up"
=============================================================================
