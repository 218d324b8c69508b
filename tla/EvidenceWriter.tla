---------------------------- MODULE EvidenceWriter ----------------------------
(***************************************************************************)
(* The compact evidence of the probability collector: sessions of a quote  *)
(* socket offer their start, sampled quotes, tick sizes, gaps and end to a *)
(* writer with three bounded queues and two workers that retry for ever.   *)
(* What a full queue or a size pause refuses is added to a bounded number  *)
(* of loss ranges, and they become durable gaps.  On start the writer      *)
(* closes the sessions that an earlier process left open.                  *)
(*                                                                         *)
(* A record of a connection is <<c, kind>>; told is the set of records     *)
(* that the durable gaps account for (a gap has their count, and the first *)
(* and last of their clocks).  A transaction is one step of its worker: it *)
(* commits or not, and the worker may take a commit for a failure.         *)
(***************************************************************************)
EXTENDS Integers, Sequences, FiniteSets

CONSTANTS
  Conns,       \* connections, numbered in the order of their UUIDs
  Quotes,      \* names of quotes
  Offers,      \* what a connection may offer between its start and its end
  None,        \* the connection of a record of a market poll
  MetadataMax, ControlMax, QuoteMax,   \* places in the queues
  BatchSize,
  MaxLossScopes,
  LiveMax,     \* connections that _live_connections remembers
  PageSize,    \* LIMIT of the recovery statements
  MaxFaults    \* bound on failed writes, crashes and planned restarts

ASSUME EvidenceAssumption ==
  /\ Conns \subseteq Nat \ {0} /\ None \notin Conns
  /\ Offers \in [Conns -> SUBSET (Quotes \cup {"tick", "gap"})]
  /\ {MetadataMax, ControlMax, QuoteMax, BatchSize, MaxLossScopes, LiveMax, PageSize} \subseteq Nat \ {0}
  /\ MaxFaults \in Nat

VARIABLES
  phase,      \* of the process: "up", "closing" or "down"
  own,        \* connections that this process has started
  issued,     \* every record that a session has offered, to whichever process
  metadataQ, controlQ, quoteQ,
  losses,     \* _losses: what each scope has lost
  overflow,   \* _overflow_loss
  lossDue,    \* whether a minute has passed since losses were flushed
  deferred,   \* _deferred_ends
  live,       \* _live_connections, the last one used last
  pauseReason,    \* _pause_reason, "" when quotes are not paused
  meta,       \* the metadata worker: what it does, and with what
  writing,    \* the batch of the quote worker
  db, told, spent

queues == <<metadataQ, controlQ, quoteQ, losses, overflow, deferred, live>>
volatile == <<own, queues, lossDue, pauseReason, meta, writing>>
vars == <<phase, volatile, issued, db, told, spent>>

Control  == {"start", "end", "gap"}
Kinds    == Control \cup {"tick"} \cup Quotes
ASSUME QuotesAreNames == Quotes \cap (Control \cup {"tick", "poll", "unclean"}) = {}

Record   == (Conns \X Kinds) \cup {<<None, "poll">>}
Rows     == Record \cup (Conns \X {"unclean"})
Scopes   == (Conns \cup {None}) \X {"metadata", "paused", "full"}
Idle     == [does |-> "idle", rows |-> {}, lost |-> {}, cursor |-> 0]
Recovery == [Idle EXCEPT !.does = "sessions"]
Unknown  == "relation_size_unchecked"     \* or the check failed, which pauses as well
AtCap    == "relation_size_cap"

QueuesType ==
  /\ metadataQ \in Seq(Record) /\ Len(metadataQ) <= MetadataMax
  /\ controlQ \in Seq(Record) /\ Len(controlQ) <= ControlMax
  /\ quoteQ \in Seq(Record) /\ Len(quoteQ) <= QuoteMax
  /\ live \in Seq(Conns) /\ Len(live) <= LiveMax

LossType ==
  /\ DOMAIN losses \subseteq Scopes /\ Cardinality(DOMAIN losses) <= MaxLossScopes
  /\ \A k \in DOMAIN losses : losses[k] # {} /\ losses[k] \subseteq Record
  /\ overflow \subseteq Record

WorkType ==
  /\ meta \in [does : {"idle", "sessions", "orphans", "finishing", "writing"},
               rows : SUBSET Rows, lost : SUBSET Record, cursor : Conns \cup {0}]
  /\ writing \subseteq Record /\ db \subseteq Rows /\ told \subseteq issued

TypeOK ==
  /\ QueuesType /\ LossType /\ WorkType
  /\ phase \in {"up", "closing", "down"} /\ own \subseteq Conns /\ issued \subseteq Record
  /\ lossDue \in BOOLEAN /\ deferred \subseteq Conns /\ pauseReason \in {Unknown, AtCap, ""}
  /\ spent \in 0..MaxFaults

Init ==
  /\ phase = "up" /\ own = {} /\ issued = {} /\ db = {} /\ told = {} /\ spent = 0
  /\ metadataQ = <<>> /\ controlQ = <<>> /\ quoteQ = <<>>
  /\ losses = <<>> /\ overflow = {} /\ lossDue = TRUE /\ deferred = {} /\ live = <<>>
  /\ pauseReason = Unknown /\ meta = Recovery /\ writing = {}

Elements(q) == {q[i] : i \in DOMAIN q}
Lesser(a, b) == IF a < b THEN a ELSE b
Left(limit, n) == IF n < limit THEN limit - n ELSE 0     \* places left of a limit
Fault == spent < MaxFaults /\ spent' = spent + 1
----------------------------------------------------------------------------
(* Offers. *)

\* _record_loss of the records S of one scope: its range, a new range, or the common one.
Lose(S, why) ==
  IF S = {} THEN UNCHANGED <<losses, overflow>>
  ELSE LET k == <<(CHOOSE r \in S : TRUE)[1], why>> IN
       IF k \in DOMAIN losses
       THEN losses' = [losses EXCEPT ![k] = @ \cup S] /\ UNCHANGED overflow
       ELSE IF Cardinality(DOMAIN losses) < MaxLossScopes
            THEN /\ losses' = [j \in DOMAIN losses \cup {k} |-> IF j = k THEN S ELSE losses[j]]
                 /\ UNCHANGED overflow
            ELSE overflow' = overflow \cup S /\ UNCHANGED losses

\* _track_live_connection: c is the last one used; the first one is forgotten.
MovedToEnd(q, c) ==
  IF c \notin Elements(q) THEN Append(q, c)
  ELSE LET at == CHOOSE i \in DOMAIN q : q[i] = c
       IN  [i \in DOMAIN q |-> IF i < at THEN q[i] ELSE IF i < Len(q) THEN q[i + 1] ELSE c]
Track(c) ==
  LET used == MovedToEnd(live, c) IN live' = IF Len(used) > LiveMax THEN Tail(used) ELSE used

\* offer of control records of one connection, in turn: those that do not fit are lost.
OfferControl(s) ==
  LET n == Lesser(Len(s), ControlMax - Len(controlQ)) IN
    /\ controlQ' = controlQ \o SubSeq(s, 1, n)
    /\ Lose({s[i] : i \in n+1..Len(s)}, "metadata")
    /\ issued' = issued \cup Elements(s)

OfferMetadata(r) ==
  /\ IF Len(metadataQ) < MetadataMax
     THEN metadataQ' = Append(metadataQ, r) /\ UNCHANGED <<losses, overflow>>
     ELSE Lose({r}, "metadata") /\ UNCHANGED metadataQ
  /\ issued' = issued \cup {r}

\* offer_quote.
OfferQuote(r) ==
  /\ IF pauseReason = "" /\ Len(quoteQ) < QuoteMax
     THEN quoteQ' = Append(quoteQ, r) /\ UNCHANGED <<losses, overflow>>
     ELSE Lose({r}, IF pauseReason # "" THEN "paused" ELSE "full") /\ UNCHANGED quoteQ
  /\ issued' = issued \cup {r}

Open(c) == phase = "up" /\ c \in own /\ <<c, "end">> \notin issued
Rest == UNCHANGED <<phase, lossDue, deferred, pauseReason, meta, writing, db, told, spent>>

\* CollectionEvidenceRuntime.start_session; the connections come in the order of their numbers here.
StartSession(c) ==
  /\ phase = "up" /\ <<c, "start">> \notin issued
  /\ \A d \in Conns : d < c => <<d, "start">> \in issued
  /\ own' = own \cup {c} /\ OfferControl(<< <<c, "start">> >>) /\ Track(c)
  /\ Rest /\ UNCHANGED <<metadataQ, quoteQ>>

\* QuoteCapture.sample_once; one quote is as good as another.
SampleOnce(c) ==
  /\ Open(c)
  /\ LET left == {q \in Quotes \cap Offers[c] : <<c, q>> \notin issued} IN
       left # {} /\ OfferQuote(<<c, CHOOSE q \in left : TRUE>>)
  /\ Track(c) /\ Rest /\ UNCHANGED <<own, metadataQ, controlQ>>

TickSizeChange(c) ==
  /\ Open(c) /\ "tick" \in Offers[c] /\ <<c, "tick">> \notin issued /\ OfferMetadata(<<c, "tick">>)
  /\ Track(c) /\ Rest /\ UNCHANGED <<own, controlQ, quoteQ>>

\* QuoteCapture.close, with a gap when the market has not closed yet.
CloseSession(c) ==
  /\ Open(c)
  /\ OfferControl(IF "gap" \in Offers[c] THEN << <<c, "gap">>, <<c, "end">> >> ELSE << <<c, "end">> >>)
  /\ Track(c) /\ Rest /\ UNCHANGED <<own, metadataQ, quoteQ>>

\* poll_market_once and observe_http: an observation of the market, of no connection.
PollMarketOnce ==
  /\ phase = "up" /\ <<None, "poll">> \notin issued /\ OfferMetadata(<<None, "poll">>)
  /\ Rest /\ UNCHANGED <<own, controlQ, quoteQ, live>>
----------------------------------------------------------------------------
(* The size worker. *)

\* _check_size: a pause at the cap holds until the size is below the warning.  Growth that reaches the
\* cap counts as a fault.
CheckSize ==
  /\ phase = "up"
  /\ \E size \in {"below", "warn", "cap"} :
       /\ pauseReason' = IF size = "cap" \/ (size = "warn" /\ pauseReason = AtCap) THEN AtCap ELSE ""
       /\ IF pauseReason = "" /\ size = "cap" THEN Fault ELSE UNCHANGED spent
  /\ UNCHANGED <<phase, own, queues, lossDue, meta, writing, issued, db, told>>

CheckSizeFails ==
  /\ phase = "up" /\ Fault /\ pauseReason' = Unknown
  /\ UNCHANGED <<phase, own, queues, lossDue, meta, writing, issued, db, told>>
----------------------------------------------------------------------------
(* The quote worker. *)

Running == phase # "down"
QuoteRest ==
  UNCHANGED <<phase, own, metadataQ, controlQ, losses, overflow, deferred, live, lossDue, pauseReason,
              meta, issued, told>>

TakeQuotes ==
  /\ Running /\ writing = {} /\ quoteQ # <<>>
  /\ LET n == Lesser(BatchSize, Len(quoteQ)) IN
       writing' = Elements(SubSeq(quoteQ, 1, n)) /\ quoteQ' = SubSeq(quoteQ, n + 1, Len(quoteQ))
  /\ QuoteRest /\ UNCHANGED <<db, spent>>

PersistQuotes ==
  /\ Running /\ writing # {} /\ db' = db \cup writing /\ writing' = {}
  /\ QuoteRest /\ UNCHANGED <<quoteQ, spent>>

\* _retry: the batch is kept, whether or not the transaction was committed.
PersistQuotesFails ==
  /\ Running /\ writing # {} /\ Fault /\ db' \in {db, db \cup writing}
  /\ QuoteRest /\ UNCHANGED <<quoteQ, writing>>
----------------------------------------------------------------------------
(* The metadata worker. *)

MetaRest == UNCHANGED <<phase, own, quoteQ, live, pauseReason, writing, issued>>
InRecovery == UNCHANGED <<metadataQ, controlQ, losses, overflow, deferred, lossDue>>

Ended(c, rows) == \E k \in {"end", "unclean"} : <<c, k>> \in rows

\* The rows of a batch that the table does not refuse: one end for each connection.
Accepted(rows) == {r \in rows : r[2] \in {"end", "unclean"} => ~Ended(r[1], db)}

\* _recover_sessions: _RECOVERY_SQL.
Unended == {c \in Conns : <<c, "start">> \in db /\ ~Ended(c, db)}
Unclean(S) == S \X {"unclean"}

ScanSessions ==
  /\ Running /\ meta.does = "sessions"
  /\ \E S \in SUBSET Unended :
       /\ Cardinality(S) = Lesser(PageSize, Cardinality(Unended))
       /\ meta' = IF S = {} THEN [meta EXCEPT !.does = "orphans"]
                  ELSE [meta EXCEPT !.does = "finishing", !.rows = Unclean(S)]
  /\ MetaRest /\ InRecovery /\ UNCHANGED <<db, told, spent>>

\* _ORPHAN_SCAN: connections with durable quotes, by pages; an orphan has no record of a session, and
\* this process does not remember it.  Mutant: it may be a connection of this process.
AnyOrphan(c) == {<<c, "start">>, <<c, "end">>, <<c, "unclean">>} \cap db = {}
Orphan(c) == /\ {<<c, "start">>, <<c, "end">>, <<c, "unclean">>} \cap db = {}
             /\ c \notin Elements(live)

ScanOrphans ==
  /\ Running /\ meta.does = "orphans"
  /\ LET candidates == {c \in Conns : c > meta.cursor /\ \E q \in Quotes : <<c, q>> \in db}
         page == {c \in candidates : Cardinality({d \in candidates : d < c}) < PageSize}
         orphaned == {c \in page : Orphan(c)}
     IN \/ page = {} /\ meta' = Idle
        \/ \E last \in page :
             /\ \A c \in page : c <= last
             /\ meta' = [does |-> IF orphaned = {} THEN "orphans" ELSE "finishing",
                         rows |-> Unclean(orphaned), lost |-> {}, cursor |-> last]
  /\ MetaRest /\ InRecovery /\ UNCHANGED <<db, told, spent>>

\* _finish_recovered_sessions: the gap and the end of each, in one transaction.
FinishRecovered ==
  /\ Running /\ meta.does = "finishing" /\ db' = db \cup Accepted(meta.rows)
  /\ meta' = [meta EXCEPT !.rows = {}, !.does = IF meta.cursor = 0 THEN "sessions" ELSE "orphans"]
  /\ MetaRest /\ InRecovery /\ UNCHANGED <<told, spent>>

\* Anything that fails in recovery starts it again.
RecoveryFails ==
  /\ Running /\ meta.does \in {"sessions", "orphans", "finishing"} /\ Fault
  /\ db' \in {db, db \cup Accepted(meta.rows)} /\ meta' = Recovery
  /\ MetaRest /\ InRecovery /\ UNCHANGED told

\* _connection_pending: the counters count what is queued or being written.
\* Mutant: only what is queued.
QueuedOnly(c) == \E r \in Elements(quoteQ) \cup Elements(metadataQ) : r[1] = c
ConnectionPending(c) == \E r \in Elements(quoteQ) \cup writing \cup Elements(metadataQ) : r[1] = c

Defers(r) == r[2] = "end" /\ ConnectionPending(r[1])

\* The losses that go with a batch of these rows: those of the connections that end, and as many
\* others as there is room for when they are due.  Mutant: the former wait for room as well.
FlushedIfRoom(rows) ==
  {L \in SUBSET DOMAIN losses :
     Cardinality(L) = IF lossDue \/ phase = "closing"
                      THEN Lesser(Cardinality(DOMAIN losses), BatchSize - Cardinality(rows)) ELSE 0}
Flushed(rows) ==
  LET closing == {k \in DOMAIN losses : <<k[1], "end">> \in rows}
      others == DOMAIN losses \ closing
      room == IF lossDue \/ phase = "closing"
              THEN Lesser(Cardinality(others), Left(BatchSize, Cardinality(rows))) ELSE 0
  IN {closing \cup L : L \in {L \in SUBSET others : Cardinality(L) \in room - Cardinality(closing)..room}}

\* What the loss ranges of L count.
CountedBy(L) == UNION {losses[k] : k \in L}

\* _metadata_pending.  Mutant: an end that is deferred is no reason to go on.
PendingQueued == metadataQ # <<>> \/ controlQ # <<>> \/ losses # <<>> \/ overflow # {}
MetadataPending ==
  metadataQ # <<>> \/ controlQ # <<>> \/ losses # <<>> \/ overflow # {} \/ deferred # {}

\* _metadata_batch.
MetadataBatch ==
  /\ Running /\ meta.does = "idle" /\ MetadataPending
  /\ \E ready \in SUBSET {c \in deferred : ~ConnectionPending(c)}, n \in 0..Len(controlQ) :
     LET Kept(i) == {j \in 1..i : ~Defers(controlQ[j])}
         limit == IF BatchSize < 4 THEN 1 ELSE BatchSize \div 2
         room == Left(limit, Cardinality(ready))
         first == {<<c, "end">> : c \in ready} \cup {controlQ[j] : j \in Kept(n)}
         m == Lesser(Len(metadataQ), Left(BatchSize, Cardinality(first)))
         rows == first \cup Elements(SubSeq(metadataQ, 1, m))
     IN /\ Cardinality(ready) = Lesser(BatchSize, Cardinality({c \in deferred : ~ConnectionPending(c)}))
        /\ n = Len(controlQ) \/ Cardinality(Kept(n)) = room
        /\ \A i \in 0..n-1 : Cardinality(Kept(i)) < room
        /\ controlQ' = SubSeq(controlQ, n + 1, Len(controlQ))
        /\ deferred' = (deferred \ ready) \cup
             {controlQ[i][1] : i \in {j \in 1..n : Defers(controlQ[j])}}
        /\ metadataQ' = SubSeq(metadataQ, m + 1, Len(metadataQ))
        /\ \E L \in Flushed(rows) :
             LET common == \/ \E r \in rows : r[2] = "end"
                           \/ (lossDue \/ phase = "closing") /\ Cardinality(rows) + Cardinality(L) < BatchSize
                 lost == CountedBy(L) \cup IF common THEN overflow ELSE {}
             IN /\ losses' = [k \in DOMAIN losses \ L |-> losses[k]]
                /\ overflow' = IF common THEN {} ELSE overflow
                /\ lossDue' = (lossDue /\ lost = {})
                /\ meta' = IF rows = {} /\ lost = {} THEN meta
                           ELSE [meta EXCEPT !.does = "writing", !.rows = rows, !.lost = lost]
  /\ MetaRest /\ UNCHANGED <<db, told, spent>>

PersistMetadata ==
  /\ Running /\ meta.does = "writing"
  /\ db' = db \cup Accepted(meta.rows) /\ told' = told \cup meta.lost /\ meta' = Idle
  /\ MetaRest /\ InRecovery /\ UNCHANGED spent

PersistMetadataFails ==
  /\ Running /\ meta.does = "writing" /\ Fault
  /\ \E landed \in BOOLEAN :
       /\ db' = IF landed THEN db \cup Accepted(meta.rows) ELSE db
       /\ told' = IF landed THEN told \cup meta.lost ELSE told
  /\ MetaRest /\ InRecovery /\ UNCHANGED meta

\* LOSS_FLUSH_SECONDS have passed.
LossTimer ==
  /\ Running /\ ~lossDue /\ lossDue' = TRUE
  /\ UNCHANGED <<phase, own, queues, pauseReason, meta, writing, issued, db, told, spent>>
----------------------------------------------------------------------------
(* Shutdown, crash and restart. *)

\* EvidenceWriter.close, after every session was closed.
Close ==
  /\ phase = "up" /\ Fault /\ (\A c \in own : ~Open(c)) /\ phase' = "closing"
  /\ UNCHANGED <<volatile, issued, db, told>>

\* The process ends: drained, after the timeout of close, or killed.  A transaction may just commit.
Gone ==
  /\ phase' = "down" /\ own' = {} /\ metadataQ' = <<>> /\ controlQ' = <<>> /\ quoteQ' = <<>>
  /\ losses' = <<>> /\ overflow' = {} /\ lossDue' = TRUE /\ deferred' = {} /\ live' = <<>>
  /\ pauseReason' = Unknown /\ meta' = Recovery /\ writing' = {}
  /\ \E w \in {{}, writing}, landed \in BOOLEAN :
       /\ db' = db \cup w \cup IF landed THEN Accepted(meta.rows) ELSE {}
       /\ told' = told \cup IF landed THEN meta.lost ELSE {}
  /\ UNCHANGED issued

Exit == phase = "closing" /\ Gone /\ UNCHANGED spent
Crash == phase = "up" /\ Fault /\ Gone
Restart == phase = "down" /\ phase' = "up" /\ UNCHANGED <<volatile, issued, db, told, spent>>

QuoteWorker == TakeQuotes \/ PersistQuotes \/ PersistQuotesFails
MetadataWorker ==
  \/ ScanSessions \/ ScanOrphans \/ FinishRecovered \/ RecoveryFails
  \/ MetadataBatch \/ PersistMetadata \/ PersistMetadataFails

Next ==
  \/ \E c \in Conns : StartSession(c) \/ SampleOnce(c) \/ TickSizeChange(c) \/ CloseSession(c)
  \/ PollMarketOnce \/ CheckSize \/ CheckSizeFails \/ QuoteWorker \/ MetadataWorker \/ LossTimer
  \/ Close \/ Exit \/ Crash \/ Restart

Spec == Init /\ [][Next]_vars

\* The workers run and time passes; nothing is assumed of the sessions.  close waits a bounded time,
\* and systemd starts the service again.
Fairness ==
  /\ WF_vars(QuoteWorker) /\ WF_vars(MetadataWorker) /\ WF_vars(LossTimer)
  /\ WF_vars(Exit) /\ WF_vars(Restart)

FairSpec == Spec /\ Fairness
----------------------------------------------------------------------------
(* Properties. *)

Of(c) == {r \in issued : r[1] = c}

\* A durable end of a session is the last word on it: every quote and every other record that the
\* session offered is durable, or a gap that is durable too accounts for it, whatever was queued,
\* being written, refused or retried, and whenever the process was killed (_metadata_batch).
EndTellsAll == \A c \in Conns : <<c, "end">> \in db => Of(c) \subseteq db \cup told

\* Recovery, which runs beside the first sessions of the new process, declares none of them over
\* (test_recovery_does_not_close_a_live_connection_started_by_this_writer).
RecoverySparesLive == \A c \in Conns : Open(c) => ~Ended(c, db)

\* An end, whether a session's own or recovery's, is written only when it is true.
EndsAreTrue == TypeOK /\ EndTellsAll /\ RecoverySparesLive

\* In the end every connection of an earlier process of which the database has the start or a quote
\* has an end as well; and of the present process every record is durable or in a durable gap.
Durable(c) == \E k \in Quotes \cup {"start"} : <<c, k>> \in db
Settles ==
  <>[](/\ \A c \in Conns \ own : Durable(c) => Ended(c, db)
       /\ \A c \in own : Of(c) \subseteq db \cup told)
=============================================================================
