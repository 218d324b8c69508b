----------------------- MODULE SessionHistory_proofs -----------------------
(***************************************************************************)
(* Theorems about what history holds: TwapDelivery, which writes it, for   *)
(* any sessions, events, queue capacity and faults, and HistoryRetention,  *)
(* which expires it, for any rows, arrivals and batch size.  As in the run *)
(* that checks it, a loss is marked provided that a Redis attempt does not *)
(* outlast the wait for the cancelled reader.                              *)
(***************************************************************************)
EXTENDS TwapDelivery, HistoryRetention, FiniteSetTheorems, WellFoundedInduction, TLAPS

----------------------------------------------------------------------------
(* The inductive invariant. *)

\* The records of a queue, and those that are written before its i-th.
Line(q)     == {q[i] : i \in 1..Len(q)}
Ahead(q, i) == {hand} \cup {q[j] : j \in 1..(i - 1)}

EventOf(c, m) == [k |-> "event", c |-> c, n |-> m]

\* PostgreSQL holds the first n events of c.
Known(c, n) == \A m \in 1..n : <<c, m>> \in stored

\* The events that must be stored before r is written.
Before(r) == IF r.k = "start" THEN 0 ELSE IF r.k = "event" THEN r.n - 1 ELSE r.n

\* Whatever r tells is in PostgreSQL, or is written before r: its events, its gap, and of a
\* session's own finish, every message that was accepted.
Due(r, ahead) ==
  /\ r.c \in used
  /\ r.k = "event" => r.n \in 1..accepted[r.c]
  /\ \A m \in 1..Before(r) : <<r.c, m>> \in stored \/ EventOf(r.c, m) \in ahead
  /\ r.k \in {"finish", "recovered"} =>
       [c |-> r.c, n |-> r.n] \in gaps \/ [k |-> "gap", c |-> r.c, n |-> r.n] \in ahead
  /\ r.k = "finish" => r.n = accepted[r.c]

Ready(r)   == Due(r, {})
InOrder(q) == \A i \in 1..Len(q) : Due(q[i], Ahead(q, i))

OrderInv ==
  /\ hand # None => Ready(hand)
  /\ InOrder(queue)
  /\ \A r \in stray : Ready(r)
  /\ \A o \in todo : Ready(GapOf(o))
  /\ closing # None => Ready(FinishOf(closing))

\* A finish is of a session that the reader has left for good.
EndsNothing(r) == r.k \in {"finish", "recovered"} => r.c # reader.c
EndedInv ==
  /\ hand # None => EndsNothing(hand)
  /\ \A r \in Line(queue) \cup stray : EndsNothing(r)

\* What PostgreSQL holds is a beginning of each session, and what it says of it is true.
StoredInv == \A e \in stored : e[2] \in 1..accepted[e[1]] /\ Known(e[1], e[2])
GapsInv   == \A g \in gaps : Known(g.c, g.n)
RowInv(c) ==
  /\ accepted[c] > 0 => session[c] # "none"
  /\ session[c] # "none" => c \in used
  /\ session[c] \in {"own", "orphan"} => c # reader.c /\ [c |-> c, n |-> total[c]] \in gaps
  /\ session[c] = "own" => total[c] = accepted[c]
DurableInv == StoredInv /\ GapsInv /\ \A c \in Sessions : RowInv(c)

\* Every event the reader handed over is stored or in the line; one it holds is not yet.
Sent == IF reader.at \in {"live", "saving"} THEN accepted[reader.c] - 1 ELSE accepted[reader.c]
SentInv ==
  /\ reader.c # None => reader.c \in used
  /\ reader.at = "barrier" => accepted[reader.c] = 0
  /\ reader.at \in {"recv", "live", "saving", "closing"} =>
       /\ session[reader.c] # "none"
       /\ \A m \in 1..Sent : <<reader.c, m>> \in stored \/ EventOf(reader.c, m) \in {hand} \cup Line(queue)
  /\ reader.at \in {"live", "saving"} => accepted[reader.c] > 0

\* The reserve has a place for whatever the reader still has to offer.
RoomInv ==
  /\ reader.at \in {"recv", "live", "saving"} => Len(queue) <= Capacity
  /\ reader.at = "closing" => Len(queue) <= Capacity + 1

\* A start is the last in the line, and the reader waits for it unless it was cancelled; once it
\* is written the line is empty.
Awaited(c) ==
  reader.at \in {"barrier", "done"} /\ (reader.at = "barrier" => reader.c = c /\ ~barrier)
StartInv ==
  /\ hand # None /\ hand.k = "start" => queue = <<>> /\ Awaited(hand.c)
  /\ \A i \in 1..Len(queue) : queue[i].k = "start" => i = Len(queue) /\ Awaited(queue[i].c)
  /\ barrier /\ reader.at = "barrier" => queue = <<>> /\ session[reader.c] # "none"

\* Recovery runs alone.
RunInv ==
  /\ run # "recovering" => todo = {} /\ closing = None
  /\ run \in {"down", "listing", "recovering"} => reader = Off /\ queue = <<>> /\ hand = None

Inv == /\ TypeOK /\ OrderInv /\ EndedInv /\ DurableInv /\ SentInv
       /\ RoomInv /\ StartInv /\ RunInv

----------------------------------------------------------------------------
(* Lines and what they hold. *)

LEMMA RecordFields ==
  ASSUME NEW r \in Record
  PROVE  /\ r.k \in Kinds /\ r.c \in Sessions /\ r.n \in Nat /\ r # None
         /\ [c |-> r.c, n |-> r.n] \in Orphan
BY NoneIsNothing DEF Record, Orphan

LEMMA MakesRecord ==
  ASSUME NEW k \in Kinds, NEW c \in Sessions, NEW n \in Nat
  PROVE  [k |-> k, c |-> c, n |-> n] \in Record
BY DEF Record

LEMMA QueueLimits == Capacity \in Nat /\ Capacity > 0 /\ QueueMax = Capacity + 3 /\ QueueMax \in Nat
BY QueueLimit DEF QueueMax, TWAP_FINAL_CONTROL_RESERVE

LEMMA EmptyLine == <<>> \in Seq(Record) /\ Len(<<>>) <= QueueMax
<1>1. Len(<<>>) = 0 /\ <<>> \in Seq(Record)
  OBVIOUS
<1> QED
  BY <1>1, QueueLimits

LEMMA LineIsRecords == ASSUME NEW q \in Seq(Record) PROVE Line(q) \subseteq Record
BY DEF Line

\* What is appended is behind everything else.
LEMMA Appended ==
  ASSUME NEW q \in Seq(Record), NEW r \in Record
  PROVE  /\ Append(q, r) \in Seq(Record) /\ Len(Append(q, r)) = Len(q) + 1
         /\ \A i \in 1..Len(q) : Append(q, r)[i] = q[i]
         /\ Append(q, r)[Len(q) + 1] = r
         /\ Line(Append(q, r)) = Line(q) \cup {r}
<1>1. /\ Len(q) \in Nat
      /\ Append(q, r) \in Seq(Record) /\ Len(Append(q, r)) = Len(q) + 1
      /\ \A i \in 1..Len(q) : Append(q, r)[i] = q[i]
      /\ Append(q, r)[Len(q) + 1] = r
  OBVIOUS
<1>2. \A i \in 1..(Len(q) + 1) : i \in 1..Len(q) \/ i = Len(q) + 1
  BY <1>1
<1>3. Len(q) + 1 \in 1..(Len(q) + 1) /\ \A i \in 1..Len(q) : i \in 1..(Len(q) + 1)
  BY <1>1
<1> QED
  BY <1>1, <1>2, <1>3 DEF Line

\* The line stays in order behind which a record joins that owes nothing else.
LEMMA AppendOrder ==
  ASSUME NEW q \in Seq(Record), NEW r \in Record, InOrder(q), Due(r, {hand} \cup Line(q))
  PROVE  InOrder(Append(q, r))
<1> DEFINE p == Append(q, r)
<1>1. /\ Len(p) = Len(q) + 1 /\ (\A i \in 1..Len(q) : p[i] = q[i]) /\ p[Len(q) + 1] = r
      /\ Len(q) \in Nat
  BY Appended
<1> HIDE DEF p
<1>2. \A i \in 1..Len(q) : Ahead(p, i) = Ahead(q, i)
  <2>1. \A i \in 1..Len(q) : \A j \in 1..(i - 1) : p[j] = q[j]
    BY <1>1
  <2> QED
    BY <2>1 DEF Ahead
<1>3. Ahead(p, Len(q) + 1) = {hand} \cup Line(q)
  BY <1>1 DEF Ahead, Line
<1>4. \A i \in 1..Len(p) : i \in 1..Len(q) \/ i = Len(q) + 1
  BY <1>1
<1>5. \A i \in 1..Len(p) : Due(p[i], Ahead(p, i))
  BY <1>1, <1>2, <1>3, <1>4 DEF InOrder
<1> QED
  BY <1>5 DEF InOrder, p

\* What takes effect when r is written.
Settled(r) == /\ r.k = "event" => <<r.c, r.n>> \in stored
              /\ r.k = "gap" => [c |-> r.c, n |-> r.n] \in gaps

\* PostgreSQL forgets nothing.
Grown == /\ stored \subseteq stored' /\ gaps \subseteq gaps'
         /\ \A c \in Sessions : session[c] # "none" => session'[c] # "none"

\* What was due stays due, while those ahead of it are still there or have been written.
LEMMA DueStays ==
  ASSUME NEW r \in Record, NEW A, NEW B, Due(r, A),
         stored \subseteq stored', gaps \subseteq gaps', used \subseteq used',
         accepted \in [Sessions -> Nat], accepted' \in [Sessions -> Nat],
         accepted'[r.c] >= accepted[r.c],
         r.k = "finish" => accepted'[r.c] = accepted[r.c],
         \A q \in Record : q \in A => q \in B \/ Settled(q)'
  PROVE  Due(r, B)'
<1>1. r.c \in Sessions /\ r.n \in Nat
  BY RecordFields
<1>2. Before(r)' = Before(r) /\ \A m \in 1..Before(r) : m \in Nat
  BY <1>1 DEF Before
<1>3. ASSUME NEW m \in 1..Before(r)
      PROVE  <<r.c, m>> \in stored' \/ EventOf(r.c, m) \in B
  <2>1. CASE <<r.c, m>> \in stored
    BY <2>1
  <2>2. CASE EventOf(r.c, m) \in A
    <3>1. EventOf(r.c, m) \in Record
      BY <1>1, <1>2, MakesRecord DEF EventOf, Kinds
    <3>2. Settled(EventOf(r.c, m))' => <<r.c, m>> \in stored'
      BY DEF Settled, EventOf
    <3> QED
      BY <2>2, <3>1, <3>2
  <2> QED
    BY <2>1, <2>2 DEF Due
<1>4. ASSUME r.k \in {"finish", "recovered"}
      PROVE  [c |-> r.c, n |-> r.n] \in gaps' \/ [k |-> "gap", c |-> r.c, n |-> r.n] \in B
  <2> DEFINE g == [k |-> "gap", c |-> r.c, n |-> r.n]
  <2>1. CASE [c |-> r.c, n |-> r.n] \in gaps
    BY <2>1
  <2>2. CASE g \in A
    <3>1. g \in Record
      BY <1>1, MakesRecord DEF Kinds
    <3>2. Settled(g)' => [c |-> r.c, n |-> r.n] \in gaps'
      BY DEF Settled
    <3> QED
      BY <2>2, <3>1, <3>2
  <2> QED
    BY <2>1, <2>2, <1>4 DEF Due
<1>5. /\ r.c \in used'
      /\ r.k = "event" => r.n \in 1..accepted'[r.c]
      /\ r.k = "finish" => r.n = accepted'[r.c]
  BY <1>1 DEF Due
<1> QED
  BY <1>2, <1>3, <1>4, <1>5 DEF Due

----------------------------------------------------------------------------
(* What PostgreSQL holds. *)

LEMMA NumberIs ==
  ASSUME stored \subseteq Events, NEW c \in Sessions, NEW m
  PROVE  m \in Number(c) <=> <<c, m>> \in stored
<1>1. \A e \in stored : e = <<e[1], e[2]>>
  BY DEF Events
<1> QED
  BY <1>1 DEF Number

LEMMA StoredEvents ==
  ASSUME stored \subseteq Events, StoredInv, NEW c \in Sessions, NEW m, <<c, m>> \in stored
  PROVE  m \in Nat /\ m \in 1..accepted[c] /\ Known(c, m)
BY DEF StoredInv, Events

\* What ListOrphans counts of a session is a beginning of it, without a hole.
LEMMA CountIsPrefix ==
  ASSUME TypeOK, StoredInv, NEW c \in Sessions
  PROVE  Count(c) \in Nat /\ Known(c, Count(c))
<1> DEFINE Final == {k \in Nat : <<c, k + 1>> \notin stored}
<1>1. stored \subseteq Events /\ accepted[c] \in Nat
  BY DEF TypeOK
<1>2. accepted[c] \in Final
  <2>1. <<c, accepted[c] + 1>> \in stored => accepted[c] + 1 \in 1..accepted[c]
    BY <1>1, StoredEvents
  <2> QED
    BY <2>1, <1>1
<1>3. PICK m \in Final : \A k \in Final : ~(<<k, m>> \in OpToRel(<, Nat))
  <2>1. Final \subseteq Nat /\ Final # {}
    BY <1>2
  <2> HIDE DEF Final
  <2> QED
    BY <2>1, NatLessThanWellFounded, WFMin
<1>4. m \in Nat /\ <<c, m + 1>> \notin stored /\ \A k \in Final : ~(k < m)
  BY <1>3 DEF OpToRel
<1>5. ASSUME NEW k \in 1..m PROVE <<c, k>> \in stored
  <2>1. k - 1 \in Nat /\ k - 1 < m /\ (k - 1) + 1 = k
    BY <1>4
  <2>2. k - 1 \notin Final
    BY <2>1, <1>4
  <2> QED
    BY <2>1, <2>2
<1>6. ASSUME NEW k, <<c, k>> \in stored PROVE k \in 1..m
  <2>1. k \in Nat /\ k >= 1 /\ Known(c, k)
    BY <1>1, <1>6, StoredEvents
  <2>2. CASE k > m
    <3>1. m + 1 \in 1..k
      BY <2>1, <2>2, <1>4
    <3> QED
      BY <3>1, <2>1, <1>4 DEF Known
  <2> QED
    BY <2>1, <2>2, <1>4
<1>7. Number(c) = 1..m
  BY <1>1, <1>5, <1>6, NumberIs
<1>8. Count(c) = m
  BY <1>4, <1>7, FS_Interval DEF Count
<1> QED
  BY <1>4, <1>5, <1>8 DEF Known

\* No write changes more than it says.
LEMMA PersistWrites ==
  ASSUME TypeOK, NEW r \in Record, Persist(r)
  PROVE  /\ Grown /\ Settled(r)'
         /\ stored' \subseteq Events /\ gaps' \subseteq Orphan
         /\ session' \in [Sessions -> {"none", "open", "own", "orphan"}]
         /\ total' \in [Sessions -> Nat]
         /\ r.k = "start" => session'[r.c] # "none"
<1>1. r.c \in Sessions /\ r.n \in Nat /\ [c |-> r.c, n |-> r.n] \in Orphan
  BY RecordFields
<1>2. /\ stored \subseteq Events /\ gaps \subseteq Orphan
      /\ session \in [Sessions -> {"none", "open", "own", "orphan"}] /\ total \in [Sessions -> Nat]
  BY DEF TypeOK
<1>3. CASE r.k = "start" /\ Started(r.c)
  BY <1>1, <1>2, <1>3 DEF Started, Grown, Settled
<1>4. CASE r.k = "event" /\ Stored(r.c, r.n)
  BY <1>1, <1>2, <1>4 DEF Stored, Grown, Settled, Events
<1>5. CASE r.k = "gap" /\ Marked(r.c, r.n)
  BY <1>1, <1>2, <1>5 DEF Marked, Grown, Settled
<1>6. ASSUME NEW by \in {"own", "orphan"}, r.k \in {"finish", "recovered"}, Finish(r.c, by, r.n)
      PROVE  /\ Grown /\ Settled(r)'
             /\ stored' \subseteq Events /\ gaps' \subseteq Orphan
             /\ session' \in [Sessions -> {"none", "open", "own", "orphan"}]
             /\ total' \in [Sessions -> Nat]
  BY <1>1, <1>2, <1>6 DEF Finish, Finishes, Grown, Settled
<1> QED
  BY <1>3, <1>4, <1>5, <1>6 DEF Persist

\* A record whose story is complete makes PostgreSQL say nothing that is not true, however
\* late and however often it is written.
LEMMA PersistKeeps ==
  ASSUME TypeOK, DurableInv, NEW r \in Record, Ready(r), EndsNothing(r), Persist(r),
         accepted' = accepted, used' = used, reader' = reader
  PROVE  DurableInv'
<1>1. /\ r.c \in Sessions /\ r.n \in Nat /\ [c |-> r.c, n |-> r.n] \in Orphan /\ r.k \in Kinds
      /\ stored \subseteq Events /\ gaps \subseteq Orphan /\ accepted \in [Sessions -> Nat]
      /\ session \in [Sessions -> {"none", "open", "own", "orphan"}] /\ total \in [Sessions -> Nat]
  BY RecordFields DEF TypeOK
<1>2. /\ r.c \in used
      /\ r.k = "event" => r.n \in 1..accepted[r.c] /\ Known(r.c, r.n - 1)
      /\ r.k = "gap" => Known(r.c, r.n)
      /\ r.k \in {"finish", "recovered"} => [c |-> r.c, n |-> r.n] \in gaps
      /\ r.k = "finish" => r.n = accepted[r.c]
  BY DEF Ready, Due, Before, Known
<1>3. \A c, n : Known(c, n) => (stored \subseteq stored' => Known(c, n)')
  BY DEF Known
<1>4. CASE r.k = "start" /\ Started(r.c)
  <2>1. /\ stored' = stored /\ gaps' = gaps /\ total' = total
        /\ session' = session \/ session' = [session EXCEPT ![r.c] = "open"]
    BY <1>4 DEF Started
  <2>2. StoredInv' /\ GapsInv'
    BY <2>1 DEF DurableInv, StoredInv, GapsInv, Known
  <2>3. ASSUME NEW c \in Sessions PROVE RowInv(c)'
    BY <2>1, <1>1, <1>2, <1>4 DEF DurableInv, RowInv, Started
  <2> QED
    BY <2>2, <2>3 DEF DurableInv
<1>5. CASE r.k = "event" /\ Stored(r.c, r.n)
  <2>1. stored' = stored \cup {<<r.c, r.n>>} /\ gaps' = gaps /\ session' = session /\ total' = total
    BY <1>5 DEF Stored
  <2>2. \A c \in Sessions : RowInv(c)'
    BY <2>1 DEF DurableInv, RowInv
  <2>3. GapsInv'
    BY <2>1, <1>3 DEF DurableInv, GapsInv
  <2>4. Known(r.c, r.n)'
    BY <2>1, <1>1, <1>2, <1>5 DEF Known
  <2>5. StoredInv'
    BY <2>1, <2>4, <1>2, <1>3, <1>5 DEF DurableInv, StoredInv
  <2> QED
    BY <2>2, <2>3, <2>5 DEF DurableInv
<1>6. CASE r.k = "gap" /\ Marked(r.c, r.n)
  <2>1. gaps' = gaps \cup {[c |-> r.c, n |-> r.n]} /\ stored' = stored /\ session' = session /\ total' = total
    BY <1>6 DEF Marked
  <2>2. \A c \in Sessions : RowInv(c)'
    BY <2>1 DEF DurableInv, RowInv
  <2>3. StoredInv'
    BY <2>1 DEF DurableInv, StoredInv, Known
  <2>4. GapsInv'
    BY <2>1, <1>2, <1>3, <1>6 DEF DurableInv, GapsInv
  <2> QED
    BY <2>2, <2>3, <2>4 DEF DurableInv
<1>7. ASSUME NEW by \in {"own", "orphan"}, r.k \in {"finish", "recovered"}, Finish(r.c, by, r.n),
             by = "own" => r.k = "finish"
      PROVE  DurableInv'
  <2>1. gaps' = gaps /\ stored' = stored
    BY <1>7 DEF Finish
  <2>2. StoredInv' /\ GapsInv'
    BY <2>1 DEF DurableInv, StoredInv, GapsInv, Known
  <2>3. ASSUME NEW c \in Sessions PROVE RowInv(c)'
    <3>1. CASE session[r.c] # "open" \/ c # r.c
      <4>1. session'[c] = session[c] /\ total'[c] = total[c]
        BY <3>1, <1>1, <1>7 DEF Finish, Finishes
      <4> QED
        BY <4>1, <2>1 DEF DurableInv, RowInv
    <3>2. CASE session[r.c] = "open" /\ c = r.c
      <4>1. session'[c] = by /\ total'[c] = r.n
        BY <3>2, <1>1, <1>7 DEF Finish, Finishes
      <4>2. c # reader.c /\ [c |-> c, n |-> r.n] \in gaps /\ c \in used
        BY <3>2, <1>2, <1>7 DEF EndsNothing
      <4>3. by = "own" => r.n = accepted[c]
        BY <3>2, <1>2, <1>7
      <4> QED
        BY <4>1, <4>2, <4>3, <2>1 DEF RowInv
    <3> QED
      BY <3>1, <3>2
  <2> QED
    BY <2>2, <2>3 DEF DurableInv
<1> QED
  BY <1>4, <1>5, <1>6, <1>7 DEF Persist

----------------------------------------------------------------------------
(* The reader. *)

ReaderStates == [at : {"idle", "barrier", "recv", "live", "saving", "closing", "done"},
                 c : Sessions \cup {None}]
RunStates    == {"down", "listing", "recovering", "running", "stopping", "joining"}

\* What a step of the reader leaves alone.
Behind == UNCHANGED <<hand, todo, closing, durable, stray>>

LEMMA ReaderTypes ==
  ASSUME TypeOK, Behind, run' \in RunStates, reader' \in ReaderStates,
         reader'.c = None <=> reader'.at \in {"idle", "done"},
         barrier' \in BOOLEAN, accepted' \in [Sessions -> Nat],
         queue' \in Seq(Record), Len(queue') <= QueueMax, used' \subseteq Sessions,
         spent' \in [events : Nat, faults : Nat, restarts : Nat]
  PROVE  TypeOK'
BY DEF TypeOK, Behind, durable, ReaderStates, RunStates

LEMMA SpendTypes ==
  ASSUME TypeOK, NEW k \in {"events", "faults", "restarts"}, NEW max,
         Spend(k, max) \/ UNCHANGED spent
  PROVE  spent' \in [events : Nat, faults : Nat, restarts : Nat]
<1>1. spent \in [events : Nat, faults : Nat, restarts : Nat]
  BY DEF TypeOK
<1>2. CASE Spend(k, max)
  <2>1. spent' = [spent EXCEPT ![k] = spent[k] + 1]
    BY <1>2 DEF Spend
  <2> QED
    BY <2>1, <1>1
<1> QED
  BY <1>1, <1>2

\* The line after a step of the reader that accepts nothing.
LEMMA ReaderFrame ==
  ASSUME Inv, TypeOK', Behind, accepted' = accepted, used' = used,
         reader'.c \in {reader.c, None}, InOrder(queue'),
         \A r \in Line(queue') : r \in Line(queue) \/ EndsNothing(r)'
  PROVE  OrderInv' /\ EndedInv' /\ DurableInv'
<1>1. /\ hand' = hand /\ todo' = todo /\ closing' = closing /\ stray' = stray
      /\ session' = session /\ total' = total /\ gaps' = gaps /\ stored' = stored
  BY DEF Behind, durable
<1>2. OrderInv'
  <2>1. \A r, A : Due(r, A)' <=> Due(r, A)
    BY <1>1 DEF Due, Before
  <2>2. InOrder(queue)'
    BY <2>1, <1>1 DEF InOrder, Ahead
  <2>3. \A r : Ready(r)' <=> Ready(r)
    BY <2>1 DEF Ready
  <2> QED
    BY <2>2, <2>3, <1>1 DEF Inv, OrderInv, GapOf, FinishOf
<1>3. None \notin Sessions /\ \A r \in Record : r.c \in Sessions
  BY NoneIsNothing, RecordFields
<1>4. \A r \in Record : EndsNothing(r) => EndsNothing(r)'
  BY <1>3 DEF EndsNothing
<1>5. Line(queue) \subseteq Record /\ stray \subseteq Record /\ (hand # None => hand \in Record)
  BY LineIsRecords DEF Inv, TypeOK
<1>6. EndedInv'
  <2>1. \A r \in Line(queue') : EndsNothing(r)'
    BY <1>4, <1>5 DEF Inv, EndedInv
  <2>2. Line(queue)' = Line(queue')
    BY DEF Line
  <2> QED
    BY <2>1, <2>2, <1>1, <1>4, <1>5 DEF Inv, EndedInv
<1>7. DurableInv'
  <2>1. StoredInv' /\ GapsInv'
    BY <1>1 DEF Inv, DurableInv, StoredInv, GapsInv, Known
  <2>2. \A c \in Sessions : RowInv(c)'
    BY <1>1, <1>3 DEF Inv, DurableInv, RowInv
  <2> QED
    BY <2>1, <2>2 DEF DurableInv
<1> QED
  BY <1>2, <1>6, <1>7

\* A reader that reads has left no start behind, and is in a running process.
LEMMA Reading ==
  ASSUME Inv, reader.at \in {"recv", "live", "saving", "closing"}
  PROVE  /\ reader.c \in Sessions /\ reader.c \in used /\ reader.c # None
         /\ run \in {"running", "stopping", "joining"} /\ todo = {} /\ closing = None
         /\ hand # None => hand.k # "start"
         /\ \A i \in 1..Len(queue) : queue[i].k # "start"
         /\ queue \in Seq(Record) /\ Len(queue) \in Nat
         /\ session[reader.c] # "none"
<1>1. TypeOK /\ SentInv /\ StartInv /\ RunInv
  BY DEF Inv
<1>2. reader.c # None /\ reader.c \in Sessions /\ queue \in Seq(Record) /\ run \in RunStates
  BY <1>1 DEF TypeOK, RunStates
<1>3. run \in {"running", "stopping", "joining"}
  BY <1>1, <1>2 DEF RunInv, Off, RunStates
<1> QED
  BY <1>1, <1>2, <1>3 DEF SentInv, StartInv, RunInv, Awaited

\* A line without a start, and a reader that waits for none.
LEMMA NothingAwaited ==
  ASSUME hand' # None => hand'.k # "start", \A i \in 1..Len(queue') : queue'[i].k # "start",
         reader'.at # "barrier"
  PROVE  StartInv'
BY DEF StartInv

\* The gap and the finish, behind all the events of their session.
LEMMA FinalsInOrder ==
  ASSUME TypeOK, NEW q \in Seq(Record), InOrder(q), NEW c \in Sessions, c \in used,
         \A i \in 1..Len(q) : q[i].k # "start",
         \A m \in 1..accepted[c] : <<c, m>> \in stored \/ EventOf(c, m) \in {hand} \cup Line(q),
         Len(q) + 2 <= QueueMax,
         queue' = Append(Append(q, Rec("gap", c)), Rec("finish", c))
  PROVE  /\ queue' \in Seq(Record) /\ Len(queue') <= QueueMax /\ InOrder(queue')
         /\ \A i \in 1..Len(queue') : queue'[i].k # "start"
         /\ \A r \in Line(queue') : r \in Line(q) \/ r.k = "gap" \/ (r.k = "finish" /\ r.c = c)
<1> DEFINE g == Rec("gap", c)
           f == Rec("finish", c)
           p == Append(q, g)
<1>1. /\ g \in Record /\ g.k = "gap" /\ g.c = c /\ g.n = accepted[c]
      /\ f \in Record /\ f.k = "finish" /\ f.c = c /\ f.n = accepted[c]
      /\ [k |-> "gap", c |-> f.c, n |-> f.n] = g
  BY DEF TypeOK, Rec, Record, Kinds
<1>2. Len(q) \in Nat /\ queue' = Append(p, f)
  OBVIOUS
<1> HIDE DEF g, f
<1>3. /\ p \in Seq(Record) /\ Len(p) = Len(q) + 1 /\ Line(p) = Line(q) \cup {g}
      /\ \A i \in 1..Len(q) : p[i] = q[i]
      /\ p[Len(q) + 1] = g
  BY <1>1, Appended
<1>4. InOrder(p)
  <2>1. Due(g, {hand} \cup Line(q))
    BY <1>1 DEF Due, Before
  <2> QED
    BY <2>1, <1>1, AppendOrder
<1> HIDE DEF p
<1>5. /\ queue' \in Seq(Record) /\ Len(queue') = Len(p) + 1 /\ Line(queue') = Line(p) \cup {f}
      /\ \A i \in 1..Len(p) : queue'[i] = p[i]
      /\ queue'[Len(p) + 1] = f
  <2>1. /\ Append(p, f) \in Seq(Record) /\ Len(Append(p, f)) = Len(p) + 1
        /\ Line(Append(p, f)) = Line(p) \cup {f}
        /\ \A i \in 1..Len(p) : Append(p, f)[i] = p[i]
        /\ Append(p, f)[Len(p) + 1] = f
    BY <1>1, <1>3, Appended
  <2> QED
    BY <2>1, <1>2
<1>6. InOrder(queue')
  <2>1. Due(f, {hand} \cup Line(p))
    BY <1>1, <1>3 DEF Due, Before
  <2> QED
    BY <2>1, <1>1, <1>2, <1>3, <1>4, AppendOrder
<1>7. \A i \in 1..Len(p) : p[i].k # "start"
  <2>1. \A i \in 1..Len(p) : i \in 1..Len(q) \/ i = Len(q) + 1
    BY <1>2, <1>3
  <2> QED
    BY <2>1, <1>1, <1>3
<1>8. \A i \in 1..Len(queue') : queue'[i].k # "start"
  <2>1. \A i \in 1..Len(queue') : i \in 1..Len(p) \/ i = Len(p) + 1
    BY <1>2, <1>3, <1>5
  <2> QED
    BY <2>1, <1>1, <1>5, <1>7
<1>9. Len(queue') <= QueueMax
  BY <1>2, <1>3, <1>5, QueueLimits
<1> QED
  BY <1>1, <1>3, <1>5, <1>6, <1>8, <1>9

LEMMA SubscribedKeeps == ASSUME Inv, Subscribed PROVE Inv'
<1>1. /\ Behind /\ used' = used /\ run' = run /\ accepted' = accepted /\ queue' = queue
      /\ barrier' = barrier /\ spent' = spent
      /\ reader.at = "barrier" /\ barrier /\ reader' = [reader EXCEPT !.at = "recv"]
  BY DEF Subscribed, BarrierPassed, ReaderKeeps, Behind
<1>2. TypeOK
  BY DEF Inv
<1>3. reader.c # None /\ reader' \in ReaderStates /\ reader'.at = "recv" /\ reader'.c = reader.c
  BY <1>1, <1>2 DEF TypeOK, ReaderStates
<1>4. TypeOK'
  BY <1>1, <1>2, <1>3, ReaderTypes DEF TypeOK, RunStates
<1>5. OrderInv' /\ EndedInv' /\ DurableInv'
  BY <1>1, <1>3, <1>4, ReaderFrame DEF Inv, OrderInv
<1>6. queue = <<>> /\ session[reader.c] # "none" /\ reader.c \in used /\ accepted[reader.c] = 0
  BY <1>1, <1>3 DEF Inv, StartInv, SentInv
<1>7. SentInv'
  <2>1. session' = session
    BY <1>1 DEF Behind, durable
  <2> QED
    BY <2>1, <1>1, <1>3, <1>6 DEF SentInv, Sent
<1>8. RoomInv'
  <2>1. Len(queue') = 0
    BY <1>1, <1>6
  <2> QED
    BY <2>1, <1>3, QueueLimits DEF RoomInv
<1>9. StartInv'
  <2>1. hand' = hand /\ Len(queue') = 0
    BY <1>1, <1>6 DEF Behind
  <2>2. hand # None => hand.k # "start"
    BY <1>1 DEF Inv, StartInv, Awaited
  <2> QED
    BY <2>1, <2>2, <1>3, NothingAwaited
<1>10. RunInv'
  BY <1>1 DEF Inv, RunInv, Off, Behind
<1> QED
  BY <1>4, <1>5, <1>7, <1>8, <1>9, <1>10 DEF Inv

\* A message is counted; its session is open and its reader is there.
LEMMA AcceptKeeps == ASSUME Inv, Accept PROVE Inv'
<1> DEFINE c == reader.c
<1>1. /\ Behind /\ used' = used /\ run' = run /\ queue' = queue /\ barrier' = barrier
      /\ reader.at = "recv" /\ Spend("events", MaxEvents)
      /\ accepted' = [accepted EXCEPT ![c] = accepted[c] + 1]
      /\ reader' = [reader EXCEPT !.at = "live"]
  BY DEF Accept, ReaderKeeps, Behind
<1>2. TypeOK
  BY DEF Inv
<1>3. /\ c \in Sessions /\ c \in used /\ run \in {"running", "stopping", "joining"}
      /\ session[c] # "none"
      /\ hand # None => hand.k # "start"
      /\ \A i \in 1..Len(queue) : queue[i].k # "start"
  BY <1>1, Reading
<1>4. /\ accepted \in [Sessions -> Nat] /\ accepted' \in [Sessions -> Nat]
      /\ accepted'[c] = accepted[c] + 1 /\ accepted[c] \in Nat
      /\ \A d \in Sessions : accepted'[d] >= accepted[d] /\ (d # c => accepted'[d] = accepted[d])
  BY <1>1, <1>2, <1>3 DEF TypeOK
<1>5. reader' \in ReaderStates /\ reader'.at = "live" /\ reader'.c = c /\ c # None
  BY <1>1, <1>2, <1>3, NoneIsNothing DEF TypeOK, ReaderStates
<1>6. TypeOK'
  <2>1. spent' \in [events : Nat, faults : Nat, restarts : Nat]
    BY <1>1, <1>2, SpendTypes
  <2> QED
    BY <2>1, <1>1, <1>2, <1>4, <1>5, ReaderTypes DEF TypeOK, RunStates
<1>7. /\ hand' = hand /\ todo' = todo /\ closing' = closing /\ stray' = stray
      /\ session' = session /\ total' = total /\ gaps' = gaps /\ stored' = stored
  BY <1>1 DEF Behind, durable
<1> HIDE DEF c
<1>8. ASSUME NEW r \in Record, NEW A, Due(r, A), EndsNothing(r) PROVE Due(r, A)'
  <2>1. r.c \in Sessions
    BY RecordFields
  <2>2. r.k = "finish" => r.c # c
    BY <1>8 DEF EndsNothing, c
  <2> QED
    BY <2>1, <2>2, <1>1, <1>4, <1>7, <1>8, DueStays
<1>9. Line(queue) \subseteq Record /\ stray \subseteq Record /\ (hand # None => hand \in Record)
  BY <1>2, LineIsRecords DEF TypeOK
<1>10. OrderInv'
  <2>1. (hand # None => Ready(hand))' /\ (\A r \in stray : Ready(r))'
    BY <1>7, <1>8, <1>9 DEF Inv, OrderInv, EndedInv, Ready
  <2>2. InOrder(queue)'
    <3>1. SUFFICES ASSUME NEW i \in 1..Len(queue) PROVE Due(queue[i], Ahead(queue, i))'
      BY <1>1 DEF InOrder
    <3>2. queue[i] \in Line(queue) /\ Due(queue[i], Ahead(queue, i))
      BY DEF Line, Inv, OrderInv, InOrder
    <3>3. PICK r, A : r = queue[i] /\ A = Ahead(queue, i)
      OBVIOUS
    <3>4. Due(r, A)'
      BY <3>2, <3>3, <1>8, <1>9 DEF Inv, EndedInv
    <3>5. queue'[i] = r /\ Ahead(queue, i)' = A
      BY <3>3, <1>1, <1>7 DEF Ahead
    <3> QED
      BY <3>4, <3>5 DEF Due, Before
  <2>3. todo = {} /\ closing = None
    BY <1>1, Reading
  <2> QED
    BY <2>1, <2>2, <2>3, <1>7 DEF OrderInv
<1>11. EndedInv'
  BY <1>1, <1>5, <1>7 DEF Inv, EndedInv, EndsNothing, Line, c
<1>12. DurableInv'
  <2>1. StoredInv'
    <3>1. \A e \in stored : e[1] \in Sessions /\ e[2] \in 1..accepted[e[1]] /\ Known(e[1], e[2])
      BY <1>2 DEF Inv, DurableInv, StoredInv, TypeOK, Events
    <3>2. \A e \in stored : e[2] \in 1..accepted'[e[1]]
      BY <3>1, <1>4
    <3> QED
      BY <3>1, <3>2, <1>7 DEF StoredInv, Known
  <2>2. GapsInv'
    BY <1>7 DEF Inv, DurableInv, GapsInv, Known
  <2>3. ASSUME NEW d \in Sessions PROVE RowInv(d)'
    BY <1>1, <1>3, <1>4, <1>5, <1>7 DEF Inv, DurableInv, RowInv, c
  <2> QED
    BY <2>1, <2>2, <2>3 DEF DurableInv
<1>13. SentInv'
  <2>1. Sent = accepted[c] /\ Sent' = accepted[c]
    BY <1>1, <1>4, <1>5 DEF Sent, c
  <2>2. \A m \in 1..accepted[c] : <<c, m>> \in stored \/ EventOf(c, m) \in {hand} \cup Line(queue)
    BY <2>1, <1>1 DEF Inv, SentInv, c
  <2>3. Line(queue)' = Line(queue)
    BY <1>1 DEF Line
  <2> QED
    BY <2>1, <2>2, <2>3, <1>1, <1>3, <1>4, <1>5, <1>7 DEF SentInv, EventOf
<1>14. RoomInv'
  BY <1>1, <1>5 DEF Inv, RoomInv
<1>15. StartInv'
  BY <1>1, <1>3, <1>5, <1>7, NothingAwaited
<1>16. RunInv'
  BY <1>1, <1>3, <1>7 DEF Inv, RunInv
<1> QED
  BY <1>6, <1>10, <1>11, <1>12, <1>13, <1>14, <1>15, <1>16 DEF Inv

\* The event joins the line; at the capacity it takes a place of the reserve, and the reader stops.
LEMMA LiveEndsKeeps == ASSUME Inv, LiveEnds PROVE Inv'
<1> DEFINE c == reader.c
           e == Rec("event", c)
<1>1. /\ Behind /\ used' = used /\ run' = run /\ accepted' = accepted /\ barrier' = barrier
      /\ spent' = spent /\ reader.at = "live" /\ queue' = Offer(queue, e)
      /\ reader' = [reader EXCEPT !.at = IF Len(queue) < Capacity THEN "recv" ELSE "closing"]
  BY DEF LiveEnds, ReaderKeeps, Behind
<1>2. TypeOK /\ reader.at = "live" /\ Len(queue) <= Capacity /\ Len(queue) \in Nat
  BY <1>1, Reading DEF Inv, RoomInv
<1>3. /\ c \in Sessions /\ c # None /\ c \in used /\ run \in {"running", "stopping", "joining"}
      /\ session[c] # "none" /\ queue \in Seq(Record)
      /\ hand # None => hand.k # "start"
      /\ \A i \in 1..Len(queue) : queue[i].k # "start"
  BY <1>1, Reading
<1>4. queue' = Append(queue, e)
  BY <1>1, <1>2, QueueLimits DEF Offer, Room
<1>5. /\ e \in Record /\ e = EventOf(c, accepted[c]) /\ e.k = "event" /\ e.c = c /\ e.n = accepted[c]
      /\ accepted[c] \in Nat /\ accepted[c] > 0
  BY <1>1, <1>2, <1>3 DEF TypeOK, Rec, Record, Kinds, EventOf, Inv, SentInv
<1>6. \A m \in 1..(accepted[c] - 1) :
        <<c, m>> \in stored \/ EventOf(c, m) \in {hand} \cup Line(queue)
  BY <1>1, <1>3 DEF Inv, SentInv, Sent
<1> HIDE DEF e
<1>7. /\ queue' \in Seq(Record) /\ Len(queue') = Len(queue) + 1 /\ Line(queue') = Line(queue) \cup {e}
      /\ \A i \in 1..Len(queue) : queue'[i] = queue[i]
      /\ queue'[Len(queue) + 1] = e
  <2>1. /\ Append(queue, e) \in Seq(Record) /\ Len(Append(queue, e)) = Len(queue) + 1
        /\ Line(Append(queue, e)) = Line(queue) \cup {e}
        /\ \A i \in 1..Len(queue) : Append(queue, e)[i] = queue[i]
        /\ Append(queue, e)[Len(queue) + 1] = e
    BY <1>3, <1>5, Appended
  <2> QED
    BY <2>1, <1>4
<1>8. InOrder(queue')
  <2>1. Due(e, {hand} \cup Line(queue))
    BY <1>3, <1>5, <1>6 DEF Due, Before
  <2>2. InOrder(Append(queue, e))
    BY <2>1, <1>3, <1>5, AppendOrder DEF Inv, OrderInv
  <2> QED
    BY <2>2, <1>4
<1> HIDE DEF c
<1>9. /\ reader' \in ReaderStates /\ reader'.c = c /\ reader'.at \in {"recv", "closing"}
      /\ reader'.at = "recv" => Len(queue) < Capacity
  BY <1>1, <1>2 DEF TypeOK, ReaderStates, c
<1>10. TypeOK'
  <2>1. Len(queue') <= QueueMax
    BY <1>2, <1>7, QueueLimits
  <2> QED
    BY <2>1, <1>1, <1>2, <1>3, <1>7, <1>9, ReaderTypes DEF TypeOK, RunStates
<1>11. OrderInv' /\ EndedInv' /\ DurableInv'
  <2>1. \A r \in Line(queue') : r \in Line(queue) \/ EndsNothing(r)'
    BY <1>5, <1>7 DEF EndsNothing
  <2> QED
    BY <2>1, <1>1, <1>8, <1>9, <1>10, ReaderFrame DEF c
<1>12. SentInv'
  <2>1. Sent' = accepted[c]
    BY <1>1, <1>9 DEF Sent
  <2>2. \A m \in 1..accepted[c] : m \in 1..(accepted[c] - 1) \/ m = accepted[c]
    BY <1>5
  <2>3. \A m \in 1..accepted[c] : <<c, m>> \in stored \/ EventOf(c, m) \in {hand} \cup Line(queue')
    BY <2>2, <1>5, <1>6, <1>7
  <2>4. hand' = hand /\ stored' = stored /\ session' = session /\ Line(queue)' = Line(queue')
    BY <1>1 DEF Behind, durable, Line
  <2> QED
    BY <2>1, <2>3, <2>4, <1>1, <1>3, <1>9 DEF SentInv, EventOf
<1>13. RoomInv'
  BY <1>2, <1>7, <1>9, QueueLimits DEF RoomInv
<1>14. StartInv'
  <2>1. \A i \in 1..Len(queue') : queue'[i].k # "start"
    <3>1. \A i \in 1..Len(queue') : i \in 1..Len(queue) \/ i = Len(queue) + 1
      BY <1>2, <1>7
    <3> QED
      BY <3>1, <1>3, <1>5, <1>7
  <2>2. hand' = hand
    BY <1>1 DEF Behind
  <2> QED
    BY <2>1, <2>2, <1>3, <1>9, NothingAwaited
<1>15. RunInv'
  BY <1>1, <1>3 DEF Inv, RunInv, Behind
<1> QED
  BY <1>10, <1>11, <1>12, <1>13, <1>14, <1>15 DEF Inv

LEMMA BreaksKeeps == ASSUME Inv, Breaks PROVE Inv'
<1>1. /\ Behind /\ used' = used /\ run' = run /\ accepted' = accepted /\ queue' = queue
      /\ barrier' = barrier /\ spent' = spent
      /\ reader.at = "recv" /\ reader' = [reader EXCEPT !.at = "closing"]
  BY DEF Breaks, ReaderKeeps, Behind
<1>2. TypeOK /\ Len(queue) \in Nat
  BY <1>1, Reading DEF Inv
<1>3. /\ run \in {"running", "stopping", "joining"} /\ reader.c \in used /\ reader.c # None
      /\ hand # None => hand.k # "start"
      /\ \A i \in 1..Len(queue) : queue[i].k # "start"
  BY <1>1, Reading
<1>4. reader' \in ReaderStates /\ reader'.at = "closing" /\ reader'.c = reader.c
  BY <1>1, <1>2 DEF TypeOK, ReaderStates
<1>5. TypeOK'
  BY <1>1, <1>2, <1>3, <1>4, ReaderTypes DEF TypeOK, RunStates
<1>6. OrderInv' /\ EndedInv' /\ DurableInv'
  BY <1>1, <1>4, <1>5, ReaderFrame DEF Inv, OrderInv
<1>7. SentInv'
  <2>1. hand' = hand /\ stored' = stored /\ session' = session /\ Line(queue)' = Line(queue)
    BY <1>1 DEF Behind, durable, Line
  <2>2. Sent' = Sent
    BY <1>1, <1>4 DEF Sent
  <2> QED
    BY <2>1, <2>2, <1>1, <1>3, <1>4 DEF Inv, SentInv, EventOf
<1>8. RoomInv'
  BY <1>1, <1>2, <1>4, QueueLimits DEF Inv, RoomInv
<1>9. StartInv'
  <2>1. hand' = hand
    BY <1>1 DEF Behind
  <2> QED
    BY <2>1, <1>1, <1>3, <1>4, NothingAwaited
<1>10. RunInv'
  BY <1>1, <1>3 DEF Inv, RunInv, Behind
<1> QED
  BY <1>5, <1>6, <1>7, <1>8, <1>9, <1>10 DEF Inv

\* The reader is done with its session, and the line is in order.
LEMMA LeaveKeeps ==
  ASSUME Inv, Behind, used' = used, accepted' = accepted, barrier' = barrier,
         reader' \in {Off, Done}, run' \in {run, "stopping"}, run \in {"running", "stopping", "joining"},
         spent' \in [events : Nat, faults : Nat, restarts : Nat],
         queue' \in Seq(Record), Len(queue') <= QueueMax, InOrder(queue'), StartInv'
  PROVE  Inv'
<1>1. TypeOK
  BY DEF Inv
<1>2. /\ reader'.c = None /\ reader'.at \in {"idle", "done"} /\ reader' \in ReaderStates
      /\ run' \in {"running", "stopping", "joining"}
  BY DEF Off, Done, ReaderStates
<1>3. TypeOK'
  BY <1>1, <1>2, ReaderTypes DEF TypeOK, RunStates
<1>4. OrderInv' /\ EndedInv' /\ DurableInv'
  <2>1. \A r \in Line(queue') : EndsNothing(r)'
    BY <1>2, LineIsRecords, RecordFields, NoneIsNothing DEF EndsNothing
  <2> QED
    BY <2>1, <1>2, <1>3, ReaderFrame
<1>5. SentInv' /\ RoomInv'
  BY <1>2 DEF SentInv, RoomInv
<1>6. RunInv'
  BY <1>2 DEF Inv, RunInv, Behind
<1> QED
  BY <1>3, <1>4, <1>5, <1>6 DEF Inv

\* _offer_twap_session_final_records always finds its two places.
LEMMA FinalsKeeps ==
  ASSUME Inv, reader.at \in {"recv", "closing"}, Finals(reader.c),
         Behind, used' = used, accepted' = accepted, barrier' = barrier,
         reader' \in {Off, Done}, run' \in {run, "stopping"},
         spent' \in [events : Nat, faults : Nat, restarts : Nat]
  PROVE  Inv'
<1> DEFINE c == reader.c
           g == Rec("gap", c)
           f == Rec("finish", c)
<1>1. /\ TypeOK /\ c \in Sessions /\ c \in used /\ run \in {"running", "stopping", "joining"}
      /\ queue \in Seq(Record) /\ Len(queue) \in Nat
      /\ hand # None => hand.k # "start"
      /\ \A i \in 1..Len(queue) : queue[i].k # "start"
  BY Reading DEF Inv
<1>2. Len(queue) <= Capacity + 1
  BY <1>1, QueueLimits DEF Inv, RoomInv
<1>3. /\ \A m \in 1..accepted[c] : <<c, m>> \in stored \/ EventOf(c, m) \in {hand} \cup Line(queue)
  BY DEF Inv, SentInv, Sent
<1>4. g \in Record /\ f \in Record
  BY <1>1 DEF TypeOK, Rec, Record, Kinds
<1>5. queue' = Append(Append(queue, g), f)
  <2>1. Room(queue)
    BY <1>1, <1>2, QueueLimits DEF Room
  <2>2. queue' = Offer(Append(queue, g), f)
    BY <2>1 DEF Finals, Offer
  <2>3. Len(Append(queue, g)) = Len(queue) + 1
    BY <1>1, <1>4, Appended
  <2> HIDE DEF g, f
  <2>4. Room(Append(queue, g))
    BY <2>3, <1>1, <1>2, QueueLimits DEF Room
  <2> QED
    BY <2>2, <2>4 DEF Offer
<1>6. Len(queue) + 2 <= QueueMax
  BY <1>1, <1>2, QueueLimits
<1>7. /\ queue' \in Seq(Record) /\ Len(queue') <= QueueMax /\ InOrder(queue')
      /\ \A i \in 1..Len(queue') : queue'[i].k # "start"
  BY <1>1, <1>3, <1>5, <1>6, FinalsInOrder DEF Inv, OrderInv
<1>8. StartInv'
  <2>1. hand' = hand /\ reader'.at # "barrier"
    BY DEF Behind, Off, Done
  <2> QED
    BY <2>1, <1>1, <1>7, NothingAwaited
<1> QED
  BY <1>1, <1>7, <1>8, LeaveKeeps

LEMMA ClosedKeeps == ASSUME Inv, Closed PROVE Inv'
<1>1. /\ reader.at = "closing" /\ Finals(reader.c) /\ reader' = Off /\ Behind /\ used' = used
      /\ accepted' = accepted /\ barrier' = barrier /\ run' = run /\ spent' = spent
  BY DEF Closed, ReaderKeeps, Behind
<1> QED
  BY <1>1, FinalsKeeps DEF Inv, TypeOK

\* A planned restart meets the reader at any await.
LEMMA CancelKeeps == ASSUME Inv, Cancel PROVE Inv'
<1>1. /\ run = "running" /\ run' = "stopping" /\ Behind /\ used' = used
      /\ accepted' = accepted /\ barrier' = barrier /\ Spend("restarts", MaxRestarts)
  BY DEF Cancel, ReaderKeeps, Behind
<1>2. TypeOK /\ spent' \in [events : Nat, faults : Nat, restarts : Nat]
  BY <1>1, SpendTypes DEF Inv
<1>3. CASE reader.at \in {"idle", "barrier"} /\ reader' = Done /\ queue' = queue
  <2>1. StartInv'
    <3>1. hand' = hand /\ reader'.at = "done"
      BY <1>1, <1>3 DEF Behind, Done
    <3>2. \A c : Awaited(c) => Awaited(c)'
      BY <3>1 DEF Awaited
    <3> QED
      BY <3>1, <3>2, <1>3 DEF Inv, StartInv
  <2>2. InOrder(queue') /\ queue' \in Seq(Record) /\ Len(queue') <= QueueMax
    BY <1>2, <1>3 DEF Inv, OrderInv, TypeOK
  <2> QED
    BY <2>1, <2>2, <1>1, <1>2, <1>3, LeaveKeeps
<1>4. CASE reader.at \in {"recv", "closing"} /\ reader' = Done /\ Finals(reader.c)
  BY <1>1, <1>2, <1>4, FinalsKeeps
<1>5. CASE reader.at = "live" /\ reader' = [reader EXCEPT !.at = "saving"] /\ queue' = queue
  <2>1. /\ reader.c \in used /\ reader.c # None /\ todo = {} /\ closing = None
        /\ hand # None => hand.k # "start"
        /\ \A i \in 1..Len(queue) : queue[i].k # "start"
    BY <1>5, Reading
  <2>2. reader' \in ReaderStates /\ reader'.at = "saving" /\ reader'.c = reader.c
    BY <1>2, <1>5 DEF TypeOK, ReaderStates
  <2>3. TypeOK'
    BY <2>1, <2>2, <1>1, <1>2, <1>5, ReaderTypes DEF TypeOK, RunStates
  <2>4. OrderInv' /\ EndedInv' /\ DurableInv'
    BY <2>2, <2>3, <1>1, <1>5, ReaderFrame DEF Inv, OrderInv
  <2>5. /\ hand' = hand /\ stored' = stored /\ session' = session /\ Line(queue)' = Line(queue)
        /\ todo' = todo /\ closing' = closing
    BY <1>1, <1>5 DEF Behind, durable, Line
  <2>6. SentInv'
    <3>1. Sent' = Sent
      BY <2>2, <1>1, <1>5 DEF Sent
    <3> QED
      BY <3>1, <2>1, <2>2, <2>5, <1>1, <1>5 DEF Inv, SentInv, EventOf
  <2>7. RoomInv'
    BY <2>2, <1>5 DEF Inv, RoomInv
  <2>8. StartInv'
    BY <2>1, <2>2, <2>5, <1>5, NothingAwaited
  <2>9. RunInv'
    BY <2>1, <2>5, <1>1 DEF RunInv
  <2> QED
    BY <2>3, <2>4, <2>6, <2>7, <2>8, <2>9 DEF Inv
<1> QED
  BY <1>3, <1>4, <1>5 DEF Cancel

\* The handoff: the event that Redis held up, then the gap and the finish, all find a place.
LEMMA SavingKeeps == ASSUME Inv, ~RedisOutlasts, SavingEnds PROVE Inv'
<1> DEFINE c == reader.c
           e == Rec("event", c)
           g == Rec("gap", c)
           f == Rec("finish", c)
           q == Append(queue, e)
<1>1. /\ reader.at = "saving" /\ reader' = Done /\ Saved(Offer(queue, e)) /\ Behind /\ used' = used
      /\ accepted' = accepted /\ barrier' = barrier /\ run' = run /\ spent' = spent
  BY DEF SavingEnds, GivenUp, HandoffEnds, ReaderKeeps, Behind
<1>2. /\ TypeOK /\ c \in Sessions /\ c \in used /\ run \in {"running", "stopping", "joining"}
      /\ queue \in Seq(Record) /\ Len(queue) \in Nat /\ Len(queue) <= Capacity
      /\ hand # None => hand.k # "start"
      /\ \A i \in 1..Len(queue) : queue[i].k # "start"
  BY <1>1, Reading DEF Inv, RoomInv
<1>3. /\ e \in Record /\ g \in Record /\ f \in Record
      /\ e = EventOf(c, accepted[c]) /\ e.k = "event" /\ e.c = c /\ e.n = accepted[c]
      /\ accepted[c] \in Nat /\ accepted[c] > 0
  BY <1>1, <1>2 DEF TypeOK, Rec, Record, Kinds, EventOf, Inv, SentInv
<1>4. \A m \in 1..(accepted[c] - 1) :
        <<c, m>> \in stored \/ EventOf(c, m) \in {hand} \cup Line(queue)
  BY <1>1 DEF Inv, SentInv, Sent
<1>5. Offer(queue, e) = q
  BY <1>2, QueueLimits DEF Offer, Room
<1> HIDE DEF e, g, f
<1>6. /\ q \in Seq(Record) /\ Len(q) = Len(queue) + 1 /\ Line(q) = Line(queue) \cup {e}
      /\ \A i \in 1..Len(queue) : q[i] = queue[i]
      /\ q[Len(queue) + 1] = e
  BY <1>2, <1>3, Appended
<1>7. InOrder(q)
  <2>1. Due(e, {hand} \cup Line(queue))
    BY <1>2, <1>3, <1>4 DEF Due, Before
  <2> QED
    BY <2>1, <1>2, <1>3, AppendOrder DEF Inv, OrderInv
<1>8. Saved(q)
  BY <1>1, <1>5
<1> HIDE DEF q
<1>9. queue' = Append(Append(q, g), f)
  <2>1. Room(q)
    BY <1>2, <1>6, QueueLimits DEF Room
  <2>2. queue' = Offer(Append(q, g), f)
    BY <2>1, <1>8 DEF Saved, Offer, c, g, f
  <2>3. Len(Append(q, g)) = Len(q) + 1
    BY <1>3, <1>6, Appended
  <2>4. Room(Append(q, g))
    BY <2>3, <1>2, <1>6, QueueLimits DEF Room
  <2> QED
    BY <2>2, <2>4 DEF Offer
<1>10. \A m \in 1..accepted[c] : <<c, m>> \in stored \/ EventOf(c, m) \in {hand} \cup Line(q)
  <2>1. \A m \in 1..accepted[c] : m \in 1..(accepted[c] - 1) \/ m = accepted[c]
    BY <1>3
  <2> QED
    BY <2>1, <1>3, <1>4, <1>6
<1>11. \A i \in 1..Len(q) : q[i].k # "start"
  <2>1. \A i \in 1..Len(q) : i \in 1..Len(queue) \/ i = Len(queue) + 1
    BY <1>2, <1>6
  <2> QED
    BY <2>1, <1>2, <1>3, <1>6
<1>12. Len(q) + 2 <= QueueMax
  BY <1>2, <1>6, QueueLimits
<1>13. /\ queue' \in Seq(Record) /\ Len(queue') <= QueueMax /\ InOrder(queue')
       /\ \A i \in 1..Len(queue') : queue'[i].k # "start"
  BY <1>2, <1>6, <1>7, <1>9, <1>10, <1>11, <1>12, FinalsInOrder DEF g, f
<1>14. StartInv'
  <2>1. hand' = hand /\ reader'.at # "barrier"
    BY <1>1 DEF Behind, Done
  <2> QED
    BY <2>1, <1>2, <1>13, NothingAwaited
<1> QED
  BY <1>1, <1>2, <1>13, <1>14, LeaveKeeps DEF TypeOK

\* A new session: nothing in the line, in PostgreSQL or behind a dead client is about it.
LEMMA SubscribeKeeps == ASSUME Inv, NEW c \in Sessions, Subscribe(c) PROVE Inv'
<1> DEFINE r == Rec("start", c)
<1>1. /\ run = "running" /\ run' = run /\ reader.at = "idle" /\ c \notin used /\ Room(queue)
      /\ queue' = Append(queue, r) /\ used' = used \cup {c}
      /\ reader' = [at |-> "barrier", c |-> c] /\ barrier' = FALSE
      /\ accepted' = accepted /\ spent' = spent
      /\ hand' = hand /\ todo' = todo /\ closing' = closing /\ stray' = stray
      /\ session' = session /\ total' = total /\ gaps' = gaps /\ stored' = stored
  BY DEF Subscribe, durable
<1>2. TypeOK /\ queue \in Seq(Record) /\ Len(queue) \in Nat
  BY DEF Inv, TypeOK
<1>3. session[c] = "none" /\ accepted[c] = 0
  <2>1. RowInv(c) /\ accepted[c] \in Nat /\ session[c] \in {"none", "open", "own", "orphan"}
    BY <1>2 DEF Inv, DurableInv, TypeOK
  <2>2. session[c] = "none"
    BY <2>1, <1>1 DEF RowInv
  <2>3. ~(accepted[c] > 0)
    BY <2>1, <2>2 DEF RowInv
  <2> QED
    BY <2>1, <2>2, <2>3
<1>4. /\ r \in Record /\ r.k = "start" /\ r.c = c
      /\ reader'.at = "barrier" /\ reader'.c = c /\ reader' \in ReaderStates /\ c # None
  BY <1>1, <1>2, NoneIsNothing DEF TypeOK, Rec, Record, Kinds, ReaderStates
<1> HIDE DEF r
<1>5. /\ queue' \in Seq(Record) /\ Len(queue') = Len(queue) + 1 /\ Line(queue') = Line(queue) \cup {r}
      /\ \A i \in 1..Len(queue) : queue'[i] = queue[i]
      /\ queue'[Len(queue) + 1] = r
  <2>1. /\ Append(queue, r) \in Seq(Record) /\ Len(Append(queue, r)) = Len(queue) + 1
        /\ Line(Append(queue, r)) = Line(queue) \cup {r}
        /\ \A i \in 1..Len(queue) : Append(queue, r)[i] = queue[i]
        /\ Append(queue, r)[Len(queue) + 1] = r
    BY <1>2, <1>4, Appended
  <2> QED
    BY <2>1, <1>1
<1>6. TypeOK'
  <2>1. Len(queue') <= QueueMax
    BY <1>1, <1>2, <1>5, QueueLimits DEF Room
  <2>2. Behind
    BY <1>1 DEF Behind, durable
  <2> QED
    BY <2>1, <2>2, <1>1, <1>2, <1>4, <1>5, ReaderTypes DEF TypeOK, RunStates
<1>7. ASSUME NEW q \in Record, NEW A, Due(q, A) PROVE Due(q, A)'
  <2>1. q.c \in Sessions
    BY RecordFields
  <2>2. accepted'[q.c] >= accepted[q.c] /\ accepted' \in [Sessions -> Nat] /\ accepted \in [Sessions -> Nat]
    BY <2>1, <1>1, <1>2 DEF TypeOK
  <2> QED
    BY <2>2, <1>1, <1>7, DueStays
<1>8. Line(queue) \subseteq Record /\ stray \subseteq Record /\ (hand # None => hand \in Record)
  BY <1>2, LineIsRecords DEF TypeOK
<1>9. OrderInv'
  <2>1. (hand # None => Ready(hand))' /\ (\A q \in stray : Ready(q))'
    BY <1>1, <1>7, <1>8 DEF Inv, OrderInv, Ready
  <2>2. InOrder(queue)'
    <3>1. SUFFICES ASSUME NEW i \in 1..Len(queue') PROVE Due(queue[i], Ahead(queue, i))'
      BY DEF InOrder
    <3>2. CASE i \in 1..Len(queue)
      <4>1. PICK q, A : q = queue[i] /\ A = Ahead(queue, i)
        OBVIOUS
      <4>2. Due(q, A) /\ q \in Record
        BY <3>2, <4>1, <1>8 DEF Inv, OrderInv, InOrder, Line
      <4>3. Due(q, A)'
        BY <4>2, <1>7
      <4>4. \A j \in 1..(i - 1) : queue'[j] = queue[j]
        BY <3>2, <1>2, <1>5
      <4>5. queue'[i] = q /\ Ahead(queue, i)' = A
        BY <3>2, <4>1, <4>4, <1>1, <1>5 DEF Ahead
      <4> QED
        BY <4>3, <4>5 DEF Due, Before
    <3>3. CASE i = Len(queue) + 1
      <4>1. queue'[i] = r
        BY <3>3, <1>5
      <4> QED
        BY <4>1, <1>1, <1>4 DEF Due, Before
    <3> QED
      BY <3>2, <3>3, <1>2, <1>5
  <2>3. todo = {} /\ closing = None
    BY <1>1 DEF Inv, RunInv
  <2> QED
    BY <2>1, <2>2, <2>3, <1>1 DEF OrderInv
<1>10. EndedInv'
  <2>1. \A q \in Line(queue) \cup stray : q.c \in used
    <3>1. \A i \in 1..Len(queue) : queue[i].c \in used
      BY DEF Inv, OrderInv, InOrder, Due
    <3> QED
      BY <3>1 DEF Inv, OrderInv, Ready, Due, Line
  <2>2. hand # None => hand.c \in used
    BY DEF Inv, OrderInv, Ready, Due
  <2>3. Line(queue)' = Line(queue) \cup {r}
    BY <1>5 DEF Line
  <2> QED
    BY <2>1, <2>2, <2>3, <1>1, <1>4 DEF EndedInv, EndsNothing
<1>11. DurableInv'
  <2>1. StoredInv' /\ GapsInv'
    BY <1>1 DEF Inv, DurableInv, StoredInv, GapsInv, Known
  <2>2. \A d \in Sessions : RowInv(d)'
    BY <1>1, <1>3, <1>4 DEF Inv, DurableInv, RowInv
  <2> QED
    BY <2>1, <2>2 DEF DurableInv
<1>12. SentInv' /\ RoomInv'
  BY <1>1, <1>3, <1>4 DEF SentInv, RoomInv
<1>13. StartInv'
  <2>1. hand # None => hand.k # "start"
    BY <1>1 DEF Inv, StartInv, Awaited
  <2>2. \A i \in 1..Len(queue) : queue[i].k # "start"
    BY <1>1 DEF Inv, StartInv, Awaited
  <2>3. \A i \in 1..Len(queue') : i \in 1..Len(queue) \/ i = Len(queue) + 1
    BY <1>2, <1>5
  <2>4. \A i \in 1..Len(queue') : queue'[i].k = "start" => i = Len(queue') /\ queue'[i].c = c
    BY <2>2, <2>3, <1>4, <1>5
  <2> QED
    BY <2>1, <2>4, <1>1, <1>4 DEF StartInv, Awaited
<1>14. RunInv'
  BY <1>1 DEF Inv, RunInv
<1> QED
  BY <1>6, <1>9, <1>10, <1>11, <1>12, <1>13, <1>14 DEF Inv
----------------------------------------------------------------------------
(* The writer. *)

LEMMA NoneIsFree == \A c, m : EventOf(c, m) # None \/ ~(c \in Sessions /\ m \in Nat)
BY NoneIsNothing DEF EventOf, Record, Kinds

\* The head of the queue owes nothing: all that was before it has been written.
LEMMA TakesKeeps == ASSUME Inv, WriterTakes PROVE Inv'
<1>1. /\ hand = None /\ queue # <<>> /\ hand' = Head(queue) /\ queue' = Tail(queue)
      /\ barrier' = barrier /\ spent' = spent /\ run' = run /\ reader' = reader /\ accepted' = accepted
      /\ todo' = todo /\ closing' = closing /\ stray' = stray /\ used' = used
      /\ session' = session /\ total' = total /\ gaps' = gaps /\ stored' = stored
      /\ run \in {"running", "stopping", "joining"}
  BY DEF WriterTakes, WriterKeeps, Writing, durable
<1>2. TypeOK /\ queue \in Seq(Record)
  BY DEF Inv, TypeOK
<1>3. /\ Len(queue) \in Nat /\ Len(queue) > 0 /\ hand' = queue[1] /\ hand' \in Record
      /\ queue' \in Seq(Record) /\ Len(queue') = Len(queue) - 1
      /\ \A i \in 1..Len(queue') : queue'[i] = queue[i + 1] /\ i + 1 \in 1..Len(queue)
  BY <1>1, <1>2
<1>4. 1 \in 1..Len(queue) /\ Len(queue') <= QueueMax /\ Len(queue') <= Len(queue) /\ Len(queue') \in Nat
  <2>1. Len(queue) <= QueueMax
    BY <1>2 DEF TypeOK
  <2> QED
    BY <2>1, <1>3, QueueLimits
<1>5. TypeOK'
  BY <1>1, <1>2, <1>3, <1>4 DEF TypeOK
<1>6. \A r, A : Due(r, A)' <=> Due(r, A)
  BY <1>1 DEF Due, Before
<1>7. Line(queue) = {hand'} \cup Line(queue')
  <2>1. ASSUME NEW i \in 1..Len(queue), i # 1 PROVE i - 1 \in 1..Len(queue') /\ queue'[i - 1] = queue[i]
    <3>1. i \in Nat /\ i - 1 \in 1..Len(queue') /\ (i - 1) + 1 = i
      BY <2>1, <1>3
    <3> QED
      BY <3>1, <1>3
  <2>2. \A i \in 1..Len(queue) : queue[i] \in {hand'} \cup Line(queue')
    BY <2>1, <1>3 DEF Line
  <2>3. \A i \in 1..Len(queue') : queue'[i] \in Line(queue)
    BY <1>3 DEF Line
  <2>4. hand' \in Line(queue)
    BY <1>3, <1>4 DEF Line
  <2>5. Line(queue) \subseteq {hand'} \cup Line(queue')
    BY <2>2 DEF Line
  <2>6. Line(queue') \subseteq Line(queue)
    BY <2>3 DEF Line
  <2> QED
    BY <2>4, <2>5, <2>6
<1>8. OrderInv'
  <2>1. Ready(hand')
    <3>1. Due(queue[1], {None})
      <4>1. Due(queue[1], Ahead(queue, 1))
        BY <1>4 DEF Inv, OrderInv, InOrder
      <4>2. 1..(1 - 1) = {}
        OBVIOUS
      <4>3. Ahead(queue, 1) = {None}
        BY <4>2, <1>1 DEF Ahead
      <4> QED
        BY <4>1, <4>3
    <3>2. hand'.c \in Sessions /\ hand'.n \in Nat
      BY <1>3, RecordFields
    <3>3. [k |-> "gap", c |-> hand'.c, n |-> hand'.n] # None
      BY <3>2, MakesRecord, NoneIsNothing DEF Kinds
    <3>4. \A m \in 1..Before(hand') : EventOf(hand'.c, m) # None
      BY <3>2, NoneIsFree DEF Before
    <3> QED
      BY <3>1, <3>3, <3>4, <1>3 DEF Ready, Due
  <2>2. Ready(hand)'
    <3>1. PICK r : r = hand'
      OBVIOUS
    <3>2. Due(r, {})'
      BY <3>1, <2>1, <1>6 DEF Ready
    <3> QED
      BY <3>1, <3>2 DEF Ready, Due, Before
  <2>3. InOrder(queue)'
    <3>1. SUFFICES ASSUME NEW i \in 1..Len(queue') PROVE Due(queue[i], Ahead(queue, i))'
      BY DEF InOrder
    <3>2. PICK r, A : r = queue[i + 1] /\ A = Ahead(queue, i + 1)
      OBVIOUS
    <3>3. Due(r, A) /\ r \in Record /\ queue'[i] = r
      BY <3>2, <1>2, <1>3 DEF Inv, OrderInv, InOrder
    <3>4. ASSUME NEW q \in Record, q \in A PROVE q \in Ahead(queue, i)'
      <4>1. q # None
        BY NoneIsNothing
      <4>2. PICK j \in 1..((i + 1) - 1) : q = queue[j]
        BY <4>1, <3>2, <3>4, <1>1 DEF Ahead
      <4>3. CASE j = 1
        BY <4>2, <4>3, <1>3 DEF Ahead
      <4>4. CASE j # 1
        <5>1. j - 1 \in 1..(i - 1) /\ j - 1 \in 1..Len(queue') /\ (j - 1) + 1 = j
          BY <4>4, <1>3, <1>4
        <5>2. queue'[j - 1] = q
          BY <5>1, <4>2, <1>3
        <5> QED
          BY <5>1, <5>2 DEF Ahead
      <4> QED
        BY <4>3, <4>4
    <3>5. PICK B : B = Ahead(queue, i)'
      OBVIOUS
    <3>6. r.c \in Sessions
      BY <3>3, RecordFields
    <3>7. Due(r, B)'
      <4>1. accepted'[r.c] >= accepted[r.c] /\ accepted \in [Sessions -> Nat]
        BY <3>6, <1>1, <1>2 DEF TypeOK
      <4> QED
        BY <4>1, <3>3, <3>4, <3>5, <1>1, DueStays
    <3> QED
      BY <3>3, <3>5, <3>7 DEF Due, Before
  <2>4. \A r : Ready(r)' <=> Ready(r)
    BY <1>6 DEF Ready
  <2> QED
    BY <2>2, <2>3, <2>4, <1>1 DEF Inv, OrderInv, GapOf, FinishOf
<1>9. EndedInv'
  <2>1. Line(queue)' = Line(queue')
    BY DEF Line
  <2> QED
    BY <2>1, <1>1, <1>7 DEF Inv, EndedInv, EndsNothing
<1>10. DurableInv'
  <2>1. StoredInv' /\ GapsInv'
    BY <1>1 DEF Inv, DurableInv, StoredInv, GapsInv, Known
  <2>2. \A c \in Sessions : RowInv(c)'
    BY <1>1 DEF Inv, DurableInv, RowInv
  <2> QED
    BY <2>1, <2>2 DEF DurableInv
<1>11. SentInv'
  <2>1. {hand}' \cup Line(queue)' = Line(queue)
    BY <1>7 DEF Line
  <2>2. Sent' = Sent
    BY <1>1 DEF Sent
  <2>3. ASSUME reader.at \in {"recv", "live", "saving", "closing"}, NEW m \in 1..Sent,
               EventOf(reader.c, m) \in {hand} \cup Line(queue)
        PROVE  EventOf(reader.c, m) \in Line(queue)
    <3>1. reader.c \in Sessions /\ accepted[reader.c] \in Nat
      BY <2>3, <1>2, Reading DEF TypeOK
    <3>2. m \in Nat
      BY <3>1 DEF Sent
    <3> QED
      BY <2>3, <3>1, <3>2, <1>1, NoneIsFree
  <2> QED
    BY <2>1, <2>2, <2>3, <1>1 DEF Inv, SentInv, EventOf
<1>12. RoomInv'
  BY <1>1, <1>3, <1>4, QueueLimits DEF Inv, RoomInv
<1>13. StartInv'
  <2>1. \A i \in 1..Len(queue) : queue[i].k = "start" => i = Len(queue) /\ Awaited(queue[i].c)
    BY DEF Inv, StartInv
  <2>2. hand'.k = "start" => queue' = <<>> /\ Awaited(hand'.c)
    <3>1. ASSUME hand'.k = "start" PROVE Len(queue) = 1 /\ Awaited(hand'.c)
      BY <3>1, <2>1, <1>3, <1>4
    <3> QED
      BY <3>1, <1>3
  <2>3. ASSUME NEW i \in 1..Len(queue'), queue'[i].k = "start"
        PROVE  i = Len(queue') /\ Awaited(queue'[i].c)
    <3>1. queue'[i] = queue[i + 1] /\ i + 1 \in 1..Len(queue)
      BY <1>3
    <3>2. i + 1 = Len(queue) /\ Awaited(queue[i + 1].c)
      BY <3>1, <2>1, <2>3
    <3> QED
      BY <3>1, <3>2, <1>3
  <2>4. ~(barrier' /\ reader'.at = "barrier")
    BY <1>1 DEF Inv, StartInv
  <2> QED
    BY <2>2, <2>3, <2>4, <1>1 DEF StartInv, Awaited
<1>14. RunInv'
  BY <1>1 DEF Inv, RunInv
<1> QED
  BY <1>5, <1>8, <1>9, <1>10, <1>11, <1>12, <1>13, <1>14 DEF Inv

\* A step that writes to PostgreSQL what is due, or nothing, and leaves the sessions alone.
Writes == /\ UNCHANGED durable \/ \E r \in Record : Ready(r) /\ EndsNothing(r) /\ Persist(r)
          /\ UNCHANGED <<reader, accepted, used>>

LEMMA WritesKeep ==
  ASSUME Inv, Writes
  PROVE  /\ DurableInv' /\ Grown
         /\ stored' \subseteq Events /\ gaps' \subseteq Orphan
         /\ session' \in [Sessions -> {"none", "open", "own", "orphan"}]
         /\ total' \in [Sessions -> Nat]
<1>1. TypeOK /\ DurableInv /\ reader' = reader /\ accepted' = accepted /\ used' = used
  BY DEF Inv, Writes
<1>2. CASE UNCHANGED durable
  <2>1. session' = session /\ total' = total /\ gaps' = gaps /\ stored' = stored
    BY <1>2 DEF durable
  <2>2. StoredInv' /\ GapsInv'
    BY <2>1, <1>1 DEF DurableInv, StoredInv, GapsInv, Known
  <2>3. \A c \in Sessions : RowInv(c)'
    BY <2>1, <1>1 DEF DurableInv, RowInv
  <2> QED
    BY <2>1, <2>2, <2>3, <1>1 DEF DurableInv, Grown, TypeOK
<1>3. CASE \E r \in Record : Ready(r) /\ EndsNothing(r) /\ Persist(r)
  <2>1. PICK r \in Record : Ready(r) /\ EndsNothing(r) /\ Persist(r)
    BY <1>3
  <2> QED
    BY <2>1, <1>1, PersistWrites, PersistKeeps
<1> QED
  BY <1>2, <1>3 DEF Writes

\* What was ready stays ready.
LEMMA ReadyStays ==
  ASSUME Inv, Writes, NEW r \in Record, NEW A, Due(r, A) PROVE Due(r, A)'
<1>1. Grown /\ accepted' = accepted /\ used' = used
  BY WritesKeep DEF Writes
<1>2. accepted \in [Sessions -> Nat] /\ r.c \in Sessions
  BY RecordFields DEF Inv, TypeOK
<1>3. accepted'[r.c] >= accepted[r.c]
  BY <1>1, <1>2
<1> QED
  BY <1>1, <1>2, <1>3, DueStays DEF Grown

\* A write behind which the line stays as it is.
LEMMA WriteKeeps ==
  ASSUME Inv, Writes, UNCHANGED <<queue, hand, barrier>>, stray' \subseteq stray,
         spent' \in [events : Nat, faults : Nat, restarts : Nat],
         run' \in RunStates, todo' \subseteq todo, closing' \in Orphan \cup {None},
         (closing # None => Ready(FinishOf(closing)))', RunInv'
  PROVE  Inv'
<1>1. /\ reader' = reader /\ accepted' = accepted /\ used' = used
      /\ queue' = queue /\ hand' = hand /\ barrier' = barrier
      /\ DurableInv' /\ Grown
  BY WritesKeep DEF Writes
<1>2. TypeOK
  BY DEF Inv
<1>3. TypeOK'
  BY <1>1, <1>2, WritesKeep DEF TypeOK, RunStates
<1>4. OrderInv'
  <2>1. /\ Line(queue) \subseteq Record /\ stray \subseteq Record /\ (hand # None => hand \in Record)
        /\ todo \subseteq Orphan
    BY <1>2, LineIsRecords DEF TypeOK
  <2>2. \A r \in Record : Ready(r) => Ready(r)'
    BY ReadyStays DEF Ready
  <2>3. (hand # None => Ready(hand))' /\ (\A r \in stray : Ready(r))'
    BY <2>1, <2>2, <1>1 DEF Inv, OrderInv, Ready
  <2>4. InOrder(queue)'
    <3>1. SUFFICES ASSUME NEW i \in 1..Len(queue) PROVE Due(queue[i], Ahead(queue, i))'
      BY <1>1 DEF InOrder
    <3>2. queue[i] \in Line(queue) /\ Due(queue[i], Ahead(queue, i))
      BY DEF Line, Inv, OrderInv, InOrder
    <3>3. PICK r, A : r = queue[i] /\ A = Ahead(queue, i)
      OBVIOUS
    <3>4. Due(r, A)'
      BY <3>2, <3>3, <2>1, ReadyStays
    <3>5. queue'[i] = r /\ Ahead(queue, i)' = A
      BY <3>3, <1>1 DEF Ahead
    <3> QED
      BY <3>4, <3>5 DEF Due, Before
  <2>5. (\A o \in todo : Ready(GapOf(o)))'
    <3>1. ASSUME NEW o \in todo PROVE Ready(GapOf(o))'
      <4>1. GapOf(o) \in Record
        BY <2>1, MakesRecord DEF GapOf, Orphan, Kinds
      <4> QED
        BY <4>1, <2>2 DEF Inv, OrderInv
    <3> QED
      BY <3>1
  <2>6. (closing # None => Ready(FinishOf(closing)))'
    OBVIOUS
  <2> QED
    BY <2>3, <2>4, <2>5, <2>6 DEF OrderInv
<1>5. EndedInv'
  <2>1. Line(queue)' = Line(queue)
    BY <1>1 DEF Line
  <2> QED
    BY <2>1, <1>1 DEF Inv, EndedInv, EndsNothing
<1>6. SentInv'
  <2>1. Sent' = Sent /\ Line(queue)' = Line(queue)
    BY <1>1 DEF Sent, Line
  <2>2. reader.c # None => reader.c \in Sessions
    BY <1>2 DEF TypeOK
  <2>3. reader.at \in {"recv", "live", "saving", "closing"} => reader.c # None
    BY <1>2 DEF TypeOK
  <2> QED
    BY <2>1, <2>2, <2>3, <1>1 DEF Inv, SentInv, EventOf, Grown
<1>7. RoomInv'
  BY <1>1 DEF Inv, RoomInv
<1>8. StartInv'
  <2>1. reader.at = "barrier" => reader.c \in Sessions
    BY <1>2 DEF TypeOK
  <2> QED
    BY <2>1, <1>1 DEF Inv, StartInv, Awaited, Grown
<1> QED
  BY <1>1, <1>3, <1>4, <1>5, <1>6, <1>7, <1>8 DEF Inv

LEMMA ClosingStays ==
  ASSUME Inv, Writes, closing' = closing PROVE (closing # None => Ready(FinishOf(closing)))'
<1>1. SUFFICES ASSUME closing # None PROVE Ready(FinishOf(closing))'
  OBVIOUS
<1>2. FinishOf(closing) \in Record /\ Ready(FinishOf(closing))
  BY <1>1, MakesRecord DEF Inv, TypeOK, FinishOf, Orphan, Kinds, OrderInv
<1>3. PICK r : r = FinishOf(closing)
  OBVIOUS
<1>4. Due(r, {})'
  BY <1>2, <1>3, ReadyStays DEF Ready
<1> QED
  BY <1>3, <1>4 DEF Ready, Due, Before, FinishOf

\* A write failed, with or without effect: the writer keeps its record.
LEMMA FailsKeeps == ASSUME Inv, WriterFails PROVE Inv'
<1>1. /\ hand # None /\ (UNCHANGED durable \/ Persist(hand)) /\ Spend("faults", MaxFaults)
      /\ queue' = queue /\ hand' = hand /\ barrier' = barrier /\ run' = run /\ reader' = reader
      /\ accepted' = accepted /\ todo' = todo /\ closing' = closing /\ stray' = stray /\ used' = used
  BY DEF WriterFails, WriterKeeps, CanFail
<1>2. TypeOK /\ hand \in Record /\ Ready(hand) /\ EndsNothing(hand)
  BY <1>1 DEF Inv, TypeOK, OrderInv, EndedInv
<1>3. Writes
  BY <1>1, <1>2 DEF Writes
<1>4. spent' \in [events : Nat, faults : Nat, restarts : Nat]
  BY <1>1, <1>2, SpendTypes
<1>5. (closing # None => Ready(FinishOf(closing)))'
  BY <1>1, <1>3, ClosingStays
<1>6. RunInv' /\ run' \in RunStates
  BY <1>1, <1>2 DEF Inv, RunInv, TypeOK, RunStates
<1> QED
  BY <1>1, <1>2, <1>3, <1>4, <1>5, <1>6, WriteKeeps DEF TypeOK

\* A statement of a dead client lands: it says no more than was true.
LEMMA StrayKeeps == ASSUME Inv, NEW r \in stray, StrayLands(r) PROVE Inv'
<1>1. /\ Persist(r) /\ stray' \subseteq stray
      /\ run' = run /\ reader' = reader /\ barrier' = barrier /\ queue' = queue /\ hand' = hand
      /\ todo' = todo /\ closing' = closing /\ accepted' = accepted /\ used' = used /\ spent' = spent
  BY DEF StrayLands, process
<1>2. TypeOK /\ r \in Record /\ Ready(r) /\ EndsNothing(r)
  BY DEF Inv, TypeOK, OrderInv, EndedInv
<1>3. Writes
  BY <1>1, <1>2 DEF Writes
<1>4. (closing # None => Ready(FinishOf(closing)))'
  BY <1>1, <1>3, ClosingStays
<1>5. RunInv' /\ run' \in RunStates
  BY <1>1, <1>2 DEF Inv, RunInv, TypeOK, RunStates
<1> QED
  BY <1>1, <1>2, <1>3, <1>4, <1>5, WriteKeeps DEF TypeOK

\* The record at hand is written: those behind it need no longer wait for it.
LEMMA WriterKeepsInv == ASSUME Inv, WriterPersists PROVE Inv'
<1>1. /\ hand # None /\ Persist(hand) /\ hand' = None /\ barrier' = (barrier \/ hand.k = "start")
      /\ queue' = queue /\ run' = run /\ reader' = reader /\ run \in {"running", "stopping", "joining"}
      /\ accepted' = accepted /\ todo' = todo /\ closing' = closing /\ stray' = stray /\ used' = used
      /\ spent' = spent
  BY DEF WriterPersists, WriterKeeps, Writing
<1>2. TypeOK /\ hand \in Record /\ Ready(hand) /\ EndsNothing(hand)
  BY <1>1 DEF Inv, TypeOK, OrderInv, EndedInv
<1>3. Writes
  BY <1>1, <1>2 DEF Writes
<1>4. PICK h : h = hand
  OBVIOUS
<1>5. Settled(h)' /\ (h.k = "start" => session'[h.c] # "none")
  <2>1. h \in Record /\ Persist(h)
    BY <1>1, <1>2, <1>4
  <2> QED
    BY <2>1, <1>2, PersistWrites
<1>6. Grown /\ DurableInv' /\ (hand.k = "start" => session'[hand.c] # "none")
  BY <1>3, <1>4, <1>5, WritesKeep
<1>7. TypeOK'
  BY <1>1, <1>2, <1>3, WritesKeep DEF TypeOK
<1>8. \A r \in Record : Ready(r) => Ready(r)'
  BY <1>3, ReadyStays DEF Ready
<1>9. Line(queue) \subseteq Record /\ stray \subseteq Record /\ queue \in Seq(Record)
  BY <1>2, LineIsRecords DEF TypeOK
<1>10. OrderInv'
  <2>1. hand' = None
    BY <1>1
  <2>2. (\A r \in stray : Ready(r))'
    BY <1>1, <1>8, <1>9 DEF Inv, OrderInv
  <2>3. InOrder(queue)'
    <3>1. SUFFICES ASSUME NEW i \in 1..Len(queue) PROVE Due(queue[i], Ahead(queue, i))'
      BY <1>1 DEF InOrder
    <3>2. queue[i] \in Line(queue) /\ Due(queue[i], Ahead(queue, i))
      BY DEF Line, Inv, OrderInv, InOrder
    <3>3. PICK r, A, B : r = queue[i] /\ A = Ahead(queue, i) /\ B = Ahead(queue, i)'
      OBVIOUS
    <3>4. \A q \in Record : q \in A => q \in B \/ q = h
      BY <3>3, <1>1, <1>4 DEF Ahead
    <3>5. Due(r, B)'
      <4>1. r \in Record /\ Due(r, A) /\ r.c \in Sessions
        BY <3>2, <3>3, <1>9, RecordFields
      <4>2. accepted'[r.c] >= accepted[r.c] /\ accepted \in [Sessions -> Nat]
        BY <4>1, <1>1, <1>2 DEF TypeOK
      <4>3. \A q \in Record : q \in A => q \in B \/ Settled(q)'
        BY <3>4, <1>5 DEF Settled
      <4> QED
        BY <4>1, <4>2, <4>3, <1>1, <1>6, DueStays DEF Grown
    <3>6. queue'[i] = r
      BY <3>3, <1>1
    <3> QED
      BY <3>3, <3>5, <3>6 DEF Due, Before
  <2>4. todo' = {} /\ closing' = None
    BY <1>1 DEF Inv, RunInv
  <2> QED
    BY <2>1, <2>2, <2>3, <2>4 DEF OrderInv
<1>11. EndedInv'
  <2>1. Line(queue)' = Line(queue)
    BY <1>1 DEF Line
  <2> QED
    BY <2>1, <1>1 DEF Inv, EndedInv, EndsNothing
<1>12. SentInv'
  <2>1. Sent' = Sent /\ Line(queue)' = Line(queue)
    BY <1>1 DEF Sent, Line
  <2>2. reader.at \in {"recv", "live", "saving", "closing"} => reader.c \in Sessions
    BY <1>2 DEF TypeOK
  <2>3. \A m : hand = EventOf(reader.c, m) => <<reader.c, m>> \in stored'
    BY <1>4, <1>5 DEF Settled, EventOf
  <2>4. stored \subseteq stored'
    BY <1>6 DEF Grown
  <2>5. ASSUME reader.at \in {"recv", "live", "saving", "closing"}, NEW m \in 1..Sent
        PROVE  <<reader.c, m>> \in stored' \/ EventOf(reader.c, m) \in Line(queue)
    BY <2>3, <2>4, <2>5 DEF Inv, SentInv
  <2> QED
    BY <2>1, <2>2, <2>5, <1>1, <1>6 DEF Inv, SentInv, EventOf, Grown
<1>13. RoomInv'
  BY <1>1 DEF Inv, RoomInv
<1>14. StartInv'
  <2>1. reader.at = "barrier" => reader.c \in Sessions
    BY <1>2 DEF TypeOK
  <2>2. CASE hand.k = "start"
    <3>1. queue = <<>> /\ Len(queue) = 0 /\ (reader.at = "barrier" => reader.c = hand.c)
      BY <2>2, <1>1 DEF Inv, StartInv, Awaited
    <3> QED
      BY <2>1, <2>2, <3>1, <1>1, <1>6 DEF StartInv
  <2>3. CASE hand.k # "start"
    <3>1. barrier' = barrier
      BY <2>3, <1>1, <1>2 DEF TypeOK
    <3> QED
      BY <2>1, <3>1, <1>1, <1>6 DEF Inv, StartInv, Awaited, Grown
  <2> QED
    BY <2>2, <2>3
<1>15. RunInv'
  BY <1>1 DEF Inv, RunInv
<1> QED
  BY <1>6, <1>7, <1>10, <1>11, <1>12, <1>13, <1>14, <1>15 DEF Inv

----------------------------------------------------------------------------
(* Start, recovery, shutdown and crash. *)

\* The runtime moves on, and nothing else happens.
LEMMA MovesKeep ==
  ASSUME Inv, Boot \/ Recovered \/ ReaderStopped PROVE Inv'
<1>1. /\ run' \in RunStates /\ reader' = reader /\ barrier' = barrier /\ queue' = queue /\ hand' = hand
      /\ todo' = todo /\ closing' = closing /\ UNCHANGED durable /\ stray' = stray /\ spent' = spent
      /\ accepted' = accepted /\ used' = used
  BY DEF Boot, Recovered, ReaderStopped, LifeKeeps, RunStates
<1>2. Writes
  BY <1>1 DEF Writes
<1>3. (closing # None => Ready(FinishOf(closing)))'
  BY <1>1, <1>2, ClosingStays
<1>4. RunInv'
  BY <1>1 DEF Inv, RunInv, Boot, Recovered, ReaderStopped
<1> QED
  BY <1>1, <1>2, <1>3, <1>4, WriteKeeps DEF Inv, TypeOK

\* What recovery writes is due; its reader does not run yet.
LEMMA RecoveryReady ==
  ASSUME Inv, run = "recovering", NEW r \in Recovering
  PROVE  r \in Record /\ Ready(r) /\ EndsNothing(r)
<1>1. TypeOK /\ OrderInv /\ reader.c = None
  BY DEF Inv, RunInv, Off
<1>2. r \in Record /\ Ready(r)
  <2>1. CASE closing # None
    BY <2>1, <1>1, MakesRecord DEF TypeOK, OrderInv, Recovering, FinishOf, Orphan, Kinds
  <2>2. CASE closing = None
    <3>1. PICK o \in todo : r = GapOf(o)
      BY <2>2 DEF Recovering
    <3> QED
      BY <3>1, <1>1, MakesRecord DEF TypeOK, OrderInv, GapOf, Orphan, Kinds
  <2> QED
    BY <2>1, <2>2
<1> QED
  BY <1>1, <1>2, RecordFields, NoneIsNothing DEF EndsNothing

\* The sessions that are open, each with the beginning of it that PostgreSQL holds.
LEMMA ListKeeps == ASSUME Inv, ListOrphans PROVE Inv'
<1>1. /\ run = "listing" /\ run' = "recovering" /\ reader' = reader /\ barrier' = barrier
      /\ queue' = queue /\ hand' = hand /\ closing' = closing /\ stray' = stray /\ spent' = spent
      /\ accepted' = accepted /\ used' = used
      /\ session' = session /\ total' = total /\ gaps' = gaps /\ stored' = stored
      /\ todo' = {[c |-> c, n |-> Count(c)] : c \in {c \in Sessions : session[c] = "open"}}
  BY DEF ListOrphans, LifeKeeps, durable
<1>2. TypeOK /\ StoredInv /\ closing = None /\ reader = Off /\ queue = <<>> /\ hand = None
  BY <1>1 DEF Inv, DurableInv, RunInv
<1>3. \A o \in todo' : o \in Orphan /\ Known(o.c, o.n) /\ o.c \in used
  <2>1. ASSUME NEW c \in Sessions, session[c] = "open"
        PROVE  [c |-> c, n |-> Count(c)] \in Orphan /\ Known(c, Count(c)) /\ c \in used
    <3>1. Count(c) \in Nat /\ Known(c, Count(c))
      BY <1>2, CountIsPrefix
    <3>2. c \in used
      BY <2>1 DEF Inv, DurableInv, RowInv
    <3> QED
      BY <3>1, <3>2 DEF Orphan
  <2> QED
    BY <2>1, <1>1
<1>4. TypeOK'
  BY <1>1, <1>2, <1>3 DEF TypeOK
<1>5. OrderInv'
  <2>1. (\A o \in todo : Ready(GapOf(o)))'
    <3>1. ASSUME NEW o \in todo' PROVE Ready(GapOf(o))'
      <4>1. GapOf(o).k = "gap" /\ GapOf(o).c = o.c /\ GapOf(o).n = o.n
        BY DEF GapOf
      <4>2. PICK r : r = GapOf(o)
        OBVIOUS
      <4> QED
        BY <4>1, <1>1, <1>3 DEF Ready, Due, Before, Known
    <3> QED
      BY <3>1
  <2>2. (\A r \in stray : Ready(r))'
    BY <1>1 DEF Inv, OrderInv, Ready, Due, Before
  <2>3. InOrder(queue)'
    BY <1>1, <1>2 DEF InOrder
  <2> QED
    BY <2>1, <2>2, <2>3, <1>1, <1>2 DEF OrderInv
<1>6. EndedInv'
  BY <1>1, <1>2 DEF Inv, EndedInv, EndsNothing, Line
<1>7. DurableInv'
  <2>1. StoredInv' /\ GapsInv'
    BY <1>1 DEF Inv, DurableInv, StoredInv, GapsInv, Known
  <2>2. \A c \in Sessions : RowInv(c)'
    BY <1>1 DEF Inv, DurableInv, RowInv
  <2> QED
    BY <2>1, <2>2 DEF DurableInv
<1>8. SentInv' /\ RoomInv'
  BY <1>1, <1>2 DEF SentInv, RoomInv, Off
<1>9. StartInv' /\ RunInv'
  <2>1. Len(queue') = 0
    BY <1>1, <1>2
  <2> QED
    BY <2>1, <1>1, <1>2 DEF StartInv, RunInv, Off
<1> QED
  BY <1>4, <1>5, <1>6, <1>7, <1>8, <1>9 DEF Inv

\* The gap of an orphan; its finish may follow.
LEMMA RecoverGapKeeps == ASSUME Inv, NEW o \in Orphan, RecoverGap(o) PROVE Inv'
<1>1. /\ run = "recovering" /\ run' = run /\ closing = None /\ o \in todo /\ Persist(GapOf(o))
      /\ closing' = o /\ todo' \subseteq todo /\ reader' = reader /\ barrier' = barrier
      /\ queue' = queue /\ hand' = hand /\ stray' = stray /\ spent' = spent
      /\ accepted' = accepted /\ used' = used
  BY DEF RecoverGap, LifeKeeps
<1> DEFINE g == GapOf(o)
<1>2. g \in Recovering
  BY <1>1 DEF Recovering
<1>3. g \in Record /\ Ready(g) /\ EndsNothing(g)
  BY <1>1, <1>2, RecoveryReady
<1>4. Writes
  BY <1>1, <1>3 DEF Writes
<1>5. TypeOK
  BY DEF Inv
<1>6. Settled(g)' /\ Grown
  BY <1>1, <1>3, <1>5, PersistWrites
<1>7. [c |-> o.c, n |-> o.n] \in gaps'
  BY <1>6 DEF Settled, GapOf
<1>8. o.c \in used /\ \A m \in 1..o.n : <<o.c, m>> \in stored
  BY <1>3 DEF Ready, Due, Before, GapOf
<1>9. (closing # None => Ready(FinishOf(closing)))'
  <2>1. PICK r : r = FinishOf(o)
    OBVIOUS
  <2>2. r.k = "recovered" /\ r.c = o.c /\ r.n = o.n
    BY <2>1 DEF FinishOf
  <2>3. Due(r, {})'
    BY <2>2, <1>1, <1>6, <1>7, <1>8 DEF Due, Before, Grown
  <2>4. FinishOf(closing)' = r
    BY <2>1, <1>1 DEF FinishOf
  <2> QED
    BY <2>3, <2>4 DEF Ready, Due, Before
<1>10. RunInv' /\ run' \in RunStates
  BY <1>1 DEF Inv, RunInv, RunStates
<1> QED
  BY <1>1, <1>4, <1>5, <1>9, <1>10, WriteKeeps DEF TypeOK

LEMMA RecoverFinishKeeps == ASSUME Inv, RecoverFinish PROVE Inv'
<1>1. /\ run = "recovering" /\ run' = run /\ closing # None /\ Persist(FinishOf(closing))
      /\ closing' = None /\ todo' = todo /\ reader' = reader /\ barrier' = barrier
      /\ queue' = queue /\ hand' = hand /\ stray' = stray /\ spent' = spent
      /\ accepted' = accepted /\ used' = used
  BY DEF RecoverFinish, LifeKeeps
<1>2. FinishOf(closing) \in Recovering
  BY <1>1 DEF Recovering
<1>3. Writes
  BY <1>1, <1>2, RecoveryReady DEF Writes
<1>4. RunInv' /\ run' \in RunStates
  BY <1>1 DEF Inv, RunInv, RunStates
<1> QED
  BY <1>1, <1>3, <1>4, WriteKeeps DEF Inv, TypeOK

LEMMA RecoveryFailsKeeps == ASSUME Inv, RecoveryFails PROVE Inv'
<1>1. /\ run = "recovering" /\ run' = "listing" /\ Spend("faults", MaxFaults)
      /\ UNCHANGED durable \/ \E r \in Recovering : Persist(r)
      /\ closing' = None /\ todo' = {} /\ reader' = reader /\ barrier' = barrier
      /\ queue' = queue /\ hand' = hand /\ stray' = stray
      /\ accepted' = accepted /\ used' = used
  BY DEF RecoveryFails, LifeKeeps, CanFail
<1>2. Writes
  BY <1>1, RecoveryReady DEF Writes
<1>3. RunInv' /\ run' \in RunStates
  BY <1>1 DEF Inv, RunInv, RunStates
<1>4. spent' \in [events : Nat, faults : Nat, restarts : Nat]
  BY <1>1, SpendTypes DEF Inv
<1> QED
  BY <1>1, <1>2, <1>3, <1>4, WriteKeeps DEF Inv, TypeOK

\* The process is gone; the statement it waited for may still land.
LEMMA DownKeeps ==
  ASSUME Inv, Empty, Strays, run' = "down", UNCHANGED durable, accepted' = accepted, used' = used,
         todo' = {}, closing' = None, spent' \in [events : Nat, faults : Nat, restarts : Nat]
  PROVE  Inv'
<1>1. /\ reader' = Off /\ barrier' = FALSE /\ queue' = <<>> /\ hand' = None
      /\ session' = session /\ total' = total /\ gaps' = gaps /\ stored' = stored
  BY DEF Empty, durable
<1>2. TypeOK /\ run \in RunStates
  BY DEF Inv, TypeOK, RunStates
<1>3. reader'.c = None /\ reader'.at = "idle" /\ reader' \in ReaderStates /\ Len(queue') = 0
  BY <1>1 DEF Off, ReaderStates
<1>4. \A r \in InFlight : r \in Record /\ Ready(r)
  <2>1. hand # None => hand \in Record /\ Ready(hand)
    BY <1>2 DEF TypeOK, Inv, OrderInv
  <2>2. ASSUME NEW r \in Recovering PROVE r \in Record /\ Ready(r)
    <3>1. CASE run = "recovering"
      BY <2>2, <3>1, RecoveryReady
    <3>2. CASE run # "recovering"
      BY <2>2, <3>2 DEF Inv, RunInv, Recovering
    <3> QED
      BY <3>1, <3>2
  <2> QED
    BY <2>1, <2>2 DEF InFlight
<1>5. \A r \in stray' : r \in Record /\ Ready(r)
  <2>1. \A r \in stray : r \in Record /\ Ready(r)
    BY <1>2 DEF TypeOK, Inv, OrderInv
  <2>2. stray' = stray \/ \E r \in InFlight : stray' = stray \cup {r}
    BY DEF Strays
  <2> QED
    BY <2>1, <2>2, <1>4
<1>6. TypeOK'
  BY <1>1, <1>2, <1>3, <1>5, EmptyLine DEF TypeOK, ReaderStates
<1>7. OrderInv'
  <2>1. (\A r \in stray : Ready(r))'
    BY <1>1, <1>5 DEF Ready, Due, Before
  <2>2. InOrder(queue)'
    BY <1>3 DEF InOrder
  <2> QED
    BY <2>1, <2>2, <1>1 DEF OrderInv
<1>8. EndedInv'
  <2>1. \A r \in stray' : r.c # None
    BY <1>5, RecordFields, NoneIsNothing
  <2>2. Line(queue)' = {}
    BY <1>3 DEF Line
  <2> QED
    BY <2>1, <2>2, <1>1, <1>3 DEF EndedInv, EndsNothing
<1>9. DurableInv'
  <2>1. StoredInv' /\ GapsInv'
    BY <1>1 DEF Inv, DurableInv, StoredInv, GapsInv, Known
  <2>2. \A c \in Sessions : RowInv(c)'
    BY <1>1, <1>3, NoneIsNothing DEF Inv, DurableInv, RowInv
  <2> QED
    BY <2>1, <2>2 DEF DurableInv
<1>10. SentInv' /\ RoomInv' /\ StartInv' /\ RunInv'
  BY <1>1, <1>3 DEF SentInv, RoomInv, StartInv, RunInv
<1> QED
  BY <1>6, <1>7, <1>8, <1>9, <1>10 DEF Inv

LEMMA EndsKeep == ASSUME Inv, Exit \/ Crash PROVE Inv'
<1>1. /\ Empty /\ Strays /\ run' = "down" /\ UNCHANGED durable /\ accepted' = accepted /\ used' = used
  BY DEF Exit, Crash, LifeKeeps
<1>2. todo' = {} /\ closing' = None
  BY DEF Exit, Crash, Inv, RunInv
<1>3. spent' \in [events : Nat, faults : Nat, restarts : Nat]
  <2>1. Spend("faults", MaxFaults) \/ Spend("restarts", MaxRestarts) \/ UNCHANGED spent
    BY DEF Exit, Crash, CanFail
  <2> QED
    BY <2>1, SpendTypes DEF Inv
<1> QED
  BY <1>1, <1>2, <1>3, DownKeeps
----------------------------------------------------------------------------
(* The theorems. *)

LEMMA InitInv == Init => Inv
<1> SUFFICES ASSUME Init PROVE Inv
  OBVIOUS
<1>1. TypeOK
  <2>1. /\ accepted \in [Sessions -> Nat] /\ total \in [Sessions -> Nat]
        /\ session \in [Sessions -> {"none", "open", "own", "orphan"}]
    BY DEF Init
  <2>2. reader \in ReaderStates /\ (reader.c = None <=> reader.at \in {"idle", "done"})
    BY DEF Init, Off, ReaderStates
  <2> QED
    BY <2>1, <2>2, EmptyLine DEF Init, TypeOK, ReaderStates
<1>2. /\ reader.c = None /\ reader.at = "idle" /\ Len(queue) = 0 /\ queue = <<>> /\ hand = None
      /\ todo = {} /\ closing = None /\ stray = {} /\ stored = {} /\ gaps = {} /\ barrier = FALSE
      /\ \A c \in Sessions : accepted[c] = 0 /\ session[c] = "none"
      /\ run = "down" /\ reader = Off
  BY DEF Init, Off
<1>3. OrderInv /\ EndedInv
  BY <1>2 DEF OrderInv, EndedInv, InOrder, Line
<1>4. DurableInv
  BY <1>2 DEF DurableInv, StoredInv, GapsInv, RowInv
<1>5. SentInv /\ RoomInv /\ StartInv /\ RunInv
  BY <1>2 DEF SentInv, RoomInv, StartInv, RunInv
<1> QED
  BY <1>1, <1>3, <1>4, <1>5 DEF Inv

LEMMA NothingKeeps == ASSUME Inv, UNCHANGED vars PROVE Inv'
<1>1. /\ run' = run /\ reader' = reader /\ barrier' = barrier /\ queue' = queue /\ hand' = hand
      /\ todo' = todo /\ closing' = closing /\ UNCHANGED durable /\ stray' = stray
      /\ spent' = spent /\ accepted' = accepted /\ used' = used
  BY DEF vars, process
<1>2. Writes
  BY <1>1 DEF Writes
<1>3. (closing # None => Ready(FinishOf(closing)))'
  BY <1>1, <1>2, ClosingStays
<1>4. RunInv' /\ run' \in RunStates
  BY <1>1 DEF Inv, RunInv, TypeOK, RunStates
<1> QED
  BY <1>1, <1>2, <1>3, <1>4, WriteKeeps DEF Inv, TypeOK

LEMMA NextKeeps == ASSUME ~RedisOutlasts, Inv, [Next]_vars PROVE Inv'
<1>1. CASE Read
  BY <1>1, SubscribedKeeps, AcceptKeeps, LiveEndsKeeps, BreaksKeeps, ClosedKeeps, SavingKeeps,
     SubscribeKeeps DEF Read
<1>2. CASE Write
  BY <1>2, TakesKeeps, WriterKeepsInv, FailsKeeps DEF Write
<1>3. CASE Live
  <2>1. ASSUME NEW c \in Sessions, NEW n \in 0..MaxEvents, RecoverGap([c |-> c, n |-> n]) PROVE Inv'
    <3>1. [c |-> c, n |-> n] \in todo
      BY <2>1 DEF RecoverGap
    <3>2. PICK o \in Orphan : o = [c |-> c, n |-> n]
      BY <3>1 DEF Inv, TypeOK
    <3> QED
      BY <2>1, <3>2, RecoverGapKeeps
  <2> QED
    BY <1>3, <2>1, MovesKeep, ListKeeps, RecoverFinishKeeps, RecoveryFailsKeeps, CancelKeeps, EndsKeep
    DEF Live
<1>4. CASE \E r \in stray : StrayLands(r)
  BY <1>4, StrayKeeps
<1>5. CASE UNCHANGED vars
  BY <1>5, NothingKeeps
<1> QED
  BY <1>1, <1>2, <1>3, <1>4, <1>5 DEF Next

\* Every story that PostgreSQL closes is whole, or has its gap where the first event is missing:
\* the events stored are a beginning of the session, and the gap is where they end.
LEMMA InvTells == Inv => NoSilentLoss
<1> SUFFICES ASSUME Inv, NEW c \in Sessions PROVE LossIsMarked(c) /\ TotalIsTrue(c)
  BY DEF Inv, NoSilentLoss
<1>1. /\ stored \subseteq Events /\ StoredInv /\ GapsInv /\ RowInv(c) /\ accepted[c] \in Nat
      /\ total[c] \in Nat
  BY DEF Inv, DurableInv, TypeOK
<1>2. ASSUME session[c] \in {"own", "orphan"}
      PROVE  [c |-> c, n |-> total[c]] \in gaps /\ 1..total[c] \subseteq Number(c)
  <2>1. [c |-> c, n |-> total[c]] \in gaps
    BY <1>1, <1>2 DEF RowInv
  <2>2. Known(c, total[c])
    BY <2>1, <1>1 DEF GapsInv
  <2> QED
    BY <2>1, <2>2, <1>1, NumberIs DEF Known
<1>3. LossIsMarked(c)
  BY <1>1, <1>2 DEF LossIsMarked, RowInv
<1>4. ASSUME session[c] = "own" PROVE total[c] = accepted[c] /\ Number(c) = 1..total[c]
  <2>1. total[c] = accepted[c]
    BY <1>1, <1>4 DEF RowInv
  <2>2. ASSUME NEW m \in Number(c) PROVE m \in 1..total[c]
    BY <2>1, <2>2, <1>1, NumberIs, StoredEvents
  <2> QED
    BY <2>1, <2>2, <1>2, <1>4
<1> QED
  BY <1>2, <1>3, <1>4 DEF TotalIsTrue

\* No loss is silent: whatever is accepted, cancelled, killed, retried or committed late, a
\* session that PostgreSQL shows as closed is complete, or its gap begins no later than the
\* first event that is missing; its own finish counts every message that was accepted.
THEOREM LossIsNeverSilent == ~RedisOutlasts /\ Spec => []NoSilentLoss
<1>1. Init => Inv
  BY InitInv
<1>2. ~RedisOutlasts /\ Inv /\ [Next]_vars => Inv'
  BY NextKeeps
<1>3. Inv => NoSilentLoss
  BY InvTells
<1> QED
  <2>1. CASE RedisOutlasts
    BY <2>1
  <2>2. CASE ~RedisOutlasts
    <3>1. Inv /\ [Next]_vars => Inv'
      BY <2>2, <1>2
    <3> QED
      BY <3>1, <1>1, <1>3, PTL DEF Spec
  <2> QED
    BY <2>1, <2>2
----------------------------------------------------------------------------
(* HistoryRetention: types. *)

\* The plan is a sequence, whatever retired tables there are.
LEMMA PlanIsSequence == \E S : Plan \in Seq(S)
<1>1. PICK S : /\ {"flip_cutoffs", "flip_events", "flip_archive", "shadow_predictions", "flip_evaluations"} \subseteq S
               /\ {"price_samples", "probability_samples", "futures_snapshots", "flow_1s", "book_1s",
                   "microstructure_1s", "oi_summaries", "twap_events", "quote_observations",
                   "market_observations"} \subseteq S
               /\ {"resolutions", "markets", "market_windows"} \subseteq S
               /\ {"twap_gaps", "twap_sessions", "evidence_payloads", "price_traces",
                   "chainlink_events", "feed_sessions"} \subseteq S
  <2> DEFINE A == {"flip_cutoffs", "flip_events", "flip_archive", "shadow_predictions", "flip_evaluations"}
             B == {"price_samples", "probability_samples", "futures_snapshots", "flow_1s", "book_1s",
                   "microstructure_1s", "oi_summaries", "twap_events", "quote_observations",
                   "market_observations"}
             C == {"resolutions", "markets", "market_windows"}
             D == {"twap_gaps", "twap_sessions", "evidence_payloads", "price_traces",
                   "chainlink_events", "feed_sessions"}
  <2> HIDE DEF A, B, C, D
  <2>1. A \subseteq A \cup B \cup C \cup D /\ B \subseteq A \cup B \cup C \cup D
        /\ C \subseteq A \cup B \cup C \cup D /\ D \subseteq A \cup B \cup C \cup D
    OBVIOUS
  <2> QED
    BY <2>1 DEF A, B, C, D
<1>2. ASSUME NEW t \in S PROVE Optional(t) \in Seq(S)
  <2>1. <<>> \in Seq(S)
    OBVIOUS
  <2>2. <<t>> \in Seq(S)
    OBVIOUS
  <2> QED
    BY <2>1, <2>2 DEF Optional
<1>3. ASSUME NEW a \in Seq(S), NEW b \in Seq(S) PROVE a \o b \in Seq(S)
  OBVIOUS
<1>4. /\ <<"price_samples", "probability_samples", "futures_snapshots", "flow_1s", "book_1s",
           "microstructure_1s", "oi_summaries", "twap_events", "quote_observations",
           "market_observations">> \in Seq(S)
      /\ <<"resolutions", "markets", "market_windows">> \in Seq(S)
      /\ <<"twap_gaps", "twap_sessions", "evidence_payloads", "price_traces",
           "chainlink_events", "feed_sessions">> \in Seq(S)
  BY <1>1
<1>5. MarketTables \in Seq(S)
  <2>1. /\ Optional("flip_cutoffs") \in Seq(S) /\ Optional("flip_events") \in Seq(S)
        /\ Optional("flip_archive") \in Seq(S) /\ Optional("shadow_predictions") \in Seq(S)
        /\ Optional("flip_evaluations") \in Seq(S)
    BY <1>1, <1>2
  <2> QED
    BY <1>3, <1>4, <2>1, Zenon DEF MarketTables
<1> QED
  BY <1>3, <1>4, <1>5 DEF Plan

LEMMA PlanFacts == /\ Len(Plan) \in Nat /\ \A i \in 1..Len(Plan) : Plan[i] \in Tables
                   /\ Leaves \subseteq Tables /\ Leaves \cap Parents = {}
<1>1. PICK S : Plan \in Seq(S)
  BY PlanIsSequence
<1> QED
  BY <1>1 DEF Tables, Leaves

\* Where the pass is: in a batch it is at a table of the plan.
RetentionTypes ==
  /\ RetentionTypeOK
  /\ phase = "batch" => at \in 1..Len(Plan)
  /\ phase # "batch" => batch = {}
  /\ batch \subseteq {r \in rows : r.table = Table /\ r.old}

LEMMA EmptyBatch == Cardinality({}) = 0 /\ 0 <= BatchSize /\ 0 < BatchSize
  BY FS_EmptySet, RetentionBounds

LEMMA RetentionTypesInit == RetentionInit => RetentionTypes
<1> SUFFICES ASSUME RetentionInit PROVE RetentionTypes
  OBVIOUS
<1>1. /\ 1 \in 1..Len(Plan) + 1 /\ 0 \in 0..MaxErrors
  BY PlanFacts, RetentionBounds
<1>2. rows \subseteq AllRows
  BY DEF RetentionInit, AllRows
<1>3. RetentionTypeOK
  BY <1>1, <1>2, EmptyBatch DEF RetentionInit, RetentionTypeOK
<1> QED
  BY <1>3 DEF RetentionInit, RetentionTypes

LEMMA FaultCounts == ASSUME RetentionTypeOK, Fault \/ UNCHANGED faults PROVE faults' \in 0..MaxErrors
  BY RetentionBounds DEF RetentionTypeOK, Fault

LEMMA RetentionTypesNext ==
  ASSUME RetentionTypes, [RetentionNext]_retentionVars PROVE RetentionTypes'
<1>0. RetentionTypeOK
  BY DEF RetentionTypes
<1>1. CASE \E new \in Arrivals : Insert(new)
  <2>1. PICK new \in Arrivals : Insert(new)
    BY <1>1
  <2> QED
    BY <2>1 DEF Insert, RetentionTypes, RetentionTypeOK, AllRows, Table, lap, leaves
<1>2. CASE Begin
  <2>1. 1 \in 1..Len(Plan) + 1
    BY PlanFacts
  <2>2. /\ phase # "batch" /\ phase' = "lap" /\ at' = 1 /\ progressed' = FALSE /\ pending' = Leaves
        /\ completed' = {} /\ errors' = {} /\ excused' = {} /\ UNCHANGED <<rows, arrivals, batch, faults>>
    BY <1>2 DEF Begin
  <2> QED
    BY <2>1, <2>2 DEF RetentionTypes, RetentionTypeOK
<1>3. CASE Skip
  BY <1>3, PlanFacts DEF Skip, RetentionTypes, RetentionTypeOK, leaves
<1>4. CASE Select
  <2>1. /\ phase = "lap" /\ at <= Len(Plan) /\ phase' = "batch"
        /\ UNCHANGED <<rows, arrivals, at, progressed, pending, completed, errors>>
    BY <1>4 DEF Select, lap, leaves
  <2>2. PICK locked \in SUBSET Expired(Table) :
          /\ IF locked = {} THEN UNCHANGED faults ELSE Fault
          /\ excused' = excused \cup locked
          /\ batch' \in {v \in SUBSET (Expired(Table) \ locked) :
               \/ Cardinality(v) = BatchSize
               \/ Cardinality(v) < BatchSize /\ v = Expired(Table) \ locked}
    BY <1>4 DEF Select
  <2>3. Expired(Table) \subseteq {r \in rows : r.table = Table /\ r.old}
    BY DEF Expired
  <2>4. batch' \subseteq Expired(Table) /\ Cardinality(batch') <= BatchSize
    <3>1. batch' \subseteq Expired(Table) /\ (Cardinality(batch') = BatchSize \/ Cardinality(batch') < BatchSize)
      BY <2>2
    <3>2. IsFiniteSet(batch')
      BY <1>0, <2>3, <3>1, FS_Subset, RetentionBounds DEF RetentionTypeOK
    <3>3. Cardinality(batch') \in Nat
      BY <3>2, FS_CardinalityType
    <3> QED
      BY <3>1, <3>3, RetentionBounds
  <2>5. faults' \in 0..MaxErrors
    BY <1>0, <2>2, FaultCounts
  <2>6. Table' = Table
    BY <2>1 DEF Table
  <2> QED
    BY <2>1, <2>2, <2>3, <2>4, <2>5, <2>6, PlanFacts DEF RetentionTypes, RetentionTypeOK
<1>5. CASE Commit
  <2>1. /\ phase = "batch" /\ phase' = "lap" /\ at' = at + 1 /\ batch' = {}
        /\ rows' = rows \ batch /\ UNCHANGED <<arrivals, errors, excused, faults>>
    BY <1>5 DEF Commit, Ends
  <2>2. progressed' \in BOOLEAN
    BY <1>0, <1>5 DEF Commit, RetentionTypeOK
  <2>3. pending' \subseteq Leaves /\ completed' = Leaves \ pending'
    BY <1>0, <1>5 DEF Commit, RetentionTypeOK
  <2> QED
    BY <2>1, <2>2, <2>3, PlanFacts, EmptyBatch DEF RetentionTypes, RetentionTypeOK
<1>6. CASE Fails
  <2>1. /\ phase = "batch" /\ phase' = "lap" /\ at' = at + 1 /\ batch' = {}
        /\ errors' = errors \cup {Table} /\ UNCHANGED <<rows, arrivals, progressed, pending, completed, excused>>
    BY <1>6 DEF Fails, Ends, leaves
  <2>2. faults' \in 0..MaxErrors
    BY <1>0, <1>6, FaultCounts DEF Fails
  <2>3. Table \in Tables
    BY <2>1, PlanFacts DEF RetentionTypes, Table
  <2> QED
    BY <2>1, <2>2, <2>3, PlanFacts, EmptyBatch DEF RetentionTypes, RetentionTypeOK
<1>7. CASE LapEnds
  <2>1. /\ phase = "lap" /\ phase' \in {"lap", "complete"} /\ at' \in {1, at} /\ progressed' \in {FALSE, progressed}
        /\ UNCHANGED <<rows, arrivals, batch, pending, completed, errors, excused, faults>>
    BY <1>7 DEF LapEnds, lap, leaves
  <2>2. at' \in 1..Len(Plan) + 1
    BY <1>0, <2>1, PlanFacts DEF RetentionTypeOK
  <2> QED
    BY <2>1, <2>2 DEF RetentionTypes, RetentionTypeOK
<1>8. CASE Deadline
  <2>1. faults' \in 0..MaxErrors
    BY <1>0, <1>8, FaultCounts DEF Deadline
  <2> QED
    BY <1>8, <2>1 DEF Deadline, RetentionTypes, RetentionTypeOK, lap, leaves
<1>9. CASE UNCHANGED retentionVars
  BY <1>9 DEF retentionVars, RetentionTypes, RetentionTypeOK, Table, lap, leaves
<1> QED
  BY <1>1, <1>2, <1>3, <1>4, <1>5, <1>6, <1>7, <1>8, <1>9 DEF RetentionNext, Pass

----------------------------------------------------------------------------
(* HistoryRetention: what expires. *)

\* The predicates ask every table that carries a key.
LEMMA PredicatesCoverTheSchema == \A t : Carriers(t) \subseteq UnreferencedBy(t)
  BY DEF Carriers, UnreferencedBy

LEMMA LeavesAreUnreferenced == \A t \in Leaves : UnreferencedBy(t) = {}
  BY PlanFacts DEF Parents, UnreferencedBy

\* Nobody carries the key of a row that a predicate selects.
LEMMA ExpiredIsFree ==
  ASSUME RetentionTypes, NEW t, NEW r \in Expired(t), NEW c \in rows PROVE ~References(c, r)
<1>1. r \in rows /\ r.table = t /\ (c.table \in UnreferencedBy(t) => ~References(c, r))
  BY DEF Expired
<1>2. c \in AllRows
  BY DEF RetentionTypes, RetentionTypeOK
<1>3. References(c, r) => c.table \in Carriers(t)
  <2>1. References(c, r) => c.table \in Carriers(Id(r)[1])
    BY <1>2, RowsFollowTheSchema DEF References
  <2> QED
    BY <1>1, <2>1 DEF Id
<1> QED
  BY <1>1, <1>3, PredicatesCoverTheSchema

\* Without a deletion, nothing is left that was not left before.
LEMMA LeftOnlyShrinks ==
  ASSUME NEW t, rows \subseteq rows', rows' \subseteq rows \cup excused', excused \subseteq excused'
  PROVE  Left(t)' \subseteq Left(t)
  BY DEF Left, Expired, References

\* A leaf has nothing left but what was left, less what is deleted.
LEMMA LeafShrinks ==
  ASSUME NEW t \in Leaves, NEW gone, rows' = rows \ gone, excused' = excused PROVE Left(t)' \subseteq Left(t) \ gone
  BY LeavesAreUnreferenced DEF Left, Expired
----------------------------------------------------------------------------
(* HistoryRetention: the invariant. *)

\* Whoever carries the key of a row that is about to be deleted stops the deletion, or another row does.
BatchIsGuarded == \A r \in batch, c \in rows :
  References(c, r) => \E d \in rows : d.table \in Constrains(Table) /\ References(d, r)

\* A batch that is not full is all that was left.
BatchIsWhole == phase = "batch" /\ Cardinality(batch) < BatchSize => Left(Table) \subseteq batch

CompletedAreDry == \A t \in completed : Left(t) = {}

\* A lap without progress has passed no leaf that is pending, and, if none is, no row that is left.
LapIsIdle ==
  phase \in {"lap", "batch"} /\ ~progressed /\ errors = {} =>
    \A i \in 1..Len(Plan) : i < at => Plan[i] \notin pending /\ (pending = {} => Left(Plan[i]) = {})

RetentionInv ==
  /\ RetentionTypes /\ NeededStays /\ BatchIsGuarded
  /\ BatchIsWhole /\ CompletedAreDry /\ LapIsIdle /\ CleanWhenDone

LEMMA RetentionInvInit == RetentionInit => RetentionInv
<1> SUFFICES ASSUME RetentionInit PROVE RetentionInv
  OBVIOUS
<1>1. NeededStays
  BY HistoryIsComplete DEF RetentionInit, NeededStays
<1> QED
  BY <1>1, RetentionTypesInit DEF RetentionInit, RetentionInv, BatchIsGuarded, BatchIsWhole, CompletedAreDry,
     LapIsIdle, CleanWhenDone

\* Steps in which only what is excused may grow, and the pass stays where it is.
LEMMA ExcusedKeeps ==
  ASSUME RetentionInv, rows \subseteq rows', rows' \subseteq rows \cup excused', excused \subseteq excused',
         UNCHANGED <<phase, at, progressed, pending, completed, errors, batch>>
  PROVE  BatchIsWhole' /\ CompletedAreDry' /\ LapIsIdle' /\ CleanWhenDone'
<1>1. \A t : Left(t)' \subseteq Left(t)
  BY LeftOnlyShrinks
<1> QED
  BY <1>1 DEF RetentionInv, BatchIsWhole, CompletedAreDry, LapIsIdle, CleanWhenDone, Table

LEMMA InsertKeeps ==
  ASSUME RetentionInv, NEW new \in Arrivals, Insert(new) PROVE NeededStays' /\ BatchIsGuarded' /\ BatchIsWhole'
         /\ CompletedAreDry' /\ LapIsIdle' /\ CleanWhenDone'
<1>1. /\ rows' = rows \cup {r \in new : \A p \in rows : Id(p) # Id(r)} /\ excused' = excused \cup new
      /\ UNCHANGED <<phase, at, progressed, pending, completed, errors, batch>>
  BY DEF Insert, lap, leaves
<1>2. ASSUME NEW d \in new PROVE \E e \in rows' : Id(e) = Id(d) /\ e \in AllRows
  <2>1. d \in AllRows /\ rows \subseteq AllRows
    BY DEF AllRows, RetentionInv, RetentionTypes, RetentionTypeOK
  <2> QED
    BY <1>1, <2>1
<1>3. \A d \in new : d \in AllRows
  BY DEF AllRows
<1>4. NeededStays'
  <2>1. SUFFICES ASSUME NEW c \in rows', NEW id \in c.of PROVE \E p \in rows' : Id(p) = id
    BY DEF NeededStays
  <2>2. CASE c \in rows
    BY <1>1, <2>1, <2>2 DEF RetentionInv, NeededStays
  <2>3. CASE c \in new
    <3>1. PICK p \in new : Id(p) = id
      BY <2>1, <2>3, ArrivalsBringParents
    <3> QED
      BY <1>2, <3>1
  <2> QED
    BY <1>1, <2>2, <2>3
<1>5. BatchIsGuarded'
  <2>1. SUFFICES ASSUME NEW r \in batch, NEW c \in rows', References(c, r)
                 PROVE  \E d \in rows' : d.table \in Constrains(Table) /\ References(d, r)
    <3>1. batch' = batch /\ Table' = Table
      BY <1>1 DEF Table
    <3> QED
      BY <3>1 DEF BatchIsGuarded, References
  <2>2. CASE c \in rows
    BY <1>1, <2>1, <2>2 DEF RetentionInv, BatchIsGuarded
  <2>3. CASE c \in new
    <3>1. r \in AllRows /\ r.table = Table /\ r.old /\ Id(r) \in c.of /\ Id(r)[1] = Table
      BY <2>1 DEF RetentionInv, RetentionTypes, RetentionTypeOK, References, Id
    <3>2. PICK d \in new : Id(r) \in d.of /\ d.table \in Constrains(Table)
      BY <2>3, <3>1, ArrivalsAreConstrained
    <3>3. PICK e \in rows' : Id(e) = Id(d) /\ e \in AllRows
      BY <1>2
    <3>4. e.table = d.table /\ e.of = d.of
      BY <1>3, <3>3, RowsFollowTheSchema DEF Id
    <3> QED
      BY <3>2, <3>3, <3>4 DEF References
  <2> QED
    BY <1>1, <2>2, <2>3
<1> QED
  BY <1>1, <1>4, <1>5, ExcusedKeeps

LEMMA SelectKeeps ==
  ASSUME RetentionInv, Select PROVE NeededStays' /\ BatchIsGuarded' /\ BatchIsWhole' /\ CompletedAreDry'
         /\ LapIsIdle' /\ CleanWhenDone'
<1>1. /\ phase = "lap" /\ phase' = "batch" /\ UNCHANGED <<rows, at, progressed, pending, completed, errors>>
  BY DEF Select, lap, leaves
<1>2. PICK locked \in SUBSET Expired(Table) :
        /\ excused' = excused \cup locked
        /\ batch' \in {v \in SUBSET (Expired(Table) \ locked) :
             \/ Cardinality(v) = BatchSize
             \/ Cardinality(v) < BatchSize /\ v = Expired(Table) \ locked}
  BY DEF Select
<1>3. \A t : Left(t)' \subseteq Left(t)
  BY <1>1, <1>2, LeftOnlyShrinks
<1>4. Table' = Table /\ Expired(Table)' = Expired(Table)
  BY <1>1 DEF Table, Expired, References
<1>5. BatchIsGuarded'
  <2>1. \A r \in batch', c \in rows : ~References(c, r)
    BY <1>2, ExpiredIsFree DEF RetentionInv
  <2> QED
    BY <1>1, <2>1 DEF BatchIsGuarded, References
<1>6. BatchIsWhole'
  <2>1. SUFFICES ASSUME Cardinality(batch') < BatchSize PROVE Left(Table)' \subseteq batch'
    BY DEF BatchIsWhole
  <2>2. Cardinality(batch') # BatchSize
    BY <2>1, RetentionBounds
  <2>3. batch' = Expired(Table) \ locked
    BY <1>2, <2>2
  <2> QED
    BY <1>2, <1>4, <2>3 DEF Left
<1> QED
  BY <1>1, <1>3, <1>5, <1>6 DEF RetentionInv, NeededStays, CompletedAreDry, LapIsIdle, CleanWhenDone

LEMMA SkipKeeps ==
  ASSUME RetentionInv, Skip PROVE LapIsIdle'
<1>1. /\ phase = "lap" /\ at <= Len(Plan) /\ PassedOver /\ at' = at + 1
      /\ UNCHANGED <<rows, phase, progressed, pending, completed, errors, excused>>
  BY DEF Skip, leaves
<1>2. \A t : Left(t)' = Left(t)
  BY <1>1 DEF Left, Expired, References
<1>3. /\ at \in Nat /\ completed = Leaves \ pending /\ pending \subseteq Leaves
  BY PlanFacts DEF RetentionInv, RetentionTypes, RetentionTypeOK
<1>4. SUFFICES ASSUME ~progressed, errors = {}, NEW i \in 1..Len(Plan), i < at + 1
               PROVE  Plan[i] \notin pending /\ (pending = {} => Left(Plan[i]) = {})
  BY <1>1, <1>2 DEF LapIsIdle
<1>5. CASE i < at
  BY <1>1, <1>4, <1>5 DEF RetentionInv, LapIsIdle
<1>6. CASE ~(i < at)
  <2>1. Plan[i] = Table
    BY <1>3, <1>4, <1>6 DEF Table
  <2> QED
    BY <1>1, <1>3, <1>4, <2>1, PlanFacts DEF PassedOver, RetentionInv, CompletedAreDry
<1> QED
  BY <1>5, <1>6

LEMMA CommitKeeps ==
  ASSUME RetentionInv, Commit PROVE NeededStays' /\ BatchIsGuarded' /\ BatchIsWhole' /\ CompletedAreDry'
         /\ LapIsIdle' /\ CleanWhenDone'
<1>1. /\ phase = "batch" /\ ~Violates /\ phase' = "lap" /\ at' = at + 1 /\ batch' = {}
      /\ rows' = rows \ batch /\ UNCHANGED <<errors, excused>>
  BY DEF Commit, Ends
<1>2. PICK dry \in BOOLEAN :
        /\ dry <=> Table \in pending /\ Cardinality(batch) < BatchSize
        /\ progressed' <=> progressed \/ batch # {} \/ dry
        /\ pending' = IF dry THEN pending \ {Table} ELSE pending
        /\ completed' = IF dry THEN completed \cup {Table} ELSE completed
  <2>1. PICK dry \in BOOLEAN : dry <=> Table \in pending /\ Cardinality(batch) < BatchSize
    OBVIOUS
  <2>2. progressed' <=> progressed \/ batch # {} \/ dry
    BY <2>1, Zenon DEF Commit
  <2>3. /\ pending' = IF dry THEN pending \ {Table} ELSE pending
        /\ completed' = IF dry THEN completed \cup {Table} ELSE completed
    BY <2>1 DEF Commit
  <2> QED
    BY <2>1, <2>2, <2>3
<1>3. /\ at \in Nat /\ completed = Leaves \ pending /\ pending \subseteq Leaves
  BY PlanFacts DEF RetentionInv, RetentionTypes, RetentionTypeOK
<1>4. NeededStays'
  <2>1. SUFFICES ASSUME NEW c \in rows \ batch, NEW id \in c.of PROVE \E p \in rows \ batch : Id(p) = id
    BY <1>1 DEF NeededStays
  <2>2. PICK p \in rows : Id(p) = id
    BY <2>1 DEF RetentionInv, NeededStays
  <2>3. p \notin batch
    BY <1>1, <2>1, <2>2 DEF RetentionInv, BatchIsGuarded, Violates, References
  <2> QED
    BY <2>2, <2>3
<1>5. CompletedAreDry'
  <2>1. ASSUME NEW t \in completed PROVE Left(t)' = {}
    BY <1>1, <1>3, LeafShrinks DEF RetentionInv, CompletedAreDry
  <2>2. ASSUME dry, NEW t, t = Table PROVE Left(t)' = {}
    <3>1. t \in Leaves /\ Left(t) \subseteq batch
      BY <1>1, <1>2, <1>3, <2>2 DEF RetentionInv, BatchIsWhole
    <3>2. Left(t)' \subseteq Left(t) \ batch
      BY <1>1, <3>1, LeafShrinks
    <3> QED
      BY <3>1, <3>2
  <2>3. completed' \subseteq completed \cup (IF dry THEN {Table} ELSE {})
    BY <1>2
  <2>4. \A t \in completed' : Left(t)' = {}
    BY <2>1, <2>2, <2>3
  <2> QED
    BY <2>4 DEF CompletedAreDry
<1>6. LapIsIdle'
  <2>1. SUFFICES ASSUME ~progressed', errors = {}, NEW i \in 1..Len(Plan), i < at + 1
                 PROVE  Plan[i] \notin pending' /\ (pending' = {} => Left(Plan[i])' = {})
    BY <1>1 DEF LapIsIdle
  <2>2. ~progressed /\ batch = {} /\ ~dry /\ rows' = rows /\ pending' = pending
    BY <1>1, <1>2, <2>1
  <2>3. \A t : Left(t)' = Left(t)
    BY <1>1, <2>2 DEF Left, Expired, References
  <2>4. CASE i < at
    BY <1>1, <2>1, <2>2, <2>3, <2>4 DEF RetentionInv, LapIsIdle
  <2>5. CASE ~(i < at)
    <3>1. Plan[i] = Table
      BY <1>3, <2>1, <2>5 DEF Table
    <3>2. Cardinality(batch) < BatchSize
      BY <2>2, EmptyBatch
    <3>3. Table \notin pending /\ Left(Table) = {}
      BY <1>1, <1>2, <2>2, <3>2 DEF RetentionInv, BatchIsWhole
    <3> QED
      BY <2>2, <2>3, <3>1, <3>3
  <2> QED
    BY <2>4, <2>5
<1> QED
  BY <1>1, <1>4, <1>5, <1>6 DEF BatchIsGuarded, BatchIsWhole, CleanWhenDone

LEMMA LapEndsKeeps ==
  ASSUME RetentionInv, LapEnds PROVE LapIsIdle' /\ CleanWhenDone'
<1>1. /\ phase = "lap" /\ at > Len(Plan)
      /\ UNCHANGED <<rows, pending, completed, errors, excused>>
      /\ \/ phase' = "lap" /\ at' = 1
         \/ ~progressed /\ phase' = "complete"
  BY DEF LapEnds, lap, leaves
<1>2. \A t : Left(t)' = Left(t)
  BY <1>1 DEF Left, Expired, References
<1>3. ~progressed /\ errors = {} => \A t \in Tables : Left(t) = {}
  <2>1. SUFFICES ASSUME ~progressed, errors = {} PROVE \A t \in Tables : Left(t) = {}
    OBVIOUS
  <2>2. \A i \in 1..Len(Plan) : i < at
    BY <1>1, PlanFacts DEF RetentionInv, RetentionTypes, RetentionTypeOK
  <2>3. \A i \in 1..Len(Plan) : Plan[i] \notin pending /\ (pending = {} => Left(Plan[i]) = {})
    BY <1>1, <2>1, <2>2 DEF RetentionInv, LapIsIdle
  <2>4. pending = {}
    BY <2>3, PlanFacts DEF RetentionInv, RetentionTypes, RetentionTypeOK, Tables
  <2> QED
    BY <2>3, <2>4 DEF Tables
<1>4. \A i \in 1..Len(Plan) : ~(i < 1)
  BY PlanFacts
<1> QED
  BY <1>1, <1>2, <1>3, <1>4 DEF LapIsIdle, CleanWhenDone

LEMMA RetentionInvNext == ASSUME RetentionInv, [RetentionNext]_retentionVars PROVE RetentionInv'
<1>0. RetentionTypes'
  BY RetentionTypesNext DEF RetentionInv
<1>1. CASE \E new \in Arrivals : Insert(new)
  BY <1>0, <1>1, InsertKeeps DEF RetentionInv
<1>2. CASE Begin
  <2>1. /\ phase # "batch" /\ phase' = "lap" /\ at' = 1 /\ completed' = {} /\ UNCHANGED <<rows, batch>>
    BY <1>2 DEF Begin
  <2>2. batch' = {}
    BY <2>1 DEF RetentionInv, RetentionTypes
  <2>3. \A i \in 1..Len(Plan) : ~(i < 1)
    BY PlanFacts
  <2> QED
    BY <1>0, <2>1, <2>2, <2>3 DEF RetentionInv, NeededStays, BatchIsGuarded, BatchIsWhole, CompletedAreDry, LapIsIdle,
       CleanWhenDone
<1>3. CASE Skip
  <2>1. /\ phase = "lap" /\ UNCHANGED <<rows, phase, completed, errors, excused, batch>>
    BY <1>3 DEF Skip, leaves
  <2>2. batch' = {} /\ \A t : Left(t)' = Left(t)
    BY <2>1 DEF RetentionInv, RetentionTypes, Left, Expired, References
  <2> QED
    BY <1>0, <1>3, <2>1, <2>2, SkipKeeps DEF RetentionInv, NeededStays, BatchIsGuarded, BatchIsWhole, CompletedAreDry,
       CleanWhenDone
<1>4. CASE Select
  BY <1>0, <1>4, SelectKeeps DEF RetentionInv
<1>5. CASE Commit
  BY <1>0, <1>5, CommitKeeps DEF RetentionInv
<1>6. CASE Fails
  <2>1. /\ phase' = "lap" /\ batch' = {} /\ errors' = errors \cup {Table} /\ UNCHANGED <<rows, completed, excused>>
    BY <1>6 DEF Fails, Ends, leaves
  <2>2. errors' # {} /\ \A t : Left(t)' = Left(t)
    BY <2>1 DEF Left, Expired, References
  <2> QED
    BY <1>0, <2>1, <2>2 DEF RetentionInv, NeededStays, BatchIsGuarded, BatchIsWhole, CompletedAreDry, LapIsIdle,
       CleanWhenDone
<1>7. CASE LapEnds
  <2>1. /\ phase' # "batch" /\ UNCHANGED <<rows, completed, excused, batch>> /\ phase = "lap"
    BY <1>7 DEF LapEnds, leaves
  <2>2. batch' = {} /\ \A t : Left(t)' = Left(t)
    BY <2>1 DEF RetentionInv, RetentionTypes, Left, Expired, References
  <2> QED
    BY <1>0, <1>7, <2>1, <2>2, LapEndsKeeps DEF RetentionInv, NeededStays, BatchIsGuarded, BatchIsWhole, CompletedAreDry
<1>8. CASE Deadline
  <2>1. /\ phase = "lap" /\ phase' = "cut" /\ UNCHANGED <<rows, completed, excused, batch>>
    BY <1>8 DEF Deadline, leaves
  <2>2. batch' = {} /\ \A t : Left(t)' = Left(t)
    BY <2>1 DEF RetentionInv, RetentionTypes, Left, Expired, References
  <2> QED
    BY <1>0, <2>1, <2>2 DEF RetentionInv, NeededStays, BatchIsGuarded, BatchIsWhole, CompletedAreDry, LapIsIdle,
       CleanWhenDone
<1>9. CASE UNCHANGED retentionVars
  <2>1. UNCHANGED <<rows, phase, at, progressed, pending, completed, errors, excused, batch>>
    BY <1>9 DEF retentionVars, lap, leaves
  <2>2. NeededStays' /\ BatchIsGuarded'
    BY <2>1 DEF RetentionInv, NeededStays, BatchIsGuarded, Table, References
  <2> QED
    BY <1>0, <2>1, <2>2, ExcusedKeeps DEF RetentionInv
<1> QED
  BY <1>1, <1>2, <1>3, <1>4, <1>5, <1>6, <1>7, <1>8, <1>9 DEF RetentionNext, Pass

\* Expiry deletes no row that another one still needs, whatever is written meanwhile, and a pass that
\* ends before its deadline, without an error, has left nothing that it may delete.
THEOREM ExactExpiry == RetentionSpec => []ExpiryIsExact
<1>1. RetentionInv /\ [RetentionNext]_retentionVars => RetentionInv'
  BY RetentionInvNext
<1>2. RetentionInv => ExpiryIsExact
  BY DEF RetentionInv, RetentionTypes, ExpiryIsExact
<1> QED
  BY RetentionInvInit, <1>1, <1>2, PTL DEF RetentionSpec
=============================================================================
