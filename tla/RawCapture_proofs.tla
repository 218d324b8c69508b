-------------------------- MODULE RawCapture_proofs --------------------------
(***************************************************************************)
(* Theorems about RawCapture, for any queue and batch sizes and any        *)
(* number of trades and connections.                                       *)
(***************************************************************************)
EXTENDS RawCapture, FiniteSetTheorems, TLAPS

----------------------------------------------------------------------------
(* Offering, draining and settling. *)

Queue == [buffer : Seq(Record), dropped : Nat]

\* What a queue holds.
Within(seq) == {seq[i] : i \in 1..Len(seq)}

\* One record more is buffered or dropped, and nothing appears that was not offered.
LEMMA OfferedAccounts ==
  ASSUME NEW state \in Queue, Len(state.buffer) <= QueueMax, NEW r \in Record
  PROVE  /\ Offered(state, r) \in Queue
         /\ Len(Offered(state, r).buffer) <= QueueMax
         /\ Len(Offered(state, r).buffer) + Offered(state, r).dropped
              = Len(state.buffer) + state.dropped + 1
         /\ Within(Offered(state, r).buffer) \subseteq Within(state.buffer) \cup {r}
<1> DEFINE items == state.buffer
<1>1. items \in Seq(Record) /\ state.dropped \in Nat /\ Len(items) \in Nat
  BY DEF Queue
<1>2. QueueMax \in Nat /\ QueueMax > 0
  BY Limits
<1>3. CASE stop \/ ~permitted
  BY <1>1, <1>3 DEF Offered, Queue, Within
<1>4. CASE ~(stop \/ ~permitted) /\ Len(items) = QueueMax
  <2>1. Tail(items) \in Seq(Record) /\ Len(Tail(items)) = Len(items) - 1
    BY <1>1, <1>2, <1>4
  <2>2. \A i \in 1..Len(Tail(items)) : Tail(items)[i] = items[i + 1]
    BY <1>1, <1>2, <1>4
  <2>3. Offered(state, r) = [buffer |-> Append(Tail(items), r), dropped |-> state.dropped + 1]
    BY <1>4 DEF Offered
  <2>4. /\ Append(Tail(items), r) \in Seq(Record) /\ Len(Append(Tail(items), r)) = Len(items)
        /\ \A i \in 1..Len(items) :
             Append(Tail(items), r)[i] = IF i <= Len(items) - 1 THEN Tail(items)[i] ELSE r
    BY <2>1, <1>1, <1>2
  <2>5. Within(Append(Tail(items), r)) \subseteq Within(items) \cup {r}
    BY <2>1, <2>2, <2>4, <1>1 DEF Within
  <2>6. /\ Offered(state, r) \in Queue
        /\ Offered(state, r).buffer = Append(Tail(items), r)
        /\ Offered(state, r).dropped = state.dropped + 1
    BY <2>3, <2>4, <1>1 DEF Queue
  <2>7. Len(Offered(state, r).buffer) = Len(items)
    BY <2>4, <2>6
  <2> QED
    BY <2>5, <2>6, <2>7, <1>1, <1>4, SMTT(30)
<1>5. CASE ~(stop \/ ~permitted) /\ Len(items) # QueueMax
  <2>1. Offered(state, r) = [buffer |-> Append(items, r), dropped |-> state.dropped]
    BY <1>5 DEF Offered
  <2>2. /\ Append(items, r) \in Seq(Record) /\ Len(Append(items, r)) = Len(items) + 1
        /\ \A i \in 1..(Len(items) + 1) :
             Append(items, r)[i] = IF i <= Len(items) THEN items[i] ELSE r
    BY <1>1
  <2>3. Within(Append(items, r)) \subseteq Within(items) \cup {r}
    BY <2>2, <1>1 DEF Within
  <2>4. /\ Offered(state, r) \in Queue
        /\ Offered(state, r).buffer = Append(items, r)
        /\ Offered(state, r).dropped = state.dropped
    BY <2>1, <2>2, <1>1 DEF Queue
  <2>5. Len(Offered(state, r).buffer) = Len(items) + 1
    BY <2>2, <2>4
  <2> QED
    BY <2>3, <2>4, <2>5, <1>1, <1>2, <1>5, SMTT(30)
<1> QED
  BY <1>3, <1>4, <1>5

\* drain_nowait moves records from the buffer to the batch, and no other.
LEMMA DrainMoves ==
  ASSUME buffer \in Seq(Record), batch \in Seq(Record), Len(batch) <= BatchMax, Drained > 0,
         batch' = batch \o SubSeq(buffer, 1, Drained),
         buffer' = SubSeq(buffer, 1 + Drained, Len(buffer))
  PROVE  /\ buffer' \in Seq(Record) /\ batch' \in Seq(Record)
         /\ Len(buffer') + Len(batch') = Len(buffer) + Len(batch)
         /\ Len(buffer') <= Len(buffer) /\ Len(batch') <= BatchMax
         /\ Within(buffer') \cup Within(batch') \subseteq Within(buffer) \cup Within(batch)
<1>1. BatchMax \in Nat /\ Len(buffer) \in Nat /\ Len(batch) \in Nat
  BY Limits
<1>2. Drained \in 1..Len(buffer) /\ Drained <= BatchMax - Len(batch)
  BY <1>1 DEF Drained
<1> HIDE DEF Drained
<1>3. /\ SubSeq(buffer, 1, Drained) \in Seq(Record) /\ Len(SubSeq(buffer, 1, Drained)) = Drained
      /\ \A i \in 1..Drained : SubSeq(buffer, 1, Drained)[i] = buffer[i]
  BY <1>1, <1>2
<1>4. /\ buffer' \in Seq(Record) /\ Len(buffer') = Len(buffer) - Drained
      /\ \A i \in 1..Len(buffer') : buffer'[i] = buffer[i + Drained]
  BY <1>1, <1>2
<1>5. /\ batch' \in Seq(Record) /\ Len(batch') = Len(batch) + Drained
      /\ \A i \in 1..Len(batch') :
           batch'[i] = IF i <= Len(batch) THEN batch[i] ELSE SubSeq(buffer, 1, Drained)[i - Len(batch)]
  BY <1>1, <1>2, <1>3
<1>6. Within(buffer') \subseteq Within(buffer)
  BY <1>1, <1>2, <1>4 DEF Within
<1>7. Within(batch') \subseteq Within(buffer) \cup Within(batch)
  <2>1. SUFFICES ASSUME NEW i \in 1..Len(batch')
                 PROVE  batch'[i] \in Within(buffer) \cup Within(batch)
    BY DEF Within
  <2>2. CASE i <= Len(batch)
    BY <2>2, <1>1, <1>5 DEF Within
  <2>3. CASE i > Len(batch)
    <3>1. i - Len(batch) \in 1..Drained /\ i - Len(batch) \in 1..Len(buffer)
      BY <2>3, <1>1, <1>2, <1>5
    <3>2. batch'[i] = buffer[i - Len(batch)]
      BY <3>1, <2>3, <1>1, <1>3, <1>5, SMTT(30)
    <3> QED
      BY <3>1, <3>2 DEF Within
  <2> QED
    BY <2>2, <2>3, <1>1, <1>5
<1>8. Len(buffer') = Len(buffer) - Drained /\ Len(batch') = Len(batch) + Drained
  BY <1>4, <1>5
<1>9. /\ Len(buffer') + Len(batch') = Len(buffer) + Len(batch)
      /\ Len(buffer') <= Len(buffer) /\ Len(batch') <= BatchMax
  <2> DEFINE l == Len(buffer')  m == Len(batch')  n == Len(buffer)  k == Len(batch)
  <2>1. l = n - Drained /\ m = k + Drained /\ n \in Nat /\ k \in Nat
    BY <1>1, <1>8
  <2> HIDE DEF l, m, n, k
  <2>2. Drained \in Int /\ Drained >= 1 /\ Drained <= BatchMax - k
    BY <1>1, <1>2 DEF n, k
  <2>3. l + m = n + k /\ l <= n /\ m <= BatchMax
    BY <1>1, <2>1, <2>2
  <2> QED
    BY <2>3 DEF l, m, n, k
<1> QED
  BY <1>4, <1>5, <1>6, <1>7, <1>8, <1>9

\* Rows reported as written are rows of the batch.
LEMMA RowsCounted ==
  ASSUME batch \in Seq(Record), NEW written \in SUBSET (1..Len(batch))
  PROVE  Cardinality(written) \in Nat /\ Cardinality(written) <= Len(batch)
<1>1. Len(batch) \in Nat
  OBVIOUS
<1>2. IsFiniteSet(1..Len(batch)) /\ Cardinality(1..Len(batch)) = Len(batch)
  BY <1>1, FS_Interval, SMTT(30)
<1> QED
  BY <1>2, FS_Subset, FS_CardinalityType

LEMMA GroupIsRows ==
  ASSUME TypeOK, NEW ok \in BOOLEAN
  PROVE  Group \subseteq 1..Len(batch) /\ Reported(ok) \subseteq 1..Len(batch)
BY DEF TypeOK, Group, Reported

\* A group that takes effect stores rows of the batch.
LEMMA CopiedFromBatch ==
  ASSUME TypeOK, NEW effect \in BOOLEAN
  PROVE  Copied(effect) \subseteq Record /\ Copied(effect) \subseteq stored \cup Within(batch)
<1>1. \A i \in Group : i \in 1..Len(batch) /\ batch[i] \in Record
  BY DEF TypeOK, Group
<1> QED
  BY <1>1 DEF TypeOK, Copied, Within
----------------------------------------------------------------------------
(* The inductive invariant. *)

\* Only a batch that is being written has rows reported.
RowsInv == pc # "writing" => rows = {}

\* Everything made so far belongs to a sealed bucket; the pending one is later than those.
Fits(r) == r.kind = "trace" => r.conn < conn \/ (r.conn = conn /\ r.at <= sealed)
SealedInv ==
  /\ open \/ pending = -1
  /\ pending # -1 => pending > sealed
  /\ \A r \in Within(buffer) \cup Within(batch) \cup stored : Fits(r)

Inv == TypeOK /\ Accounted /\ RowsInv /\ SealedInv

LEMMA BucketIsNat == \A b \in Buckets : b \in Nat
BY BucketsAreTimes

LEMMA InitInv == Init => Inv
<1> SUFFICES ASSUME Init PROVE Inv
  OBVIOUS
<1>1. buffer = <<>> /\ batch = <<>> /\ Len(buffer) = 0 /\ Len(batch) = 0 /\ stored = {}
  BY DEF Init
<1>2. TypeOK
  <2>1. buffer \in Seq(Record) /\ batch \in Seq(Record) /\ stored \subseteq Record
    BY <1>1
  <2>2. Len(buffer) <= QueueMax /\ Len(batch) <= BatchMax
    BY <1>1, Limits
  <2>3. rows \subseteq 1..Len(batch)
    BY DEF Init
  <2> QED
    BY <2>1, <2>2, <2>3 DEF Init, TypeOK
<1>3. Accounted
  BY <1>1 DEF Init, Accounted
<1>4. Within(buffer) = {} /\ Within(batch) = {}
  BY <1>1 DEF Within
<1> QED
  BY <1>1, <1>2, <1>3, <1>4 DEF Init, Inv, RowsInv, SealedInv

\* The books: what was made, what is settled or pending, what is queued or lost, what was taken.
Placing == IF pending = -1 THEN 0 ELSE 1
Made    == accepted + sessions
Settled == coalesced + Placing
Queued  == Len(buffer) + dropped
Taken   == Len(batch) + persisted

LEMMA BooksAre ==
  ASSUME TypeOK
  PROVE  /\ Made \in Int /\ Settled \in Int /\ Queued \in Int /\ Taken \in Int
         /\ Accounted <=> Made = Settled + Queued + Taken
<1> DEFINE l == Len(buffer)  n == Len(batch)
<1>1. l \in Int /\ n \in Int /\ Placing \in Int /\ Queued = l + dropped /\ Taken = n + persisted
  BY DEF TypeOK, Placing, Queued, Taken
<1>2. accepted \in Int /\ sessions \in Int /\ coalesced \in Int /\ dropped \in Int /\ persisted \in Int
  BY DEF TypeOK
<1>3. Accounted <=> Made = coalesced + Placing + l + n + persisted + dropped
  BY DEF Accounted, Placing, Made
<1> HIDE DEF l, n, Placing, Accounted
<1> QED
  BY <1>1, <1>2, <1>3 DEF Made, Settled

\* They stay balanced when what is made is what is settled, queued or taken.
LEMMA BooksBalance ==
  ASSUME TypeOK, TypeOK', Accounted,
         NEW m \in Int, NEW s \in Int, NEW q \in Int, NEW t \in Int, m = s + q + t,
         Made' = Made + m, Settled' = Settled + s, Queued' = Queued + q, Taken' = Taken + t
  PROVE  Accounted'
<1>1. Made \in Int /\ Settled \in Int /\ Queued \in Int /\ Taken \in Int
  BY BooksAre
<1>2. Accounted' <=> Made' = Settled' + Queued' + Taken'
  <2> DEFINE l == Len(buffer)'  n == Len(batch)'
  <2>1. /\ l \in Int /\ n \in Int /\ Placing' \in Int
        /\ Queued' = l + dropped' /\ Taken' = n + persisted'
    BY DEF TypeOK, Placing, Queued, Taken
  <2>2. /\ accepted' \in Int /\ sessions' \in Int /\ coalesced' \in Int
        /\ dropped' \in Int /\ persisted' \in Int
    BY DEF TypeOK
  <2>3. Accounted' <=> Made' = coalesced' + Placing' + l + n + persisted' + dropped'
    BY DEF Accounted, Placing, Made
  <2>4. Settled' = coalesced' + Placing' /\ Made' \in Int
    BY <2>2 DEF Settled, Made
  <2> DEFINE c == coalesced'  d == dropped'  g == persisted'  h == Placing'
             u == Made'  v == Settled'  w == Queued'  x == Taken'
  <2>5. /\ l \in Int /\ n \in Int /\ c \in Int /\ d \in Int /\ g \in Int /\ h \in Int /\ u \in Int
        /\ v = c + h /\ w = l + d /\ x = n + g
    BY <2>1, <2>2, <2>4
  <2>6. Accounted' <=> u = c + h + l + n + g + d
    BY <2>3
  <2> HIDE DEF l, n, c, d, g, h, u, v, w, x
  <2>7. u = c + h + l + n + g + d <=> u = v + w + x
    BY <2>5
  <2> QED
    BY <2>6, <2>7 DEF u, v, w, x
<1>3. Made = Settled + Queued + Taken
  BY BooksAre
<1> QED
  BY <1>1, <1>2, <1>3

\* What an offer leaves behind, for the actions of the reader that make one.
LEMMA OfferHere ==
  ASSUME TypeOK, NEW r \in Record
  PROVE  /\ Here \in Queue /\ Here.buffer = buffer /\ Here.dropped = dropped
         /\ Offered(Here, r) \in Queue
         /\ Len(Offered(Here, r).buffer) <= QueueMax
         /\ Len(Offered(Here, r).buffer) + Offered(Here, r).dropped = Queued + 1
         /\ Within(Offered(Here, r).buffer) \subseteq Within(buffer) \cup {r}
<1>1. Here \in Queue /\ Here.buffer = buffer /\ Here.dropped = dropped /\ Len(buffer) <= QueueMax
  BY DEF TypeOK, Here, Queue
<1> QED
  BY <1>1, OfferedAccounts DEF Queued

LEMMA Numbers ==
  ASSUME TypeOK
  PROVE  /\ conn \in Nat /\ accepted \in Nat /\ sessions \in Nat /\ coalesced \in Nat
         /\ dropped \in Nat /\ persisted \in Nat /\ Len(buffer) \in Nat /\ Len(batch) \in Nat
         /\ pending \in Int /\ sealed \in Int /\ pending >= -1 /\ sealed >= -1
BY BucketIsNat DEF TypeOK

LEMMA RecordsMade ==
  ASSUME TypeOK
  PROVE  /\ \A c \in Nat, e \in {0, 1} : Session(c, e) \in Record
         /\ pending # -1 => Trace(pending) \in Record
BY BucketIsNat DEF TypeOK, Session, Trace, Record

\* The writer's part of the state, which the reader leaves alone.
LEMMA ReaderFrame ==
  ASSUME ReaderKeeps
  PROVE  /\ persisted' = persisted /\ batch' = batch /\ group' = group /\ rows' = rows /\ pc' = pc
         /\ permitted' = permitted /\ stored' = stored /\ stop' = stop /\ closer' = closer
         /\ accounted' = accounted /\ Len(batch') = Len(batch)
BY DEF ReaderKeeps, writer, ending

LEMMA ReaderTypes ==
  ASSUME TypeOK, ReaderKeeps, conn' \in Nat, open' \in BOOLEAN,
         pending' \in Buckets \cup {-1}, sealed' \in Buckets \cup {-1},
         accepted' \in Nat, sessions' \in Nat, coalesced' \in Nat, dropped' \in Nat,
         buffer' \in Seq(Record), Len(buffer') <= QueueMax
  PROVE  TypeOK'
BY ReaderFrame, ZenonT(60) DEF TypeOK

\* What fits goes on fitting while buckets are sealed in order, and in a new connection.
LEMMA FitsStays ==
  ASSUME TypeOK, TypeOK', NEW r \in Record, Fits(r),
         (conn' = conn /\ sealed' >= sealed) \/ conn' > conn
  PROVE  Fits(r)'
<1>1. SUFFICES ASSUME r.kind = "trace"
               PROVE  r.conn < conn' \/ (r.conn = conn' /\ r.at <= sealed')
  BY DEF Fits
<1>2. r \in [kind : {"trace"}, conn : Nat, at : Buckets]
  BY <1>1 DEF Record
<1>3. r.conn \in Nat /\ r.at \in Nat
  BY <1>2, BucketIsNat
<1>4. conn \in Nat /\ conn' \in Nat /\ sealed \in Int /\ sealed' \in Int
  BY BucketIsNat, SMTT(30) DEF TypeOK
<1> QED
  BY <1>1, <1>3, <1>4 DEF Fits

LEMMA ReaderSeals ==
  ASSUME Inv, ReaderKeeps, TypeOK',
         \A q \in Within(buffer') : q \in Within(buffer) \/ Fits(q)',
         open' \/ pending' = -1, pending' # -1 => pending' > sealed',
         (conn' = conn /\ sealed' >= sealed) \/ conn' > conn
  PROVE  RowsInv' /\ SealedInv'
<1>1. Within(batch') = Within(batch) /\ stored' = stored /\ rows' = rows /\ pc' = pc
  BY ReaderFrame DEF Within
<1>2. \A q \in Within(buffer) \cup Within(batch) \cup stored : q \in Record /\ Fits(q)
  BY SMTT(30) DEF Inv, TypeOK, SealedInv, Within
<1>3. \A q \in Within(buffer) \cup Within(batch) \cup stored : Fits(q)'
  BY <1>2, FitsStays DEF Inv
<1>4. \A q \in Within(buffer') \cup Within(batch') \cup stored' : Fits(q)'
  BY <1>1, <1>3
<1> QED
  BY <1>1, <1>4 DEF Inv, RowsInv, SealedInv

----------------------------------------------------------------------------
(* The reader. *)

LEMMA ConnectKeeps == ASSUME Inv, Connect PROVE Inv'
<1> DEFINE r == Session(conn + 1, 0)
<1>1. TypeOK /\ Accounted /\ pending = -1
  BY DEF Inv, SealedInv, Connect
<1>2. /\ conn' = conn + 1 /\ open' = TRUE /\ pending' = -1 /\ sealed' = -1 /\ ReaderKeeps
      /\ accepted' = accepted /\ coalesced' = coalesced /\ sessions' = sessions + 1
      /\ buffer' = Offered(Here, r).buffer /\ dropped' = Offered(Here, r).dropped
  BY DEF Connect, Becomes
<1>3. r \in Record /\ conn \in Nat
  BY <1>1, Numbers, RecordsMade
<1>4. /\ buffer' \in Seq(Record) /\ dropped' \in Nat /\ Len(buffer') <= QueueMax
      /\ Queued' = Queued + 1
      /\ Within(buffer') \subseteq Within(buffer) \cup {r}
  BY <1>1, <1>2, <1>3, OfferHere DEF Queue, Queued
<1>5. TypeOK'
  <2>1. conn' \in Nat /\ accepted' \in Nat /\ sessions' \in Nat /\ coalesced' \in Nat
    BY <1>1, <1>2, Numbers, SMTT(30)
  <2> QED
    BY <2>1, <1>1, <1>2, <1>4, ReaderTypes
<1>6. Accounted'
  <2>1. Made' = Made + 1
    BY <1>1, <1>2, Numbers, SMTT(30) DEF Made
  <2>2. Settled' = Settled + 0
    BY <1>1, <1>2, Numbers DEF Settled, Placing
  <2>3. Taken' = Taken + 0
    BY <1>1, <1>2, ReaderFrame, Numbers, SMTT(30) DEF Taken
  <2> QED
    BY <2>1, <2>2, <2>3, <1>1, <1>4, <1>5, BooksBalance
<1>7. \A q \in Within(buffer') : q \in Within(buffer) \/ Fits(q)'
  BY <1>4 DEF Fits, Session
<1>8. conn' > conn
  BY <1>2, <1>3
<1>9. RowsInv' /\ SealedInv'
  BY <1>2, <1>5, <1>7, <1>8, ReaderSeals
<1> QED
  BY <1>5, <1>6, <1>9 DEF Inv

LEMMA ReceiveKeeps ==
  ASSUME Inv, NEW b \in Buckets, ReceiveLate(b) \/ ReceiveFirst(b) \/ ReceiveSame(b)
  PROVE  Inv'
<1>1. TypeOK /\ Accounted /\ b \in Nat
  BY BucketIsNat DEF Inv
<1>2. /\ ReaderKeeps /\ open /\ conn' = conn /\ open' = open /\ sealed' = sealed
      /\ sessions' = sessions /\ buffer' = buffer /\ accepted' = accepted + 1
  BY DEF ReceiveLate, ReceiveFirst, ReceiveSame
<1>3. \/ /\ pending' = pending /\ coalesced' = coalesced /\ dropped' = dropped + 1
      \/ /\ pending = -1 /\ pending' = b /\ coalesced' = coalesced /\ dropped' = dropped /\ ~(b <= sealed)
      \/ /\ pending' = pending /\ coalesced' = coalesced + 1 /\ dropped' = dropped
  BY DEF ReceiveLate, ReceiveFirst, ReceiveSame, Late
<1>4. TypeOK'
  <2>1. /\ accepted' \in Nat /\ coalesced' \in Nat /\ dropped' \in Nat
        /\ conn' \in Nat /\ sessions' \in Nat
    BY <1>1, <1>2, <1>3, Numbers, SMTT(30)
  <2>2. /\ pending' \in Buckets \cup {-1} /\ sealed' \in Buckets \cup {-1}
        /\ open' \in BOOLEAN /\ buffer' \in Seq(Record) /\ Len(buffer') <= QueueMax
    BY <1>1, <1>2, <1>3 DEF TypeOK
  <2> QED
    BY <2>1, <2>2, <1>1, <1>2, ReaderTypes
<1>5. Accounted'
  <2>1. Made' = Made + 1
    BY <1>1, <1>2, Numbers, SMTT(30) DEF Made
  <2>2. \/ Settled' = Settled + 0 /\ Queued' = Queued + 1
        \/ Settled' = Settled + 1 /\ Queued' = Queued + 0
    <3>1. Len(buffer') = Len(buffer)
      BY <1>2
    <3>2. Placing' \in Int /\ Placing \in Int /\ (pending' = pending => Placing' = Placing)
      BY DEF Placing
    <3>3. pending = -1 /\ pending' = b => Placing' = Placing + 1
      BY <1>1 DEF Placing
    <3>4. CASE pending' = pending /\ coalesced' = coalesced /\ dropped' = dropped + 1
      BY <3>1, <3>2, <3>4, <1>1, Numbers, SMTT(30) DEF Settled, Queued
    <3>5. CASE pending = -1 /\ pending' = b /\ coalesced' = coalesced /\ dropped' = dropped
      BY <3>1, <3>2, <3>3, <3>5, <1>1, Numbers DEF Settled, Queued
    <3>6. CASE pending' = pending /\ coalesced' = coalesced + 1 /\ dropped' = dropped
      <4>1. Placing' = Placing
        BY <3>2, <3>6
      <4>2. Settled' = Settled + 1
        BY <4>1, <3>2, <3>6, <1>1, Numbers, SMTT(30) DEF Settled
      <4>3. Queued' = Queued + 0
        BY <3>1, <3>6, <1>1, Numbers, SMTT(30) DEF Queued
      <4> QED
        BY <4>2, <4>3
    <3> QED
      BY <3>4, <3>5, <3>6, <1>3
  <2>3. Taken' = Taken + 0
    BY <1>1, <1>2, ReaderFrame, Numbers, SMTT(30) DEF Taken
  <2> QED
    BY <2>1, <2>2, <2>3, <1>1, <1>4, BooksBalance
<1>6. open' /\ (pending' # -1 => pending' > sealed') /\ sealed' >= sealed
  BY <1>1, <1>2, <1>3, Numbers, SMTT(30) DEF Inv, SealedInv
<1>7. RowsInv' /\ SealedInv'
  <2>1. Within(buffer') = Within(buffer)
    BY <1>2 DEF Within
  <2> QED
    BY <2>1, <1>2, <1>4, <1>6, ReaderSeals
<1> QED
  BY <1>4, <1>5, <1>7 DEF Inv

LEMMA SealKeeps ==
  ASSUME Inv, NEW b \in Buckets, ReceiveNext(b) \/ SealIdle
  PROVE  Inv'
<1> DEFINE r == Trace(pending)
<1>1. TypeOK /\ Accounted /\ b \in Nat /\ pending # -1 /\ pending > sealed
  BY BucketIsNat DEF Inv, ReceiveNext, SealIdle, SealedInv
<1>2. /\ ReaderKeeps /\ open /\ conn' = conn /\ open' = open /\ sealed' = pending
      /\ sessions' = sessions /\ coalesced' = coalesced
      /\ buffer' = Offered(Here, r).buffer /\ dropped' = Offered(Here, r).dropped
  BY DEF ReceiveNext, SealIdle, Becomes
<1>3. \/ accepted' = accepted + 1 /\ pending' = b /\ b # pending /\ ~(pending # -1 /\ b < pending)
      \/ accepted' = accepted /\ pending' = -1
  BY DEF ReceiveNext, SealIdle, Late
<1>4. /\ buffer' \in Seq(Record) /\ dropped' \in Nat /\ Len(buffer') <= QueueMax
      /\ Queued' = Queued + 1
      /\ Within(buffer') \subseteq Within(buffer) \cup {r}
  BY <1>1, <1>2, RecordsMade, OfferHere DEF Queue, Queued
<1>5. TypeOK'
  <2>1. accepted' \in Nat /\ coalesced' \in Nat /\ conn' \in Nat /\ sessions' \in Nat
    BY <1>1, <1>2, <1>3, Numbers
  <2>2. /\ pending' \in Buckets \cup {-1} /\ sealed' \in Buckets \cup {-1} /\ open' \in BOOLEAN
    BY <1>1, <1>2, <1>3 DEF TypeOK
  <2> QED
    BY <2>1, <2>2, <1>1, <1>2, <1>4, ReaderTypes
<1>6. Accounted'
  <2>1. \/ Made' = Made + 1 /\ Settled' = Settled + 0
        \/ Made' = Made + 0 /\ Settled' = Settled + (0 - 1)
    <3>1. \/ Made' = Made + 1 /\ Placing' = Placing
          \/ Made' = Made + 0 /\ Placing' = Placing - 1
      BY <1>1, <1>2, <1>3, Numbers, SMTT(30) DEF Made, Placing
    <3> QED
      BY <3>1, <1>1, <1>2, Numbers DEF Settled, Placing
  <2>2. Taken' = Taken + 0
    BY <1>1, <1>2, ReaderFrame, Numbers DEF Taken
  <2> QED
    BY <2>1, <2>2, <1>1, <1>4, <1>5, BooksBalance
<1>7. open' /\ (pending' # -1 => pending' > sealed') /\ sealed' >= sealed
  BY <1>1, <1>2, <1>3, Numbers
<1>8. \A q \in Within(buffer') : q \in Within(buffer) \/ Fits(q)'
  <2>1. \A q : q = Trace(pending) => q.kind = "trace" /\ q.conn = conn /\ q.at = pending
    BY DEF Trace
  <2>2. \A q : q = Trace(pending) => Fits(q)'
    BY <2>1, <1>1, <1>2, Numbers DEF Fits
  <2> QED
    BY <2>2, <1>4
<1>9. RowsInv' /\ SealedInv'
  BY <1>2, <1>4, <1>5, <1>7, <1>8, ReaderSeals
<1> QED
  BY <1>5, <1>6, <1>9 DEF Inv

LEMMA DisconnectKeeps == ASSUME Inv, Disconnect PROVE Inv'
<1> DEFINE t == Trace(pending)
           r == Session(conn, 1)
           flushed == IF pending = -1 THEN Here ELSE Offered(Here, t)
           extra == IF pending = -1 THEN 0 ELSE 1
<1>1. TypeOK /\ Accounted /\ (pending # -1 => pending > sealed)
  BY DEF Inv, SealedInv
<1>2. r \in Record /\ (pending # -1 => t \in Record)
  BY <1>1, Numbers, RecordsMade
<1>3. /\ flushed \in Queue /\ Len(flushed.buffer) <= QueueMax
      /\ Len(flushed.buffer) + flushed.dropped = Queued + extra
      /\ \A q \in Within(flushed.buffer) : q \in Within(buffer) \/ (pending # -1 /\ q = t)
  <2>1. CASE pending = -1
    <3>1. flushed \in Queue /\ flushed.buffer = buffer /\ flushed.dropped = dropped
      BY <2>1, <1>1, <1>2, OfferHere
    <3>2. Len(buffer) + dropped = Queued + extra
      BY <2>1, <1>1, Numbers DEF Queued
    <3> QED
      BY <3>1, <3>2, <1>1 DEF TypeOK
  <2>2. CASE pending # -1
    BY <2>2, <1>1, <1>2, OfferHere
  <2> QED
    BY <2>1, <2>2
<1>4. /\ ReaderKeeps /\ conn' = conn /\ open' = FALSE /\ pending' = -1
      /\ sealed' = (IF pending = -1 THEN sealed ELSE pending)
      /\ accepted' = accepted /\ coalesced' = coalesced /\ sessions' = sessions + 1
      /\ buffer' = Offered(flushed, r).buffer /\ dropped' = Offered(flushed, r).dropped
  BY DEF Disconnect, Becomes
<1> HIDE DEF flushed
<1>5. /\ buffer' \in Seq(Record) /\ dropped' \in Nat /\ Len(buffer') <= QueueMax
      /\ Len(buffer') + dropped' = Len(flushed.buffer) + flushed.dropped + 1
      /\ Within(buffer') \subseteq Within(flushed.buffer) \cup {r}
  BY <1>2, <1>3, <1>4, OfferedAccounts DEF Queue
<1>6. TypeOK'
  <2>1. accepted' \in Nat /\ coalesced' \in Nat /\ conn' \in Nat /\ sessions' \in Nat
    BY <1>1, <1>4, Numbers
  <2>2. /\ pending' \in Buckets \cup {-1} /\ sealed' \in Buckets \cup {-1} /\ open' \in BOOLEAN
    BY <1>1, <1>4 DEF TypeOK
  <2> QED
    BY <2>1, <2>2, <1>1, <1>4, <1>5, ReaderTypes
<1>7. Accounted'
  <2>1. Made' = Made + 1
    BY <1>1, <1>4, Numbers DEF Made
  <2>2. Settled' = Settled + (0 - extra)
    BY <1>1, <1>4, Numbers DEF Settled, Placing
  <2>3. Queued' = Queued + (extra + 1)
    <3>1. Queued' = Len(flushed.buffer) + flushed.dropped + 1
      BY <1>5 DEF Queued
    <3>2. Queued \in Int /\ extra \in Int
      BY <1>1, BooksAre
    <3> QED
      BY <3>1, <3>2, <1>3
  <2>4. Taken' = Taken + 0
    BY <1>1, <1>4, ReaderFrame, Numbers DEF Taken
  <2>5. extra \in Int /\ 1 = (0 - extra) + (extra + 1) + 0
    OBVIOUS
  <2> QED
    BY <2>1, <2>2, <2>3, <2>4, <2>5, <1>1, <1>6, BooksBalance
<1>8. sealed' >= sealed
  BY <1>1, <1>4, Numbers
<1>9. /\ \A q : q = r => Fits(q)'
      /\ \A q : pending # -1 /\ q = t => Fits(q)'
  <2>1. /\ \A q : q = r => q.kind = "session"
        /\ \A q : q = t => q.kind = "trace" /\ q.conn = conn /\ q.at = pending
    BY DEF Session, Trace
  <2> HIDE DEF r, t
  <2>2. pending # -1 => sealed' = pending
    BY <1>4
  <2> QED
    BY <2>1, <2>2, <1>1, <1>4, Numbers DEF Fits
<1>10. \A q \in Within(buffer') : q \in Within(buffer) \/ Fits(q)'
  BY <1>3, <1>5, <1>9
<1>11. RowsInv' /\ SealedInv'
  BY <1>4, <1>6, <1>8, <1>10, ReaderSeals
<1> QED
  BY <1>6, <1>7, <1>11 DEF Inv

----------------------------------------------------------------------------
(* The writer and close(). *)

LEMMA WriterTypes ==
  ASSUME TypeOK, UNCHANGED reader, dropped' \in Nat, persisted' \in Nat,
         buffer' \in Seq(Record), Len(buffer') <= QueueMax,
         batch' \in Seq(Record), Len(batch') <= BatchMax,
         group' \in {"trace", "session"}, rows' \subseteq 1..Len(batch'),
         pc' \in {"maintain", "idle", "suspended", "gather", "recheck", "writing", "closing", "done"},
         permitted' \in BOOLEAN, stop' \in BOOLEAN, accounted' \in BOOLEAN,
         closer' \in {"none", "waiting", "cancelling", "closed"}, stored' \subseteq Record
  PROVE  TypeOK'
BY DEF TypeOK, reader

\* A step of the writer moves records and loses none: what leaves the batch and is not
\* persisted is dropped, and nothing new appears.
LEMMA WriterMoves ==
  ASSUME Inv, UNCHANGED reader, TypeOK', RowsInv',
         NEW q \in Int, Queued' = Queued + q, Taken' = Taken + (0 - q),
         \A r \in Within(buffer') \cup Within(batch') \cup stored' :
            r \in Within(buffer) \cup Within(batch) \cup stored
  PROVE  Inv'
<1>1. TypeOK /\ Accounted /\ SealedInv
  BY DEF Inv
<1>2. /\ conn' = conn /\ open' = open /\ pending' = pending /\ sealed' = sealed
      /\ accepted' = accepted /\ sessions' = sessions /\ coalesced' = coalesced
  BY DEF reader
<1>3. Accounted'
  <2>1. Made \in Int /\ Settled \in Int
    BY <1>1, BooksAre
  <2>2. Made' = Made + 0 /\ Settled' = Settled + 0
    BY <1>2, <2>1 DEF Made, Settled, Placing
  <2>3. 0 - q \in Int /\ 0 = 0 + q + (0 - q)
    OBVIOUS
  <2> QED
    BY <2>2, <2>3, <1>1, BooksBalance
<1>4. \A r : Fits(r) => Fits(r)'
  BY <1>2 DEF Fits
<1>5. SealedInv'
  BY <1>1, <1>2, <1>4 DEF SealedInv
<1> QED
  BY <1>3, <1>5 DEF Inv

\* discard_all counts what it discards.
LEMMA DiscardCounts ==
  ASSUME TypeOK, UNCHANGED <<buffer, dropped>> \/ Discard
  PROVE  /\ buffer' \in Seq(Record) /\ Len(buffer') <= QueueMax /\ dropped' \in Nat
         /\ Queued' = Queued + 0 /\ \A r \in Within(buffer') : r \in Within(buffer)
<1>1. Len(buffer) \in Nat /\ dropped \in Nat /\ QueueMax \in Nat
  BY Limits DEF TypeOK
<1>2. CASE UNCHANGED <<buffer, dropped>>
  <2>1. Queued' = Queued
    BY <1>2 DEF Queued
  <2>2. Queued \in Int
    BY BooksAre
  <2> QED
    BY <2>1, <2>2, <1>2 DEF TypeOK, Within
<1>3. CASE Discard
  <2>1. buffer' = <<>> /\ dropped' = dropped + Len(buffer)
    BY <1>3 DEF Discard
  <2>2. Len(buffer') = 0
    BY <2>1
  <2>3. Queued' = Queued + 0
    BY <2>1, <2>2, <1>1 DEF Queued
  <2>4. Within(buffer') = {}
    BY <2>2 DEF Within
  <2> QED
    BY <2>1, <2>2, <2>3, <2>4, <1>1
<1> QED
  BY <1>2, <1>3

\* A step that leaves the batch alone, and the buffer too unless it discards it.
LEMMA QuietKeeps ==
  ASSUME Inv, UNCHANGED <<reader, persisted, batch, group, rows, stored>>,
         UNCHANGED <<buffer, dropped>> \/ Discard,
         pc' = pc \/ pc # "writing",
         pc' \in {"maintain", "idle", "suspended", "gather", "recheck", "writing", "closing", "done"},
         permitted' \in BOOLEAN, stop' \in BOOLEAN, accounted' \in BOOLEAN,
         closer' \in {"none", "waiting", "cancelling", "closed"}
  PROVE  Inv'
<1>1. TypeOK /\ RowsInv
  BY DEF Inv
<1>2. /\ buffer' \in Seq(Record) /\ Len(buffer') <= QueueMax /\ dropped' \in Nat
      /\ Queued' = Queued + 0 /\ \A r \in Within(buffer') : r \in Within(buffer)
  BY <1>1, DiscardCounts
<1>3. /\ UNCHANGED reader /\ persisted' = persisted /\ batch' = batch /\ group' = group
      /\ rows' = rows /\ stored' = stored /\ Len(batch') = Len(batch)
  OBVIOUS
<1>4. TypeOK'
  <2>1. /\ persisted' \in Nat /\ batch' \in Seq(Record) /\ Len(batch') <= BatchMax
        /\ group' \in {"trace", "session"} /\ rows' \subseteq 1..Len(batch') /\ stored' \subseteq Record
    BY <1>1, <1>3 DEF TypeOK
  <2> QED
    BY <2>1, <1>1, <1>2, <1>3, WriterTypes
<1>5. RowsInv'
  BY <1>1, <1>3 DEF RowsInv
<1>6. Taken' = Taken + (0 - 0)
  <2>1. Taken' = Taken /\ Taken \in Int
    BY <1>1, <1>3, BooksAre DEF Taken
  <2> QED
    BY <2>1
<1>7. Within(batch') = Within(batch)
  BY <1>3 DEF Within
<1> QED
  BY <1>2, <1>3, <1>4, <1>5, <1>6, <1>7, WriterMoves

LEMMA MaintainKeeps == ASSUME Inv, NEW allowed \in BOOLEAN, Maintain(allowed) PROVE Inv'
<1>1. UNCHANGED <<buffer, dropped>> \/ Discard
  BY DEF Maintain
<1>2. UNCHANGED <<reader, persisted, batch, group, rows, stored>> /\ UNCHANGED ending
  BY DEF Maintain, WriterKeeps
<1>3. pc # "writing" /\ permitted' \in BOOLEAN /\ pc' \in {"closing", "idle", "suspended"}
  BY DEF Maintain, Resume
<1> QED
  BY <1>1, <1>2, <1>3, QuietKeeps DEF Inv, TypeOK, ending

LEMMA WaitKeeps == ASSUME Inv, Wait PROVE Inv'
<1>1. Discard /\ pc # "writing" /\ permitted' = permitted
  BY DEF Wait
<1>2. UNCHANGED <<reader, persisted, batch, group, rows, stored>> /\ UNCHANGED ending
  BY DEF Wait, WriterKeeps
<1>3. pc' \in {"maintain", "closing", "idle", "suspended"}
  BY DEF Wait, Resume
<1> QED
  BY <1>1, <1>2, <1>3, QuietKeeps DEF Inv, TypeOK, ending

LEMMA GatheredKeeps == ASSUME Inv, Gathered PROVE Inv'
<1>1. pc # "writing" /\ permitted' = permitted /\ UNCHANGED <<buffer, dropped>>
  BY DEF Gathered, totals
<1>2. UNCHANGED <<reader, persisted, batch, group, rows, stored>> /\ UNCHANGED ending
  BY DEF Gathered, WriterKeeps, totals
<1>3. pc' \in {"recheck", "writing"}
  BY DEF Gathered
<1> QED
  BY <1>1, <1>2, <1>3, QuietKeeps DEF Inv, TypeOK, ending

LEMMA CloserKeeps == ASSUME Inv, WriterEnds \/ Closer PROVE Inv'
<1>1. UNCHANGED <<buffer, dropped>> \/ Discard
  BY DEF WriterEnds, Closer, Stop, TimesOut, Closes, DiscardOnce, totals
<1>2. UNCHANGED <<reader, persisted, batch, group, rows, stored>>
  BY DEF WriterEnds, Closer, Stop, TimesOut, Closes, totals, writer
<1>3. /\ pc' = pc \/ (pc # "writing" /\ pc' = "done")
      /\ permitted' = permitted /\ (stop' = stop \/ stop' = TRUE)
      /\ accounted' = accounted \/ accounted' = TRUE
      /\ closer' = closer \/ closer' \in {"waiting", "cancelling", "closed"}
  BY DEF WriterEnds, Closer, Stop, TimesOut, Closes, DiscardOnce, writer
<1>4. /\ permitted' \in BOOLEAN /\ stop' \in BOOLEAN /\ accounted' \in BOOLEAN
      /\ pc' \in {"maintain", "idle", "suspended", "gather", "recheck", "writing", "closing", "done"}
      /\ closer' \in {"none", "waiting", "cancelling", "closed"}
  BY <1>3 DEF Inv, TypeOK
<1> QED
  BY <1>1, <1>2, <1>3, <1>4, QuietKeeps

LEMMA TakeKeeps == ASSUME Inv, Take PROVE Inv'
<1>1. TypeOK /\ RowsInv
  BY DEF Inv
<1>2. /\ UNCHANGED reader /\ UNCHANGED ending /\ pc # "writing" /\ pc' = "gather"
      /\ dropped' = dropped /\ persisted' = persisted /\ group' = group /\ rows' = rows
      /\ permitted' = permitted /\ stored' = stored
  BY DEF Take, WriterKeeps, totals
<1>3. /\ buffer \in Seq(Record) /\ batch \in Seq(Record) /\ Len(batch) <= BatchMax
      /\ Len(buffer) <= QueueMax /\ Drained > 0
      /\ batch' = batch \o SubSeq(buffer, 1, Drained)
      /\ buffer' = SubSeq(buffer, 1 + Drained, Len(buffer))
  BY <1>1 DEF Take, TypeOK
<1>4. /\ buffer' \in Seq(Record) /\ batch' \in Seq(Record)
      /\ Len(buffer') + Len(batch') = Len(buffer) + Len(batch)
      /\ Len(buffer') <= Len(buffer) /\ Len(batch') <= BatchMax
      /\ Within(buffer') \cup Within(batch') \subseteq Within(buffer) \cup Within(batch)
  BY <1>3, DrainMoves
<1>5. rows' = {}
  BY <1>1, <1>2 DEF RowsInv
<1>6. TypeOK'
  <2>1. Len(buffer') <= QueueMax
    <3>1. Len(buffer') \in Nat /\ Len(buffer) \in Nat /\ QueueMax \in Nat
      BY <1>3, <1>4, Limits, SMTT(30)
    <3> QED
      BY <3>1, <1>3, <1>4
  <2>2. /\ dropped' \in Nat /\ persisted' \in Nat /\ group' \in {"trace", "session"}
        /\ permitted' \in BOOLEAN /\ stop' \in BOOLEAN /\ accounted' \in BOOLEAN
        /\ closer' \in {"none", "waiting", "cancelling", "closed"} /\ stored' \subseteq Record
    BY <1>1, <1>2 DEF TypeOK, ending
  <2> QED
    BY <2>1, <2>2, <1>1, <1>2, <1>4, <1>5, WriterTypes
<1>7. RowsInv'
  BY <1>5 DEF RowsInv
<1> DEFINE q == Len(buffer') - Len(buffer)
<1>8. q \in Int /\ Queued' = Queued + q /\ Taken' = Taken + (0 - q)
  <2>1. /\ Len(buffer') \in Int /\ Len(buffer) \in Int /\ Len(batch') \in Int /\ Len(batch) \in Int
        /\ dropped \in Int /\ persisted \in Int
    <3>1. Len(buffer') \in Nat /\ Len(batch') \in Nat /\ Len(buffer) \in Nat /\ Len(batch) \in Nat
      BY <1>3, <1>4, SMTT(30)
    <3>2. dropped \in Nat /\ persisted \in Nat
      BY <1>1 DEF TypeOK
    <3> QED
      BY <3>1, <3>2
  <2>2. Queued' = Len(buffer') + dropped /\ Taken' = Len(batch') + persisted
    BY <1>2 DEF Queued, Taken
  <2>3. Len(batch') = Len(batch) + (0 - q)
    BY <2>1, <1>4
  <2> QED
    BY <2>1, <2>2, <2>3 DEF Queued, Taken
<1> HIDE DEF q
<1> QED
  BY <1>2, <1>4, <1>6, <1>7, <1>8, WriterMoves

LEMMA RecheckKeeps == ASSUME Inv, NEW allowed \in BOOLEAN, Recheck(allowed) PROVE Inv'
<1>1. TypeOK /\ rows = {}
  BY DEF Inv, RowsInv, Recheck
<1>2. /\ UNCHANGED reader /\ UNCHANGED ending /\ persisted' = persisted /\ group' = group
      /\ rows' = rows /\ stored' = stored /\ permitted' = allowed
  BY DEF Recheck, WriterKeeps
<1>3. CASE allowed
  <2>1. pc' = "writing" /\ UNCHANGED <<buffer, dropped, batch>>
    BY <1>3 DEF Recheck
  <2>2. pc # "writing"
    BY DEF Recheck
  <2> QED
    BY <2>1, <2>2, <1>2, <1>1, QuietKeeps DEF TypeOK, ending
<1>4. CASE ~allowed
  <2>1. /\ buffer' = <<>> /\ dropped' = dropped + Len(buffer) + Len(batch) /\ batch' = <<>>
        /\ pc' \in {"closing", "suspended"}
    BY <1>4 DEF Recheck, Resume
  <2>2. Len(buffer') = 0 /\ Len(batch') = 0 /\ buffer' \in Seq(Record) /\ batch' \in Seq(Record)
    BY <2>1
  <2>3. /\ Len(buffer) \in Nat /\ Len(batch) \in Nat /\ dropped \in Nat /\ persisted \in Nat
        /\ QueueMax \in Nat /\ BatchMax \in Nat
    BY <1>1, Numbers, Limits
  <2>4. TypeOK'
    <3>1. dropped' \in Nat /\ Len(buffer') <= QueueMax /\ Len(batch') <= BatchMax
      BY <2>1, <2>2, <2>3
    <3>2. /\ persisted' \in Nat /\ group' \in {"trace", "session"} /\ rows' \subseteq 1..Len(batch')
          /\ permitted' \in BOOLEAN /\ stop' \in BOOLEAN /\ accounted' \in BOOLEAN
          /\ closer' \in {"none", "waiting", "cancelling", "closed"} /\ stored' \subseteq Record
      BY <1>1, <1>2 DEF TypeOK, ending
    <3> QED
      BY <3>1, <3>2, <2>1, <2>2, <1>1, <1>2, WriterTypes
  <2>5. RowsInv'
    BY <1>1, <1>2 DEF RowsInv
  <2> DEFINE q == Len(batch)
  <2>6. q \in Int /\ Queued' = Queued + q /\ Taken' = Taken + (0 - q)
    BY <2>1, <2>2, <2>3, <1>2 DEF Queued, Taken
  <2>7. Within(buffer') = {} /\ Within(batch') = {}
    BY <2>2 DEF Within
  <2> HIDE DEF q
  <2> QED
    BY <2>4, <2>5, <2>6, <2>7, <1>2, WriterMoves
<1> QED
  BY <1>3, <1>4

LEMMA WriteTracesKeeps ==
  ASSUME Inv, NEW effect \in BOOLEAN, NEW ok \in BOOLEAN, WriteTraces(effect, ok)
  PROVE  Inv'
<1>1. TypeOK
  BY DEF Inv
<1>2. /\ UNCHANGED reader /\ UNCHANGED ending /\ dropped' = dropped /\ persisted' = persisted
      /\ buffer' = buffer /\ batch' = batch /\ Len(batch') = Len(batch) /\ permitted' = permitted
      /\ pc' = pc /\ pc = "writing"
      /\ group' = "session" /\ rows' = Reported(ok) /\ stored' = Copied(effect)
  BY DEF WriteTraces, WriterKeeps, totals
<1>3. TypeOK'
  <2>1. rows' \subseteq 1..Len(batch')
    BY <1>1, <1>2, GroupIsRows
  <2>2. stored' \subseteq Record
    BY <1>1, <1>2, CopiedFromBatch
  <2>3. /\ dropped' \in Nat /\ persisted' \in Nat /\ buffer' \in Seq(Record) /\ Len(buffer') <= QueueMax
        /\ batch' \in Seq(Record) /\ Len(batch') <= BatchMax
        /\ permitted' \in BOOLEAN /\ stop' \in BOOLEAN /\ accounted' \in BOOLEAN
        /\ closer' \in {"none", "waiting", "cancelling", "closed"}
    BY <1>1, <1>2 DEF TypeOK, ending
  <2> QED
    BY <2>1, <2>2, <2>3, <1>1, <1>2, WriterTypes
<1>4. RowsInv'
  BY <1>2 DEF RowsInv
<1>5. Queued' = Queued + 0 /\ Taken' = Taken + (0 - 0)
  <2>1. Queued' = Queued /\ Taken' = Taken
    BY <1>2 DEF Queued, Taken
  <2>2. Queued \in Int /\ Taken \in Int
    BY <1>1, BooksAre
  <2> QED
    BY <2>1, <2>2
<1>6. Within(buffer') = Within(buffer) /\ Within(batch') = Within(batch)
  BY <1>2 DEF Within
<1>7. stored' \subseteq stored \cup Within(batch)
  BY <1>1, <1>2, CopiedFromBatch
<1> QED
  BY <1>2, <1>3, <1>4, <1>5, <1>6, <1>7, WriterMoves

\* A batch is settled: the rows reported are persisted, the rest is dropped.
LEMMA SettleKeeps ==
  ASSUME Inv, NEW written \in SUBSET (1..Len(batch)), Settle(written),
         UNCHANGED reader, UNCHANGED ending, buffer' = buffer, permitted' = permitted,
         pc' \in {"maintain", "idle", "suspended", "closing"},
         NEW effect \in BOOLEAN, stored' = Copied(effect)
  PROVE  Inv'
<1> DEFINE c == Cardinality(written)
<1>1. TypeOK
  BY DEF Inv
<1>2. c \in Nat /\ c <= Len(batch)
  BY <1>1, RowsCounted DEF TypeOK
<1>3. /\ persisted' = persisted + c /\ dropped' = dropped + Len(batch) - c
      /\ batch' = <<>> /\ rows' = {} /\ group' = "trace"
  BY DEF Settle
<1> HIDE DEF c
<1>4. Len(batch') = 0 /\ batch' \in Seq(Record)
  BY <1>3
<1>5. /\ Len(buffer) \in Nat /\ Len(batch) \in Nat /\ dropped \in Nat /\ persisted \in Nat
      /\ BatchMax \in Nat
  BY <1>1, Numbers, Limits
<1>6. TypeOK'
  <2>1. dropped' \in Nat /\ persisted' \in Nat /\ Len(batch') <= BatchMax
    BY <1>2, <1>3, <1>4, <1>5
  <2>2. stored' \subseteq Record
    BY <1>1, CopiedFromBatch
  <2>3. /\ buffer' \in Seq(Record) /\ Len(buffer') <= QueueMax /\ rows' \subseteq 1..Len(batch')
        /\ permitted' \in BOOLEAN /\ stop' \in BOOLEAN /\ accounted' \in BOOLEAN
        /\ closer' \in {"none", "waiting", "cancelling", "closed"} /\ group' \in {"trace", "session"}
    BY <1>1, <1>3 DEF TypeOK, ending
  <2> QED
    BY <2>1, <2>2, <2>3, <1>1, <1>4, WriterTypes
<1>7. RowsInv'
  BY <1>3 DEF RowsInv
<1> DEFINE q == Len(batch) - c
<1>8. q \in Int /\ Queued' = Queued + q /\ Taken' = Taken + (0 - q)
  <2>1. Queued' = Len(buffer) + (dropped + Len(batch) - c) /\ Taken' = 0 + (persisted + c)
    BY <1>3, <1>4 DEF Queued, Taken
  <2> QED
    BY <2>1, <1>2, <1>5 DEF Queued, Taken
<1>9. Within(buffer') = Within(buffer) /\ Within(batch') = {}
  BY <1>4 DEF Within
<1>10. stored' \subseteq stored \cup Within(batch)
  BY <1>1, CopiedFromBatch
<1> HIDE DEF q
<1> QED
  BY <1>6, <1>7, <1>8, <1>9, <1>10, WriterMoves

LEMMA WriteSessionsKeeps ==
  ASSUME Inv, NEW effect \in BOOLEAN, NEW ok \in BOOLEAN, WriteSessions(effect, ok)
  PROVE  Inv'
<1>1. /\ Settle(Reported(ok)) /\ UNCHANGED reader /\ UNCHANGED ending /\ buffer' = buffer
      /\ permitted' = permitted /\ stored' = Copied(effect)
  BY DEF WriteSessions, WriterKeeps
<1>2. pc' \in {"maintain", "idle", "suspended", "closing"}
  BY DEF WriteSessions, Resume
<1>3. Reported(ok) \in SUBSET (1..Len(batch))
  BY GroupIsRows DEF Inv
<1> QED
  BY <1>1, <1>2, <1>3, SettleKeeps

LEMMA CancelledKeeps == ASSUME Inv, Cancelled PROVE Inv'
<1>1. /\ Settle(rows) /\ UNCHANGED reader /\ UNCHANGED ending /\ buffer' = buffer
      /\ permitted' = permitted /\ pc' = "closing"
  BY DEF Cancelled, WriterKeeps
<1>2. PICK effect \in BOOLEAN : stored' = Copied(effect /\ pc = "writing")
  BY DEF Cancelled
<1>3. (effect /\ pc = "writing") \in BOOLEAN
  BY Zenon
<1>4. rows \in SUBSET (1..Len(batch))
  BY DEF Inv, TypeOK
<1> QED
  BY <1>1, <1>2, <1>3, <1>4, SettleKeeps
----------------------------------------------------------------------------
(* The theorems. *)

LEMMA StutterKeeps == ASSUME Inv, UNCHANGED vars PROVE Inv'
BY DEF Inv, TypeOK, Accounted, RowsInv, SealedInv, Within, Fits, vars, reader, totals, writer, ending

LEMMA NextKeeps == ASSUME Inv, [Next]_vars PROVE Inv'
<1>1. CASE Reader
  <2>1. CASE Connect
    BY <2>1, ConnectKeeps
  <2>2. CASE SealIdle
    <3>1. PICK b \in Buckets : TRUE
      BY <2>2 DEF SealIdle, Inv, TypeOK
    <3> QED
      BY <3>1, <2>2, SealKeeps
  <2>3. CASE Disconnect
    BY <2>3, DisconnectKeeps
  <2>4. ASSUME NEW b \in Buckets, ReceiveLate(b) \/ ReceiveFirst(b) \/ ReceiveSame(b) PROVE Inv'
    BY <2>4, ReceiveKeeps
  <2>5. ASSUME NEW b \in Buckets, ReceiveNext(b) PROVE Inv'
    BY <2>5, SealKeeps
  <2> QED
    BY <1>1, <2>1, <2>2, <2>3, <2>4, <2>5 DEF Reader
<1>2. CASE Writer
  <2>1. ASSUME NEW allowed \in BOOLEAN, Maintain(allowed) \/ Recheck(allowed) PROVE Inv'
    BY <2>1, MaintainKeeps, RecheckKeeps
  <2>2. CASE Wait \/ Take \/ Gathered
    BY <2>2, WaitKeeps, TakeKeeps, GatheredKeeps
  <2>3. CASE Write
    BY <2>3, WriteTracesKeeps, WriteSessionsKeeps DEF Write
  <2>4. CASE WriterEnds \/ Cancelled
    BY <2>4, CloserKeeps, CancelledKeeps
  <2> QED
    BY <1>2, <2>1, <2>2, <2>3, <2>4 DEF Writer
<1>3. CASE Closer
  BY <1>3, CloserKeeps
<1>4. CASE UNCHANGED vars
  BY <1>4, StutterKeeps
<1> QED
  BY <1>1, <1>2, <1>3, <1>4 DEF Next

\* The inductive invariant holds of every behaviour of the reader, the writer and close().
THEOREM Invariance == Spec => []Inv
<1>1. Init => Inv
  BY InitInv
<1>2. Inv /\ [Next]_vars => Inv'
  BY NextKeeps
<1> QED
  BY <1>1, <1>2, PTL DEF Spec

\* The types, and the limits of the queue and the batch, for any queue_max_events and
\* batch_max_rows.
THEOREM TypeCorrect == Spec => []TypeOK
<1>1. Inv => TypeOK
  BY DEF Inv
<1> QED
  BY <1>1, Invariance, PTL

\* No trade and no session record is ever lost from the counters of CaptureCounters or counted
\* twice, whatever fails, overflows, is suspended or is cancelled.
THEOREM NothingUncounted == Spec => []Accounted
<1>1. Inv => Accounted
  BY DEF Inv
<1> QED
  BY <1>1, Invariance, PTL

LEMMA PendingIsNew ==
  ASSUME Inv
  PROVE  [(open /\ pending # -1 /\ pending' # pending) => Trace(pending) \notin Held]_vars
<1>1. SUFFICES ASSUME pending # -1 PROVE Trace(pending) \notin Held
  OBVIOUS
<1>2. Held = Within(buffer) \cup Within(batch) \cup stored
  BY DEF Held, Within
<1>3. \A q : q = Trace(pending) => q.kind = "trace" /\ q.conn = conn /\ q.at = pending
  BY DEF Trace
<1>4. pending > sealed /\ pending \in Int /\ sealed \in Int /\ conn \in Nat
  BY <1>1, Numbers DEF Inv, SealedInv
<1>5. \A q : q = Trace(pending) => ~Fits(q)
  BY <1>3, <1>4 DEF Fits
<1> QED
  BY <1>2, <1>5 DEF Inv, SealedInv

\* The coalescer never makes a second trace for a bucket of a connection, although the wall
\* clock may step back at any message.
THEOREM TracesAreUnique == Spec => OneTracePerBucket
<1>1. Inv => [(open /\ pending # -1 /\ pending' # pending) => Trace(pending) \notin Held]_vars
  BY PendingIsNew
<1> QED
  BY <1>1, Invariance, PTL DEF OneTracePerBucket

----------------------------------------------------------------------------
(* Storage is permitted wherever something may be written. *)

PermittedInv == pc \in {"idle", "gather", "recheck", "writing"} => permitted

\* Only a step of the writer that may resume, write or recheck disturbs it.
LEMMA PermittedKeeps == ASSUME PermittedInv, [Next]_vars PROVE PermittedInv'
<1>1. CASE Reader
  <2>1. ReaderKeeps
    BY <1>1 DEF Reader, Connect, SealIdle, Disconnect, ReceiveLate, ReceiveFirst, ReceiveSame, ReceiveNext
  <2> QED
    BY <2>1, ReaderFrame DEF PermittedInv
<1>2. ASSUME NEW allowed \in BOOLEAN, Maintain(allowed) \/ Recheck(allowed) PROVE PermittedInv'
  BY <1>2 DEF Maintain, Recheck, Resume, PermittedInv
<1>3. CASE Wait
  BY <1>3 DEF Wait, Resume, PermittedInv
<1>4. CASE Take \/ Gathered
  BY <1>4 DEF Take, Gathered, PermittedInv
<1>5. ASSUME NEW effect \in BOOLEAN, NEW ok \in BOOLEAN,
             WriteTraces(effect, ok) \/ WriteSessions(effect, ok)
      PROVE  PermittedInv'
  BY <1>5 DEF WriteTraces, WriteSessions, Resume, PermittedInv
<1>6. CASE WriterEnds \/ Cancelled
  BY <1>6 DEF WriterEnds, Cancelled, PermittedInv
<1>7. CASE Closer
  BY <1>7 DEF Closer, Stop, TimesOut, Closes, writer, PermittedInv
<1>8. CASE UNCHANGED vars
  BY <1>8 DEF vars, writer, PermittedInv
<1> QED
  BY <1>1, <1>2, <1>3, <1>4, <1>5, <1>6, <1>7, <1>8 DEF Next, Writer, Write

\* What changes in PostgreSQL changes while a batch is being written.
LEMMA OnlyWritingStores ==
  ASSUME [Next]_vars, stored' # stored
  PROVE  pc = "writing"
<1>1. CASE Reader
  <2>1. ReaderKeeps
    BY <1>1 DEF Reader, Connect, SealIdle, Disconnect, ReceiveLate, ReceiveFirst, ReceiveSame, ReceiveNext
  <2> QED
    BY <2>1, ReaderFrame
<1>2. ASSUME NEW allowed \in BOOLEAN, Maintain(allowed) \/ Recheck(allowed) PROVE FALSE
  BY <1>2 DEF Maintain, Recheck
<1>3. CASE Wait \/ Take \/ Gathered \/ WriterEnds
  BY <1>3 DEF Wait, Take, Gathered, WriterEnds
<1>4. CASE Write
  BY <1>4 DEF Write, WriteTraces, WriteSessions
<1>5. CASE Cancelled
  BY <1>5 DEF Cancelled, Copied
<1>6. CASE Closer
  BY <1>6 DEF Closer, Stop, TimesOut, Closes, writer
<1>7. CASE UNCHANGED vars
  BY <1>7 DEF vars, writer
<1> QED
  BY <1>1, <1>2, <1>3, <1>4, <1>5, <1>6, <1>7 DEF Next, Writer

\* From the moment maintenance suspends storage to the moment it permits it again, no record
\* takes effect: not even the batch the writer had in hand, nor a group that is cancelled.
THEOREM SuspensionIsObeyed == Spec => SuspendedStoresNothing
<1>1. Init => PermittedInv
  BY DEF Init, PermittedInv
<1>2. PermittedInv /\ [Next]_vars => PermittedInv'
  BY PermittedKeeps
<1>3. PermittedInv /\ [Next]_vars => [stored' # stored => permitted]_vars
  BY OnlyWritingStores DEF PermittedInv
<1> QED
  BY <1>1, <1>2, <1>3, PTL DEF Spec, SuspendedStoresNothing
----------------------------------------------------------------------------
(* No record is made, carried or stored twice. *)

Distinct(seq) == \A i, j \in 1..Len(seq) : seq[i] = seq[j] => i = j

\* What waits in the buffer is nowhere else; what is in the batch is stored only as a trace
\* whose group has just been written.
ApartInv  == \A r \in Within(buffer) : r \notin Within(batch) /\ r \notin stored
StoredInv == \A i \in 1..Len(batch) : batch[i] \in stored => batch[i].kind = "trace" /\ group = "session"

\* A session record is of a connection that was opened, and its end of one that was closed.
Opened(r) == r.kind = "session" => r.conn <= conn /\ (r.at = 1 => r.conn < conn \/ ~open)
OpenedInv == \A r \in Within(buffer) \cup Within(batch) \cup stored : Opened(r)

\* Rows are reported while the sessions of a batch are still to be written, and are its traces.
GroupInv ==
  /\ pc # "writing" => group = "trace"
  /\ \A i \in rows : batch[i].kind = "trace" /\ group = "session"

OnceInv == Distinct(buffer) /\ Distinct(batch) /\ ApartInv /\ StoredInv /\ OpenedInv /\ GroupInv

\* A record that is not in the queue yet may be offered to it.
LEMMA OfferedDistinct ==
  ASSUME NEW state \in Queue, Len(state.buffer) <= QueueMax, NEW r \in Record,
         Distinct(state.buffer), r \notin Within(state.buffer)
  PROVE  Distinct(Offered(state, r).buffer)
<1> DEFINE items == state.buffer
<1>1. items \in Seq(Record) /\ Len(items) \in Nat
  BY DEF Queue
<1>2. QueueMax \in Nat /\ QueueMax > 0
  BY Limits
<1>3. \A i \in 1..Len(items) : items[i] # r
  BY DEF Within
<1>4. CASE stop \/ ~permitted
  BY <1>4 DEF Offered
<1>5. CASE ~(stop \/ ~permitted) /\ Len(items) = QueueMax
  <2>1. Offered(state, r).buffer = Append(Tail(items), r)
    BY <1>5 DEF Offered
  <2>2. Len(Append(Tail(items), r)) = Len(items)
    BY <1>1, <1>2, <1>5
  <2>3. \A i \in 1..Len(items) :
          Append(Tail(items), r)[i] = IF i <= Len(items) - 1 THEN items[i + 1] ELSE r
    BY <1>1, <1>2, <1>5
  <2>4. ASSUME NEW i \in 1..Len(items), NEW j \in 1..Len(items),
               Append(Tail(items), r)[i] = Append(Tail(items), r)[j]
        PROVE  i = j
    <3>1. CASE i <= Len(items) - 1 /\ j <= Len(items) - 1
      <4>1. i + 1 \in 1..Len(items) /\ j + 1 \in 1..Len(items) /\ items[i + 1] = items[j + 1]
        BY <3>1, <2>3, <2>4, <1>1
      <4> QED
        BY <4>1 DEF Distinct
    <3>2. CASE ~(i <= Len(items) - 1) /\ ~(j <= Len(items) - 1)
      BY <3>2, <1>1
    <3>3. CASE i <= Len(items) - 1 /\ ~(j <= Len(items) - 1)
      <4>1. i + 1 \in 1..Len(items) /\ items[i + 1] = r
        BY <3>3, <2>3, <2>4, <1>1
      <4> QED
        BY <4>1, <1>3
    <3>4. CASE ~(i <= Len(items) - 1) /\ j <= Len(items) - 1
      <4>1. j + 1 \in 1..Len(items) /\ items[j + 1] = r
        BY <3>4, <2>3, <2>4, <1>1
      <4> QED
        BY <4>1, <1>3
    <3> QED
      BY <3>1, <3>2, <3>3, <3>4
  <2> QED
    BY <2>1, <2>2, <2>4 DEF Distinct
<1>6. CASE ~(stop \/ ~permitted) /\ Len(items) # QueueMax
  <2>1. Offered(state, r).buffer = Append(items, r)
    BY <1>6 DEF Offered
  <2>2. /\ Len(Append(items, r)) = Len(items) + 1
        /\ \A i \in 1..(Len(items) + 1) :
             Append(items, r)[i] = IF i <= Len(items) THEN items[i] ELSE r
    BY <1>1
  <2>3. ASSUME NEW i \in 1..(Len(items) + 1), NEW j \in 1..(Len(items) + 1),
               Append(items, r)[i] = Append(items, r)[j]
        PROVE  i = j
    <3>1. CASE i <= Len(items) /\ j <= Len(items)
      <4>1. i \in 1..Len(items) /\ j \in 1..Len(items) /\ items[i] = items[j]
        BY <3>1, <2>2, <2>3, <1>1
      <4> QED
        BY <4>1 DEF Distinct
    <3>2. CASE ~(i <= Len(items)) /\ ~(j <= Len(items))
      BY <3>2, <1>1
    <3>3. CASE i <= Len(items) /\ ~(j <= Len(items))
      BY <3>3, <2>2, <2>3, <1>1, <1>3
    <3>4. CASE ~(i <= Len(items)) /\ j <= Len(items)
      BY <3>4, <2>2, <2>3, <1>1, <1>3
    <3> QED
      BY <3>1, <3>2, <3>3, <3>4
  <2> QED
    BY <2>1, <2>2, <2>3 DEF Distinct
<1> QED
  BY <1>4, <1>5, <1>6

\* The reader only adds to the buffer, and only what is new.
LEMMA ReaderOnce ==
  ASSUME TypeOK, OnceInv, ReaderKeeps, Distinct(buffer'),
         \A q \in Within(buffer') :
            q \in Within(buffer) \/ (q \notin Held /\ Opened(q)'),
         conn' \in Nat, conn' >= conn, conn' = conn => (open' => open)
  PROVE  OnceInv'
<1>1. /\ batch' = batch /\ Len(batch') = Len(batch) /\ Within(batch') = Within(batch)
      /\ stored' = stored /\ rows' = rows /\ pc' = pc /\ group' = group
  BY ReaderFrame DEF Within
<1>2. Distinct(batch') /\ StoredInv' /\ GroupInv'
  BY <1>1 DEF OnceInv, Distinct, StoredInv, GroupInv
<1>3. Held = Within(buffer) \cup Within(batch) \cup stored
  BY DEF Held, Within
<1>4. ApartInv'
  BY <1>1, <1>3 DEF OnceInv, ApartInv
<1>5. ASSUME NEW q \in Within(buffer) \cup Within(batch) \cup stored
      PROVE  Opened(q)'
  <2>1. q \in Record /\ Opened(q)
    BY DEF OnceInv, OpenedInv, TypeOK, Within
  <2>2. SUFFICES ASSUME q.kind = "session"
                 PROVE  q.conn <= conn' /\ (q.at = 1 => q.conn < conn' \/ ~open')
    BY DEF Opened
  <2>3. q.conn \in Nat /\ conn \in Nat
    BY <2>1, <2>2, Numbers DEF Record
  <2> QED
    BY <2>1, <2>2, <2>3 DEF Opened
<1>6. OpenedInv'
  BY <1>1, <1>5 DEF OpenedInv
<1> QED
  BY <1>2, <1>4, <1>6 DEF OnceInv

\* The records the reader may make are nowhere yet.
LEMMA NewRecords ==
  ASSUME Inv, OnceInv
  PROVE  /\ pending # -1 => Trace(pending) \notin Held
         /\ Session(conn + 1, 0) \notin Held
         /\ open => Session(conn, 1) \notin Held
<1>1. Held = Within(buffer) \cup Within(batch) \cup stored
  BY DEF Held, Within
<1>2. conn \in Nat
  BY DEF Inv, TypeOK
<1>3. ASSUME pending # -1 PROVE Trace(pending) \notin Held
  <2>1. \A q : q = Trace(pending) => q.kind = "trace" /\ q.conn = conn /\ q.at = pending
    BY DEF Trace
  <2>2. pending > sealed /\ pending \in Int /\ sealed \in Int
    BY <1>3, Numbers DEF Inv, SealedInv
  <2>3. \A q : q = Trace(pending) => ~Fits(q)
    BY <2>1, <2>2, <1>2 DEF Fits
  <2> QED
    BY <2>3, <1>1 DEF Inv, SealedInv
<1>4. Session(conn + 1, 0) \notin Held
  <2>1. \A q : q = Session(conn + 1, 0) => q.kind = "session" /\ q.conn = conn + 1
    BY DEF Session
  <2>2. \A q : q = Session(conn + 1, 0) => ~Opened(q)
    BY <2>1, <1>2 DEF Opened
  <2> QED
    BY <2>2, <1>1 DEF OnceInv, OpenedInv
<1>5. ASSUME open PROVE Session(conn, 1) \notin Held
  <2>1. \A q : q = Session(conn, 1) => q.kind = "session" /\ q.conn = conn /\ q.at = 1
    BY DEF Session
  <2>2. \A q : q = Session(conn, 1) => ~Opened(q)
    BY <2>1, <1>2, <1>5 DEF Opened
  <2> QED
    BY <2>2, <1>1 DEF OnceInv, OpenedInv
<1> QED
  BY <1>3, <1>4, <1>5

\* A record offered to the buffer as it stands.
LEMMA OfferOnce ==
  ASSUME TypeOK, OnceInv, NEW r \in Record, r \notin Held,
         buffer' = Offered(Here, r).buffer
  PROVE  /\ Distinct(buffer')
         /\ \A q \in Within(buffer') : q \in Within(buffer) \/ q = r
<1>1. Here \in Queue /\ Here.buffer = buffer /\ Len(buffer) <= QueueMax
  BY OfferHere DEF TypeOK
<1>2. r \notin Within(buffer)
  BY DEF Held, Within
<1> QED
  BY <1>1, <1>2, OfferedDistinct, OfferHere DEF OnceInv

LEMMA ConnectOnce == ASSUME Inv, OnceInv, Connect PROVE OnceInv'
<1> DEFINE r == Session(conn + 1, 0)
<1>1. TypeOK /\ conn \in Nat
  BY DEF Inv, TypeOK
<1>2. ReaderKeeps /\ conn' = conn + 1 /\ buffer' = Offered(Here, r).buffer
  BY DEF Connect, Becomes
<1>3. r \in Record /\ r \notin Held
  BY <1>1, RecordsMade, NewRecords
<1>4. /\ Distinct(buffer')
      /\ \A q \in Within(buffer') : q \in Within(buffer) \/ q = r
  BY <1>1, <1>2, <1>3, OfferOnce
<1>5. \A q : q = r => Opened(q)'
  <2>1. \A q : q = r => q.kind = "session" /\ q.conn = conn + 1 /\ q.at = 0
    BY DEF Session
  <2> QED
    BY <2>1, <1>1, <1>2 DEF Opened
<1> HIDE DEF r
<1> QED
  BY <1>1, <1>2, <1>3, <1>4, <1>5, ReaderOnce

LEMMA ReceiveOnce ==
  ASSUME Inv, OnceInv, NEW b \in Buckets, ReceiveLate(b) \/ ReceiveFirst(b) \/ ReceiveSame(b)
  PROVE  OnceInv'
<1>1. TypeOK /\ conn \in Nat
  BY DEF Inv, TypeOK
<1>2. ReaderKeeps /\ conn' = conn /\ open' = open /\ buffer' = buffer
  BY DEF ReceiveLate, ReceiveFirst, ReceiveSame
<1>3. Within(buffer') = Within(buffer) /\ Distinct(buffer')
  BY <1>2 DEF OnceInv, Within, Distinct
<1> QED
  BY <1>1, <1>2, <1>3, ReaderOnce

LEMMA SealOnce ==
  ASSUME Inv, OnceInv, NEW b \in Buckets, ReceiveNext(b) \/ SealIdle
  PROVE  OnceInv'
<1> DEFINE r == Trace(pending)
<1>1. TypeOK /\ conn \in Nat /\ pending # -1
  BY DEF Inv, TypeOK, ReceiveNext, SealIdle
<1>2. ReaderKeeps /\ conn' = conn /\ open' = open /\ buffer' = Offered(Here, r).buffer
  BY DEF ReceiveNext, SealIdle, Becomes
<1>3. r \in Record /\ r \notin Held
  BY <1>1, RecordsMade, NewRecords
<1>4. /\ Distinct(buffer')
      /\ \A q \in Within(buffer') : q \in Within(buffer) \/ q = r
  BY <1>1, <1>2, <1>3, OfferOnce
<1>5. \A q : q = r => Opened(q)'
  BY DEF Trace, Opened
<1> HIDE DEF r
<1> QED
  BY <1>1, <1>2, <1>3, <1>4, <1>5, ReaderOnce

\* Two offers: what was pending, then the end of the session.
LEMMA DisconnectOnce == ASSUME Inv, OnceInv, Disconnect PROVE OnceInv'
<1> DEFINE t == Trace(pending)
           r == Session(conn, 1)
           flushed == IF pending = -1 THEN Here ELSE Offered(Here, t)
<1>1. TypeOK /\ conn \in Nat /\ open
  BY DEF Inv, TypeOK, Disconnect
<1>2. /\ ReaderKeeps /\ conn' = conn /\ open' = FALSE
      /\ buffer' = Offered(flushed, r).buffer
  BY DEF Disconnect, Becomes
<1>3. /\ r \in Record /\ r \notin Held
      /\ pending # -1 => t \in Record /\ t \notin Held /\ t # r
  <2>1. t.kind = "trace" /\ r.kind = "session"
    BY DEF Trace, Session
  <2>2. t # r
    BY <2>1
  <2> QED
    BY <2>2, <1>1, RecordsMade, NewRecords
<1>4. r \notin Within(buffer) /\ (pending # -1 => t \notin Within(buffer))
  BY <1>3 DEF Held, Within
<1>5. Here \in Queue /\ Here.buffer = buffer /\ Len(buffer) <= QueueMax
  BY <1>1, <1>3, OfferHere DEF TypeOK
<1>6. /\ flushed \in Queue /\ Len(flushed.buffer) <= QueueMax
      /\ Distinct(flushed.buffer)
      /\ \A q \in Within(flushed.buffer) : q \in Within(buffer) \/ (pending # -1 /\ q = t)
  <2>1. CASE pending = -1
    BY <2>1, <1>5 DEF OnceInv
  <2>2. CASE pending # -1
    <3>1. Distinct(Here.buffer) /\ t \notin Within(Here.buffer)
      BY <2>2, <1>4, <1>5 DEF OnceInv
    <3>2. Distinct(Offered(Here, t).buffer)
      BY <3>1, <2>2, <1>3, <1>5, OfferedDistinct
    <3> QED
      BY <3>2, <2>2, <1>1, <1>3, OfferHere
  <2> QED
    BY <2>1, <2>2
<1> HIDE DEF flushed
<1>7. r \notin Within(flushed.buffer)
  BY <1>3, <1>4, <1>6
<1>8. Distinct(buffer') /\ Within(buffer') \subseteq Within(flushed.buffer) \cup {r}
  BY <1>2, <1>3, <1>6, <1>7, OfferedDistinct, OfferedAccounts
<1>9. /\ \A q : q = r => Opened(q)'
      /\ \A q : q = t => Opened(q)'
  <2>1. /\ \A q : q = r => q.kind = "session" /\ q.conn = conn
        /\ \A q : q = t => q.kind = "trace"
    BY DEF Session, Trace
  <2> HIDE DEF r, t
  <2> QED
    BY <2>1, <1>1, <1>2 DEF Opened
<1> HIDE DEF r, t
<1>10. \A q \in Within(buffer') : q \in Within(buffer) \/ (q \notin Held /\ Opened(q)')
  BY <1>3, <1>6, <1>8, <1>9
<1> QED
  BY <1>1, <1>2, <1>8, <1>10, ReaderOnce

\* A step that leaves the batch and what is stored alone, and the buffer too unless it discards it.
LEMMA QuietOnce ==
  ASSUME OnceInv, UNCHANGED <<reader, batch, group, rows, stored>>, buffer' \in {buffer, <<>>},
         pc' = pc \/ group = "trace"
  PROVE  OnceInv'
<1>1. /\ conn' = conn /\ open' = open /\ batch' = batch /\ Len(batch') = Len(batch)
      /\ Within(batch') = Within(batch) /\ stored' = stored /\ rows' = rows /\ group' = group
  BY DEF reader, Within
<1>2. Distinct(batch') /\ StoredInv' /\ GroupInv'
  BY <1>1 DEF OnceInv, Distinct, StoredInv, GroupInv
<1>3. Distinct(buffer') /\ Within(buffer') \subseteq Within(buffer)
  <2>1. CASE buffer' = buffer
    BY <2>1 DEF OnceInv, Within, Distinct
  <2>2. CASE buffer' = <<>>
    BY <2>2 DEF Within, Distinct
  <2> QED
    BY <2>1, <2>2
<1>4. ApartInv' /\ OpenedInv'
  BY <1>1, <1>3 DEF OnceInv, ApartInv, OpenedInv, Opened
<1> QED
  BY <1>2, <1>3, <1>4 DEF OnceInv

\* The batch has gone, whatever became of it; the buffer stands, or went with it.
LEMMA EmptiedOnce ==
  ASSUME TypeOK, OnceInv, UNCHANGED reader, batch' = <<>>, rows' = {}, group' = "trace",
         buffer' = <<>> \/ buffer' = buffer,
         \A q \in stored' : q \in stored \cup Within(batch)
  PROVE  OnceInv'
<1>1. conn' = conn /\ open' = open /\ Len(batch') = 0 /\ Within(batch') = {}
  BY DEF reader, Within
<1>2. Distinct(batch') /\ StoredInv' /\ GroupInv'
  BY <1>1 DEF Distinct, StoredInv, GroupInv
<1>3. Distinct(buffer') /\ Within(buffer') \subseteq Within(buffer)
  <2>1. CASE buffer' = buffer
    BY <2>1 DEF OnceInv, Within, Distinct
  <2>2. CASE buffer' = <<>>
    BY <2>2 DEF Within, Distinct
  <2> QED
    BY <2>1, <2>2
<1>4. ApartInv' /\ OpenedInv'
  BY <1>1, <1>3 DEF OnceInv, ApartInv, OpenedInv, Opened
<1> QED
  BY <1>2, <1>3, <1>4 DEF OnceInv

\* What drain_nowait moves is distinct, before and after.
LEMMA TakeOnce == ASSUME Inv, OnceInv, Take PROVE OnceInv'
<1>1. TypeOK /\ rows = {} /\ group = "trace"
  BY DEF Inv, RowsInv, OnceInv, GroupInv, Take
<1>2. /\ UNCHANGED reader /\ pc' = "gather" /\ group' = group /\ rows' = rows /\ stored' = stored
      /\ Drained > 0 /\ batch' = batch \o SubSeq(buffer, 1, Drained)
      /\ buffer' = SubSeq(buffer, 1 + Drained, Len(buffer))
  BY DEF Take, WriterKeeps, totals
<1>3. /\ Len(buffer) \in Nat /\ Len(batch) \in Nat /\ BatchMax \in Nat
      /\ buffer \in Seq(Record) /\ batch \in Seq(Record) /\ Len(batch) <= BatchMax
  BY <1>1, Limits DEF TypeOK
<1>4. Drained \in 1..Len(buffer)
  BY <1>2, <1>3 DEF Drained
<1> HIDE DEF Drained
<1>5. /\ Len(buffer') = Len(buffer) - Drained
      /\ \A i \in 1..Len(buffer') : buffer'[i] = buffer[i + Drained]
  BY <1>2, <1>3, <1>4
<1>6. /\ Len(SubSeq(buffer, 1, Drained)) = Drained /\ SubSeq(buffer, 1, Drained) \in Seq(Record)
      /\ \A i \in 1..Drained : SubSeq(buffer, 1, Drained)[i] = buffer[i]
  BY <1>3, <1>4
<1>7. /\ Len(batch') = Len(batch) + Drained
      /\ \A i \in 1..Len(batch') :
           batch'[i] = IF i <= Len(batch) THEN batch[i] ELSE buffer[i - Len(batch)]
  <2>1. /\ Len(batch') = Len(batch) + Drained
        /\ \A i \in 1..Len(batch') :
             batch'[i] = IF i <= Len(batch) THEN batch[i] ELSE SubSeq(buffer, 1, Drained)[i - Len(batch)]
    BY <1>2, <1>3, <1>6
  <2>2. \A i \in 1..Len(batch') : ~(i <= Len(batch)) => i - Len(batch) \in 1..Drained
    BY <2>1, <1>3, <1>4
  <2>3. \A i \in 1..Len(batch') :
          ~(i <= Len(batch)) => SubSeq(buffer, 1, Drained)[i - Len(batch)] = buffer[i - Len(batch)]
    BY <2>2, <1>6
  <2> QED
    BY <2>1, <2>3
<1>8. \A i \in 1..Len(batch') :
        \/ i \in 1..Len(batch) /\ batch'[i] = batch[i]
        \/ i - Len(batch) \in 1..Drained /\ i - Len(batch) \in 1..Len(buffer)
           /\ batch'[i] = buffer[i - Len(batch)]
  BY <1>3, <1>4, <1>7
<1>9. \A i \in 1..Len(buffer'), k \in 1..Drained :
        i + Drained \in 1..Len(buffer) /\ i + Drained # k
  BY <1>3, <1>4, <1>5
<1>10. Distinct(buffer')
  <2>1. SUFFICES ASSUME NEW i \in 1..Len(buffer'), NEW j \in 1..Len(buffer'), buffer'[i] = buffer'[j]
                 PROVE  i = j
    BY DEF Distinct
  <2>2. i + Drained \in 1..Len(buffer) /\ j + Drained \in 1..Len(buffer)
    BY <1>4, <1>9
  <2>3. i + Drained = j + Drained
    BY <2>1, <2>2, <1>5 DEF OnceInv, Distinct
  <2> QED
    BY <2>3, <1>4
<1>11. Distinct(batch')
  <2>1. SUFFICES ASSUME NEW i \in 1..Len(batch'), NEW j \in 1..Len(batch'), batch'[i] = batch'[j]
                 PROVE  i = j
    BY DEF Distinct
  <2>2. \A k \in 1..Len(batch), l \in 1..Len(buffer) : batch[k] # buffer[l]
    BY DEF OnceInv, ApartInv, Within
  <2>3. i \in 1..Len(batch) <=> j \in 1..Len(batch)
    BY <2>1, <2>2, <1>8
  <2>4. CASE i \in 1..Len(batch)
    BY <2>1, <2>3, <2>4, <1>3, <1>7 DEF OnceInv, Distinct
  <2>5. CASE i \notin 1..Len(batch)
    <3>1. i - Len(batch) = j - Len(batch)
      BY <2>1, <2>3, <2>5, <1>8 DEF OnceInv, Distinct
    <3> QED
      BY <3>1, <1>3
  <2> QED
    BY <2>4, <2>5
<1>12. Within(buffer') \subseteq Within(buffer) /\ Within(batch') \subseteq Within(buffer) \cup Within(batch)
  <2>1. Within(buffer') \subseteq Within(buffer)
    BY <1>4, <1>5, <1>9 DEF Within
  <2> QED
    BY <2>1, <1>8 DEF Within
<1>13. ApartInv'
  <2>1. SUFFICES ASSUME NEW i \in 1..Len(buffer')
                 PROVE  buffer'[i] \notin Within(batch') /\ buffer'[i] \notin stored
    BY <1>2 DEF ApartInv, Within
  <2>2. buffer'[i] = buffer[i + Drained] /\ i + Drained \in 1..Len(buffer)
    BY <1>4, <1>5, <1>9
  <2>3. buffer'[i] \notin stored /\ \A k \in 1..Len(batch) : batch[k] # buffer'[i]
    BY <2>2 DEF OnceInv, ApartInv, Within
  <2>4. \A k \in 1..Drained : k \in 1..Len(buffer) /\ buffer[k] # buffer'[i]
    BY <2>2, <1>3, <1>4, <1>9 DEF OnceInv, Distinct
  <2>5. \A k \in 1..Len(batch') : batch'[k] # buffer'[i]
    BY <2>3, <2>4, <1>8
  <2> QED
    BY <2>3, <2>5 DEF Within
<1>14. StoredInv'
  <2>1. \A k \in 1..Len(batch) : batch[k] \notin stored
    BY <1>1 DEF OnceInv, StoredInv
  <2>2. \A k \in 1..Len(buffer) : buffer[k] \notin stored
    BY DEF OnceInv, ApartInv, Within
  <2> QED
    BY <2>1, <2>2, <1>2, <1>8 DEF StoredInv
<1>15. OpenedInv' /\ GroupInv'
  <2>1. conn' = conn /\ open' = open
    BY <1>2 DEF reader
  <2> QED
    BY <2>1, <1>1, <1>2, <1>12 DEF OnceInv, OpenedInv, Opened, GroupInv
<1> QED
  BY <1>10, <1>11, <1>13, <1>14, <1>15 DEF OnceInv

LEMMA WriterOnce ==
  ASSUME Inv, OnceInv, [Next]_vars, ~Reader, ~Take
  PROVE  OnceInv'
<1>1. TypeOK /\ rows \subseteq 1..Len(batch)
  BY DEF Inv, TypeOK
<1>2. ASSUME NEW effect \in BOOLEAN
      PROVE  Copied(effect) \subseteq stored \cup Within(batch)
  BY <1>1, <1>2, CopiedFromBatch
<1>3. ASSUME NEW allowed \in BOOLEAN, Maintain(allowed) PROVE OnceInv'
  <2>1. /\ UNCHANGED <<reader, batch, group, rows, stored>> /\ buffer' \in {buffer, <<>>}
        /\ pc # "writing"
    BY <1>3 DEF Maintain, WriterKeeps, Discard
  <2> QED
    BY <2>1, QuietOnce DEF OnceInv, GroupInv
<1>4. ASSUME NEW allowed \in BOOLEAN, Recheck(allowed) PROVE OnceInv'
  <2>1. UNCHANGED <<reader, group, rows, stored>> /\ group = "trace" /\ rows = {}
    BY <1>4 DEF Recheck, WriterKeeps, OnceInv, GroupInv, Inv, RowsInv
  <2>2. CASE allowed
    <3>1. UNCHANGED <<buffer, batch>>
      BY <2>2, <1>4 DEF Recheck
    <3> QED
      BY <2>1, <3>1, QuietOnce
  <2>3. CASE ~allowed
    <3>1. buffer' = <<>> /\ batch' = <<>>
      BY <2>3, <1>4 DEF Recheck
    <3> QED
      BY <2>1, <3>1, <1>1, EmptiedOnce
  <2> QED
    BY <2>2, <2>3
<1>5. CASE Wait \/ Gathered
  <2>1. /\ UNCHANGED <<reader, batch, group, rows, stored>> /\ buffer' \in {buffer, <<>>}
        /\ pc # "writing"
    BY <1>5 DEF Wait, Gathered, WriterKeeps, Discard
  <2> QED
    BY <2>1, QuietOnce DEF OnceInv, GroupInv
<1>6. CASE WriterEnds \/ Closer
  <2>1. /\ UNCHANGED <<reader, batch, group, rows, stored>> /\ buffer' \in {buffer, <<>>}
        /\ pc' = pc \/ pc # "writing"
    BY <1>6 DEF WriterEnds, Closer, Stop, TimesOut, Closes, DiscardOnce, Discard, writer
  <2> QED
    BY <2>1, QuietOnce DEF OnceInv, GroupInv
<1>7. ASSUME NEW effect \in BOOLEAN, NEW ok \in BOOLEAN, WriteTraces(effect, ok) PROVE OnceInv'
  <2>1. /\ UNCHANGED reader /\ buffer' = buffer /\ batch' = batch /\ pc' = pc /\ pc = "writing"
        /\ group = "trace" /\ group' = "session" /\ rows' = Reported(ok) /\ stored' = Copied(effect)
    BY <1>7 DEF WriteTraces, WriterKeeps, totals
  <2>2. conn' = conn /\ open' = open /\ Within(buffer') = Within(buffer) /\ Within(batch') = Within(batch)
    BY <2>1 DEF reader, Within
  <2>3. Distinct(buffer') /\ Distinct(batch')
    BY <2>1 DEF OnceInv, Distinct
  <2>4. rows = {}
    BY <2>1 DEF OnceInv, GroupInv
  <2>5. GroupInv'
    BY <2>1, <2>4 DEF GroupInv, Reported, Group
  <2>6. ApartInv' /\ OpenedInv'
    BY <2>1, <2>2, <1>2 DEF OnceInv, ApartInv, OpenedInv, Opened
  <2>7. StoredInv'
    <3>1. SUFFICES ASSUME NEW i \in 1..Len(batch), batch[i] \in Copied(effect)
                   PROVE  batch[i].kind = "trace"
      BY <2>1 DEF StoredInv
    <3>2. batch[i] \notin stored
      BY <2>1 DEF OnceInv, StoredInv
    <3> QED
      BY <3>1, <3>2, <2>1 DEF Copied, Group
  <2> QED
    BY <2>3, <2>5, <2>6, <2>7 DEF OnceInv
<1>8. ASSUME NEW effect \in BOOLEAN, NEW ok \in BOOLEAN, WriteSessions(effect, ok) PROVE OnceInv'
  <2>1. /\ UNCHANGED reader /\ buffer' = buffer /\ batch' = <<>> /\ rows' = {} /\ group' = "trace"
        /\ stored' = Copied(effect)
    BY <1>8 DEF WriteSessions, WriterKeeps, Settle
  <2> QED
    BY <2>1, <1>1, <1>2, EmptiedOnce
<1>9. CASE Cancelled
  <2>1. /\ UNCHANGED reader /\ buffer' = buffer /\ batch' = <<>> /\ rows' = {} /\ group' = "trace"
    BY <1>9 DEF Cancelled, WriterKeeps, Settle
  <2>2. stored' \subseteq stored \cup Within(batch)
    BY <1>9, <1>2 DEF Cancelled, Copied
  <2> QED
    BY <2>1, <2>2, <1>1, EmptiedOnce
<1>10. CASE UNCHANGED vars
  BY <1>10, QuietOnce DEF vars, writer
<1> QED
  BY <1>3, <1>4, <1>5, <1>6, <1>7, <1>8, <1>9, <1>10 DEF Next, Writer, Write

LEMMA OnceKeeps == ASSUME Inv, OnceInv, [Next]_vars PROVE OnceInv'
<1>1. CASE Connect
  BY <1>1, ConnectOnce
<1>2. CASE SealIdle
  <2>1. PICK b \in Buckets : TRUE
    BY <1>2 DEF SealIdle, Inv, TypeOK
  <2> QED
    BY <2>1, <1>2, SealOnce
<1>3. CASE Disconnect
  BY <1>3, DisconnectOnce
<1>4. ASSUME NEW b \in Buckets, ReceiveLate(b) \/ ReceiveFirst(b) \/ ReceiveSame(b) PROVE OnceInv'
  BY <1>4, ReceiveOnce
<1>5. ASSUME NEW b \in Buckets, ReceiveNext(b) PROVE OnceInv'
  BY <1>5, SealOnce
<1>6. CASE Take
  BY <1>6, TakeOnce
<1>7. CASE ~Reader /\ ~Take
  BY <1>7, WriterOnce
<1> QED
  BY <1>1, <1>2, <1>3, <1>4, <1>5, <1>6, <1>7 DEF Reader
----------------------------------------------------------------------------
(* What is reported as persisted has taken effect. *)

LEMMA DisjointUnion ==
  ASSUME NEW S, NEW T, IsFiniteSet(S), IsFiniteSet(T), S \cap T = {}
  PROVE  IsFiniteSet(S \cup T) /\ Cardinality(S \cup T) = Cardinality(S) + Cardinality(T)
<1>1. /\ IsFiniteSet(S \cup T)
      /\ Cardinality(S \cup T) = Cardinality(S) + Cardinality(T) - Cardinality(S \cap T)
  BY FS_Union
<1>2. Cardinality(S \cap T) = 0
  BY FS_EmptySet
<1>3. Cardinality(S) \in Nat /\ Cardinality(T) \in Nat
  BY FS_CardinalityType
<1> QED
  BY <1>1, <1>2, <1>3

\* Of a group that takes effect, every row is one record more in PostgreSQL.
LEMMA CopyCounts ==
  ASSUME TypeOK, OnceInv, IsFiniteSet(stored)
  PROVE  /\ IsFiniteSet(Group) /\ Cardinality(Group) \in Nat
         /\ IsFiniteSet(Copied(TRUE))
         /\ Cardinality(Copied(TRUE)) = Cardinality(stored) + Cardinality(Group)
<1> DEFINE new == {batch[i] : i \in Group}
           f == [i \in Group |-> batch[i]]
<1>1. IsFiniteSet(Group) /\ Cardinality(Group) \in Nat
  <2>1. Len(batch) \in Int /\ Group \in SUBSET (1..Len(batch))
    BY DEF TypeOK, Group
  <2>2. IsFiniteSet(1..Len(batch))
    BY <2>1, FS_Interval
  <2> QED
    BY <2>1, <2>2, FS_Subset, FS_CardinalityType
<1>2. \A i, j \in Group : batch[i] = batch[j] => i = j
  BY DEF OnceInv, Distinct, Group
<1>3. f \in Bijection(Group, new)
  <2>1. f \in [Group -> new]
    OBVIOUS
  <2>2. \A i, j \in Group : f[i] = f[j] => i = j
    BY <1>2
  <2>3. \A r \in new : \E i \in Group : f[i] = r
    OBVIOUS
  <2> HIDE DEF f, new
  <2>4. f \in Injection(Group, new)
    BY <2>1, <2>2 DEF Injection, IsInjective
  <2>5. f \in Surjection(Group, new)
    BY <2>1, <2>3 DEF Surjection
  <2> QED
    BY <2>4, <2>5 DEF Bijection
<1>4. ExistsBijection(Group, new)
  BY <1>3, Zenon DEF ExistsBijection
<1>5. IsFiniteSet(new) /\ Cardinality(new) = Cardinality(Group)
  BY <1>1, <1>4, FS_Bijection
<1>6. stored \cap new = {}
  BY DEF OnceInv, StoredInv, Group
<1>7. Copied(TRUE) = stored \cup new
  BY DEF Copied
<1> HIDE DEF new
<1>8. IsFiniteSet(stored \cup new)
      /\ Cardinality(stored \cup new) = Cardinality(stored) + Cardinality(new)
  BY <1>5, <1>6, DisjointUnion
<1> QED
  BY <1>1, <1>5, <1>7, <1>8

PersistedInv == IsFiniteSet(stored) /\ PersistedIsTrue

\* What is stored only grows.
LEMMA CopiedGrows ==
  ASSUME TypeOK, OnceInv, IsFiniteSet(stored), NEW effect \in BOOLEAN
  PROVE  /\ IsFiniteSet(Copied(effect))
         /\ Cardinality(stored) \in Nat /\ Cardinality(Copied(effect)) \in Nat
         /\ Cardinality(stored) <= Cardinality(Copied(effect))
<1>1. Cardinality(stored) \in Nat
  BY FS_CardinalityType
<1>2. CASE effect
  <2>1. Copied(effect) = Copied(TRUE)
    BY <1>2
  <2>2. /\ IsFiniteSet(Copied(TRUE)) /\ Cardinality(Group) \in Nat
        /\ Cardinality(Copied(TRUE)) = Cardinality(stored) + Cardinality(Group)
    BY CopyCounts
  <2>3. /\ IsFiniteSet(Copied(effect))
        /\ Cardinality(Copied(effect)) = Cardinality(stored) + Cardinality(Group)
    BY <2>1, <2>2, Zenon
  <2> QED
    BY <2>2, <2>3, <1>1
<1>3. CASE ~effect
  BY <1>1, <1>3 DEF Copied
<1> QED
  BY <1>2, <1>3

\* The rows reported after a group: those before it, and the group's if it was written.
LEMMA ReportCounts ==
  ASSUME TypeOK, OnceInv, PersistedInv, NEW effect \in BOOLEAN, NEW ok \in BOOLEAN, ok => effect
  PROVE  /\ IsFiniteSet(Reported(ok))
         /\ persisted + Cardinality(Reported(ok)) <= Cardinality(Copied(effect))
<1>1. IsFiniteSet(rows) /\ Cardinality(rows) \in Nat
  <2>1. Len(batch) \in Int /\ rows \in SUBSET (1..Len(batch))
    BY DEF TypeOK
  <2>2. IsFiniteSet(1..Len(batch))
    BY <2>1, FS_Interval
  <2> QED
    BY <2>1, <2>2, FS_Subset, FS_CardinalityType
<1>2. persisted \in Nat /\ persisted + Cardinality(rows) <= Cardinality(stored)
  BY DEF TypeOK, PersistedInv, PersistedIsTrue
<1>3. CASE ok
  <2>1. rows \cap Group = {}
    BY DEF OnceInv, GroupInv, Group
  <2>2. IsFiniteSet(Group) /\ Cardinality(Group) \in Nat
    BY CopyCounts DEF PersistedInv
  <2>3. /\ IsFiniteSet(rows \cup Group)
        /\ Cardinality(rows \cup Group) = Cardinality(rows) + Cardinality(Group)
    BY <2>1, <2>2, <1>1, DisjointUnion
  <2>5. Reported(ok) = rows \cup Group /\ Copied(effect) = Copied(TRUE)
    BY <1>3 DEF Reported
  <2>6. Cardinality(Copied(TRUE)) = Cardinality(stored) + Cardinality(Group)
    BY CopyCounts DEF PersistedInv
  <2>7. Cardinality(stored) \in Nat
    BY FS_CardinalityType DEF PersistedInv
  <2>8. Cardinality(Reported(ok)) = Cardinality(rows) + Cardinality(Group)
    BY <2>3, <2>5
  <2>9. Cardinality(Copied(effect)) = Cardinality(stored) + Cardinality(Group)
    BY <2>5, <2>6
  <2>10. IsFiniteSet(Reported(ok))
    BY <2>3, <2>5
  <2> HIDE DEF PersistedInv
  <2> QED
    BY <2>2, <2>7, <2>8, <2>9, <2>10, <1>1, <1>2, SMTT(30)
<1>4. CASE ~ok
  <2>1. Reported(ok) = rows
    BY <1>4 DEF Reported
  <2>2. /\ Cardinality(stored) \in Nat /\ Cardinality(Copied(effect)) \in Nat
        /\ Cardinality(stored) <= Cardinality(Copied(effect))
    BY CopiedGrows DEF PersistedInv
  <2> QED
    BY <2>1, <2>2, <1>1, <1>2
<1> QED
  BY <1>3, <1>4

LEMMA PersistedKeeps ==
  ASSUME Inv, OnceInv, PersistedInv, [Next]_vars
  PROVE  PersistedInv'
<1>1. TypeOK /\ IsFiniteSet(stored)
  BY DEF Inv, PersistedInv
<1>2. IsFiniteSet({}) /\ Cardinality({}) = 0
  BY FS_EmptySet
<1>3. CASE UNCHANGED <<persisted, rows, stored>>
  BY <1>3 DEF PersistedInv, PersistedIsTrue
<1>4. ASSUME NEW effect \in BOOLEAN, NEW ok \in BOOLEAN, WriteTraces(effect, ok)
      PROVE  PersistedInv'
  <2>1. /\ ok => effect
        /\ persisted' = persisted
        /\ rows' = Reported(ok) /\ stored' = Copied(effect)
    BY <1>4 DEF WriteTraces, totals
  <2>2. /\ IsFiniteSet(Copied(effect))
        /\ persisted + Cardinality(Reported(ok)) <= Cardinality(Copied(effect))
    BY <2>1, <1>1, ReportCounts, CopiedGrows
  <2> QED
    BY <2>1, <2>2 DEF PersistedInv, PersistedIsTrue
<1>5. ASSUME NEW effect \in BOOLEAN, NEW ok \in BOOLEAN, WriteSessions(effect, ok)
      PROVE  PersistedInv'
  <2>1. /\ ok => effect
        /\ persisted' = persisted + Cardinality(Reported(ok)) /\ rows' = {}
        /\ stored' = Copied(effect)
    BY <1>5 DEF WriteSessions, Settle
  <2>2. IsFiniteSet(stored') /\ persisted' <= Cardinality(stored')
    BY <2>1, <1>1, ReportCounts, CopiedGrows
  <2>3. persisted' \in Nat
    BY NextKeeps DEF Inv, TypeOK
  <2> QED
    BY <2>1, <2>2, <2>3, <1>2 DEF PersistedInv, PersistedIsTrue
<1>6. CASE Cancelled
  <2>1. PICK effect \in BOOLEAN : stored' = Copied(effect /\ pc = "writing")
    BY <1>6 DEF Cancelled
  <2>2. (effect /\ pc = "writing") \in BOOLEAN
    BY Zenon
  <2>3. persisted' = persisted + Cardinality(rows) /\ rows' = {}
    BY <1>6 DEF Cancelled, Settle
  <2>4. persisted' <= Cardinality(stored)
    BY <2>3 DEF PersistedInv, PersistedIsTrue
  <2>5. /\ IsFiniteSet(stored') /\ Cardinality(stored) \in Nat /\ Cardinality(stored') \in Nat
        /\ Cardinality(stored) <= Cardinality(stored')
    BY <2>1, <2>2, <1>1, CopiedGrows
  <2>6. persisted' \in Nat
    BY NextKeeps DEF Inv, TypeOK
  <2> QED
    BY <2>3, <2>4, <2>5, <2>6, <1>2 DEF PersistedInv, PersistedIsTrue
<1>7. CASE Reader
  <2>1. ReaderKeeps
    BY <1>7 DEF Reader, Connect, SealIdle, Disconnect, ReceiveLate, ReceiveFirst, ReceiveSame, ReceiveNext
  <2> QED
    BY <2>1, <1>3, ReaderFrame
<1>8. ASSUME NEW allowed \in BOOLEAN, Maintain(allowed) \/ Recheck(allowed) PROVE PersistedInv'
  BY <1>3, <1>8 DEF Maintain, Recheck
<1>9. CASE Wait \/ Take \/ Gathered \/ WriterEnds
  BY <1>3, <1>9 DEF Wait, Take, Gathered, WriterEnds, totals
<1>10. CASE Closer
  BY <1>3, <1>10 DEF Closer, Stop, TimesOut, Closes, writer, totals
<1>11. CASE UNCHANGED vars
  BY <1>3, <1>11 DEF vars, writer, totals
<1> QED
  BY <1>4, <1>5, <1>6, <1>7, <1>8, <1>9, <1>10, <1>11 DEF Next, Writer, Write

LEMMA InitOnce == Init => OnceInv /\ PersistedInv
<1> SUFFICES ASSUME Init PROVE OnceInv /\ PersistedInv
  OBVIOUS
<1>1. Len(buffer) = 0 /\ Len(batch) = 0 /\ stored = {} /\ rows = {} /\ group = "trace" /\ persisted = 0
  BY DEF Init
<1>2. Within(buffer) = {} /\ Within(batch) = {}
  BY <1>1 DEF Within
<1>3. IsFiniteSet({}) /\ Cardinality({}) = 0
  BY FS_EmptySet
<1> QED
  BY <1>1, <1>2, <1>3 DEF OnceInv, Distinct, ApartInv, StoredInv, OpenedInv, GroupInv,
       PersistedInv, PersistedIsTrue

\* records_persisted_total claims no record that PostgreSQL does not hold, whichever group
\* failed, timed out after taking effect, or was cancelled between the two.
THEOREM PersistedIsReal == Spec => []PersistedIsTrue
<1>1. Init => Inv /\ OnceInv /\ PersistedInv
  BY InitInv, InitOnce
<1>2. Inv /\ OnceInv /\ PersistedInv /\ [Next]_vars => (Inv /\ OnceInv /\ PersistedInv)'
  BY NextKeeps, OnceKeeps, PersistedKeeps
<1>3. PersistedInv => PersistedIsTrue
  BY DEF PersistedInv
<1> QED
  BY <1>1, <1>2, <1>3, PTL DEF Spec
=============================================================================
