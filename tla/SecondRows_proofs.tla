------------------------- MODULE SecondRows_proofs -------------------------
(***************************************************************************)
(* Theorems about the two components that store one row per second behind  *)
(* a live copy in Redis: ChainlinkDelivery, for any set of provider        *)
(* seconds, any capacity and any number of samples and of failed writes,   *)
(* and Microstructure, for any sockets, queues, frames and faults.         *)
(***************************************************************************)
EXTENDS ChainlinkDelivery, Microstructure, FiniteSetTheorems, WellFoundedInduction, TLAPS

----------------------------------------------------------------------------
(* Capacity. *)

\* The oldest of some samples is one of them.
LEMMA FirstIsMember ==
  ASSUME NEW set \in SUBSET Nat, set # {}
  PROVE  First(set) \in set /\ \A j \in set : First(set) <= j
<1>1. PICK i \in set : \A j \in set : ~(<<j, i>> \in OpToRel(<, Nat))
  BY NatLessThanWellFounded, WFMin
<1>2. \A j \in set : <<j, i>> \in OpToRel(<, Nat) <=> j < i
  BY DEF OpToRel
<1>3. \A j \in set : ~(j < i)
  BY <1>1, <1>2, Zenon
<1>4. \A j \in set : i <= j
  BY <1>3
<1> QED
  BY <1>4 DEF First

\* Taking something out makes room for one newcomer.
LEMMA SwapCardinality ==
  ASSUME NEW set, IsFiniteSet(set), NEW out, out \cap set # {}, NEW n
  PROVE  /\ IsFiniteSet((set \ out) \cup {n})
         /\ Cardinality((set \ out) \cup {n}) <= Cardinality(set)
<1> DEFINE rest == set \ out
<1>1. /\ IsFiniteSet(rest) /\ Cardinality(rest) = Cardinality(set) - Cardinality(set \cap out)
  BY FS_Difference
<1>2. IsFiniteSet(set \cap out) /\ set \cap out # {}
  BY FS_Intersection
<1>3. /\ Cardinality(set \cap out) \in Nat /\ Cardinality(set) \in Nat /\ Cardinality(rest) \in Nat
      /\ Cardinality(set \cap out) # 0
  BY <1>1, <1>2, FS_CardinalityType, FS_EmptySet
<1>4. /\ IsFiniteSet(rest \cup {n})
      /\ Cardinality(rest \cup {n}) = IF n \in rest THEN Cardinality(rest) ELSE Cardinality(rest) + 1
  BY <1>1, FS_AddElement
<1> QED
  BY <1>1, <1>3, <1>4

\* What an offered sample does to the pending store: it never holds more than its capacity, or
\* two samples of one second; nothing leaves it but for a newer sample of its second, or
\* counted as dropped; the newcomer is pending or counted as dropped.
LEMMA OfferKeepsBounds ==
  ASSUME TypeOK, NEW s \in Seconds, OfferHistory(Len(accepted) + 1, s)
  PROVE  LET n == Len(accepted) + 1 IN
         /\ pending' \subseteq pending \cup {n} /\ Cardinality(pending') <= Capacity
         /\ lost \subseteq lost' /\ lost' \subseteq lost \cup pending \cup {n}
         /\ n \in pending' \cup lost'
         /\ \A i \in pending \ pending' : i \in lost' \/ accepted[i] = s
         /\ n \in pending' => \A i \in pending' \ {n} : accepted[i] # s
<1> DEFINE n == Len(accepted) + 1
<1>1. /\ Len(accepted) \in Nat /\ n \in Nat /\ pending \subseteq Samples /\ Capacity \in Nat
      /\ Cardinality(pending) <= Capacity /\ inflight \in {0} \cup Samples
  BY DeliveryLimits DEF TypeOK
<1>2. IsFiniteSet(pending) /\ Cardinality(pending) \in Nat
  <2>1. IsFiniteSet(Samples)
    BY <1>1, FS_Interval DEF Samples
  <2> QED
    BY <1>1, <2>1, FS_Subset, FS_CardinalityType
<1>3. pending \in SUBSET Nat
  BY <1>1 DEF Samples
<1>4. CASE Collapses(n, s)
  <2>1. Same(s) \cap pending # {} /\ pending' = (pending \ Same(s)) \cup {n} /\ lost' = lost
    BY <1>4 DEF Collapses, Same
  <2>2. IsFiniteSet(pending') /\ Cardinality(pending') <= Cardinality(pending)
    BY <1>2, <2>1, SwapCardinality
  <2>3. Cardinality(pending') \in Nat
    BY <2>2, FS_CardinalityType
  <2>4. Cardinality(pending') <= Capacity
    BY <1>1, <1>2, <2>2, <2>3
  <2> QED
    BY <2>1, <2>4 DEF Same
<1>5. CASE Fits(n, s)
  <2>1. Same(s) = {} /\ pending' = pending \cup {n} /\ lost' = lost /\ Cardinality(pending) < Capacity
    BY <1>5 DEF Fits
  <2>2. /\ Cardinality(pending \cup {n}) =
              IF n \in pending THEN Cardinality(pending) ELSE Cardinality(pending) + 1
    BY <1>2, FS_AddElement
  <2>3. IsFiniteSet(pending \cup {n})
    BY <1>2, FS_AddElement
  <2>4. Cardinality(pending') \in Nat
    BY <2>1, <2>3, FS_CardinalityType
  <2>5. Cardinality(pending') <= Capacity
    BY <1>1, <1>2, <2>1, <2>2, <2>4
  <2> QED
    BY <2>1, <2>5 DEF Same
<1>6. CASE Evicts(n, s)
  <2>1. Same(s) = {} /\ Yielding # {}
    BY <1>6 DEF Evicts
  <2>2. Yielding \subseteq pending
    BY DEF Yielding
  <2>3. First(Yielding) \in pending
    BY <1>3, <2>1, <2>2, FirstIsMember
  <2>4. pending' = (pending \ {First(Yielding)}) \cup {n} /\ lost' = lost \cup {First(Yielding)}
    BY <1>6 DEF Evicts
  <2>5. {First(Yielding)} \cap pending # {}
    BY <2>3
  <2>6. IsFiniteSet(pending') /\ Cardinality(pending') <= Cardinality(pending)
    BY <1>2, <2>4, <2>5, SwapCardinality
  <2>7. Cardinality(pending') \in Nat
    BY <2>6, FS_CardinalityType
  <2>8. Cardinality(pending') <= Capacity
    BY <1>1, <1>2, <2>6, <2>7
  <2> QED
    BY <2>1, <2>3, <2>4, <2>8 DEF Same
<1>7. CASE Refused(n, s)
  <2>1. Same(s) = {} /\ pending' = pending /\ lost' = lost \cup {n}
    BY <1>7 DEF Refused
  <2>2. n \notin pending
    BY <1>1 DEF Samples
  <2> QED
    BY <1>1, <2>1, <2>2
<1> QED
  BY <1>4, <1>5, <1>6, <1>7 DEF OfferHistory

----------------------------------------------------------------------------
(* Steps that the history of samples does not notice. *)

\* The reader's other steps and those of the shutdown: no sample is taken or written.
Quiet == /\ UNCHANGED <<accepted, queue, workers>>
         /\ (accepting' => accepting) /\ (cut => cut')

LEMMA QuietSteps ==
  ASSUME \/ Connect \/ Sours \/ Drops \/ Skips \/ Passes \/ IdleTimeout \/ ReaderEnds
         \/ Ending \/ UNCHANGED vars,
         TypeOK
  PROVE  /\ Quiet
         /\ feed' \in {"down", "up", "over"} /\ healthy' \in BOOLEAN /\ idle' \in 0..IdleMax
         /\ accepting' \in BOOLEAN /\ stop' \in BOOLEAN /\ cut' \in BOOLEAN
<1>0. /\ IdleMax \in Nat \ {0} /\ idle \in 0..IdleMax /\ feed \in {"down", "up", "over"}
      /\ healthy \in BOOLEAN /\ accepting \in BOOLEAN /\ stop \in BOOLEAN /\ cut \in BOOLEAN
  BY DeliveryLimits DEF TypeOK
<1> USE <1>0 DEF Quiet, reader, queue, workers, ending
<1>1. CASE Connect
  BY <1>1 DEF Connect, ReaderKeeps
<1>2. CASE Sours
  BY <1>2 DEF Sours, ReaderKeeps
<1>3. CASE Leaves("down") /\ ReaderKeeps
  <2>1. feed' = "down" /\ healthy' = FALSE /\ idle' = 0
    BY <1>3 DEF Leaves
  <2>2. idle' \in 0..IdleMax
    BY <2>1
  <2>3. healthy' \in BOOLEAN
    BY <2>1, Zenon
  <2> QED
    BY <1>3, <2>1, <2>2, <2>3 DEF ReaderKeeps
<1>4. CASE Leaves("over") /\ ReaderKeeps
  <2>1. feed' = "over" /\ healthy' = FALSE /\ idle' = 0
    BY <1>4 DEF Leaves
  <2>2. idle' \in 0..IdleMax
    BY <2>1
  <2>3. healthy' \in BOOLEAN
    BY <2>1, Zenon
  <2> QED
    BY <1>4, <2>1, <2>2, <2>3 DEF ReaderKeeps
<1>5. Drops \/ IdleTimeout \/ ReaderEnds => (Leaves("down") \/ Leaves("over")) /\ ReaderKeeps
  BY DEF Drops, IdleTimeout, ReaderEnds
<1>6. CASE Passes
  BY <1>6 DEF Passes, ReaderKeeps
<1>7. CASE Stop
  BY <1>7 DEF Stop
<1>8. CASE Close
  BY <1>8 DEF Close
<1>9. CASE DrainTimeout
  BY <1>9 DEF DrainTimeout
<1>10. CASE Skips \/ UNCHANGED vars
  BY <1>10 DEF Skips, vars
<1> QED
  BY <1>1, <1>2, <1>3, <1>4, <1>5, <1>6, <1>7, <1>8, <1>9, <1>10 DEF Ending

----------------------------------------------------------------------------
(* Types. *)

LEMMA TypeInit == Init => TypeOK
<1> SUFFICES ASSUME Init PROVE TypeOK
  OBVIOUS
<1>1. Len(accepted) = 0 /\ accepted \in Seq(Seconds)
  BY DEF Init
<1>2. Cardinality(pending) <= Capacity /\ 0 \in 0..IdleMax
  BY DeliveryLimits, FS_EmptySet DEF Init
<1>3. pending = {} /\ young = {} /\ lost = {} /\ inflight = 0 /\ attempted = 0 /\ live = 0
  BY DEF Init
<1>4. stored \in [Seconds -> 0..Len(accepted)]
  BY <1>1 DEF Init
<1>5. /\ pending \subseteq Samples /\ young \subseteq pending /\ lost \subseteq Samples
      /\ inflight \in {0} \cup Samples /\ attempted \in 0..Len(accepted) /\ live \in 0..Len(accepted)
      /\ \A i, j \in pending : accepted[i] = accepted[j] => i = j
  BY <1>1, <1>3
<1> QED
  BY <1>1, <1>2, <1>4, <1>5 DEF Init, TypeOK

\* A sample is accepted.
LEMMA TypeAccept ==
  ASSUME TypeOK, NEW s \in Seconds, Accept(s)
  PROVE  TypeOK'
<1> DEFINE n == Len(accepted) + 1
<1>1. /\ Len(accepted) \in Nat /\ accepted \in Seq(Seconds) /\ accepted' = Append(accepted, s)
      /\ OfferHistory(n, s) /\ pending \subseteq Samples
  BY DEF Accept, TypeOK
<1>2. /\ accepted' \in Seq(Seconds) /\ Len(accepted') = n /\ accepted'[n] = s
      /\ \A i \in Samples : accepted'[i] = accepted[i]
  BY <1>1 DEF Samples
<1>3. Samples' = Samples \cup {n} /\ n \notin Samples
  BY <1>1, <1>2 DEF Samples
<1>4. /\ pending' \subseteq pending \cup {n} /\ Cardinality(pending') <= Capacity
      /\ lost' \subseteq lost \cup pending \cup {n}
      /\ n \in pending' => \A i \in pending' \ {n} : accepted[i] # s
  BY <1>1, OfferKeepsBounds
<1>5. pending' \subseteq Samples' /\ lost' \subseteq Samples'
  BY <1>1, <1>3, <1>4 DEF TypeOK
<1>6. \A i, j \in pending' : accepted'[i] = accepted'[j] => i = j
  <2> SUFFICES ASSUME NEW i \in pending', NEW j \in pending', accepted'[i] = accepted'[j]
               PROVE  i = j
    OBVIOUS
  <2>1. CASE i # n /\ j # n
    BY <1>1, <1>2, <1>4, <2>1 DEF TypeOK
  <2>2. CASE i = n /\ j # n
    BY <1>1, <1>2, <1>4, <2>2
  <2>3. CASE i # n /\ j = n
    BY <1>1, <1>2, <1>4, <2>3
  <2> QED
    BY <2>1, <2>2, <2>3
<1>7. young' \subseteq pending' /\ UNCHANGED <<feed, healthy, accepting, inflight, workers, ending>>
  BY DEF Accept
<1>8. idle' = 0 /\ 0 \in 0..IdleMax
  BY DeliveryLimits DEF Accept
<1>9. 0..Len(accepted) \subseteq 0..Len(accepted')
  BY <1>1, <1>2
<1>10. /\ stored' \in [Seconds -> 0..Len(accepted')] /\ attempted' \in 0..Len(accepted')
       /\ live' \in 0..Len(accepted') /\ inflight' \in {0} \cup Samples'
  BY <1>3, <1>7, <1>9 DEF TypeOK, workers
<1> QED
  BY <1>2, <1>4, <1>5, <1>6, <1>7, <1>8, <1>10 DEF TypeOK, workers, ending

\* The live worker's steps.
LEMMA TypeLive ==
  ASSUME TypeOK, Live
  PROVE  TypeOK'
<1>1. /\ UNCHANGED <<reader, accepting, accepted, queue, historyPc, stored, faults, ending>>
      /\ attempted' \in {attempted, live} /\ live' \in {live, Len(accepted)}
      /\ livePc' \in {"wait", "write", "done"}
  BY DEF Live, LiveTakes, LiveAttempted, LiveEnds, LiveCut, LiveKeeps
<1>2. Len(accepted) \in Nat
  BY DEF TypeOK
<1> QED
  BY <1>1, <1>2 DEF TypeOK, Samples, reader, queue, ending

\* A write of the sample in flight, if it has an effect.
LEMMA TypeUpserted ==
  ASSUME TypeOK, NEW effect \in BOOLEAN
  PROVE  Upserted(effect) \in [Seconds -> 0..Len(accepted)]
<1>1. inflight \in 0..Len(accepted) /\ stored \in [Seconds -> 0..Len(accepted)]
  BY DEF TypeOK, Samples
<1> QED
  BY <1>1 DEF Upserted

\* The history worker's steps.
LEMMA TypeHistory ==
  ASSUME TypeOK, History
  PROVE  TypeOK'
<1>1. UNCHANGED <<reader, accepting, accepted, attempted, livePc, live, ending>>
  BY DEF History, Pick, Begin, Written, Failed, Retry, HistoryEnds, HistoryCut, HistoryKeeps, Settles,
         workers
<1>2. /\ pending' \subseteq pending /\ young' \subseteq pending' /\ lost' = lost
      /\ historyPc' \in {"pick", "held", "write", "retry", "done"}
  BY DEF TypeOK, History, Pick, Begin, Written, Failed, Retry, HistoryEnds, HistoryCut, Settles, queue,
         workers
<1>3. inflight' \in {0, inflight} \cup pending
  BY DEF History, Pick, Begin, Written, Failed, Retry, HistoryEnds, HistoryCut, Settles, queue
<1>4. faults' \in {faults, faults + 1}
  BY DEF History, Pick, Begin, Written, Failed, Retry, HistoryEnds, HistoryCut, Settles, workers
<1>5. stored' = stored \/ \E effect \in BOOLEAN : stored' = Upserted(effect)
  BY DEF History, Pick, Begin, Written, Failed, Retry, HistoryEnds, HistoryCut, Settles, workers
<1>6. stored' \in [Seconds -> 0..Len(accepted)]
  BY <1>5, TypeUpserted DEF TypeOK
<1>7. Cardinality(pending') <= Capacity
  <2>1. /\ Len(accepted) \in Nat /\ pending \subseteq 1..Len(accepted) /\ Capacity \in Nat
        /\ Cardinality(pending) <= Capacity
    BY DeliveryLimits DEF TypeOK, Samples
  <2>0. IsFiniteSet(1..Len(accepted))
    BY <2>1, FS_Interval
  <2>2. IsFiniteSet(pending)
    BY <2>0, <2>1, FS_Subset
  <2>3. IsFiniteSet(pending') /\ Cardinality(pending') <= Cardinality(pending)
    BY <1>2, <2>2, FS_Subset
  <2>4. Cardinality(pending') \in Nat /\ Cardinality(pending) \in Nat
    BY <2>2, <2>3, FS_CardinalityType
  <2> QED
    BY <2>1, <2>3, <2>4
<1>8. faults' \in Nat
  BY <1>4 DEF TypeOK
<1>9. Samples' = Samples
  BY <1>1 DEF Samples
<1> QED
  BY <1>1, <1>2, <1>3, <1>6, <1>7, <1>8, <1>9 DEF TypeOK, reader, ending

LEMMA TypeStep ==
  ASSUME TypeOK, [Next]_vars
  PROVE  TypeOK'
<1>1. CASE \/ Connect \/ Sours \/ Drops \/ Skips \/ Passes \/ IdleTimeout \/ ReaderEnds
           \/ Ending \/ UNCHANGED vars
  BY <1>1, QuietSteps DEF TypeOK, Quiet, Samples, queue, workers
<1>2. ASSUME NEW s \in Seconds, Accept(s) PROVE TypeOK'
  BY <1>2, TypeAccept
<1> QED
  BY <1>1, <1>2, TypeLive, TypeHistory DEF Next, Reader

\* The bounds of the delivery state hold in every reachable state: no more pending seconds than
\* the capacity, one sample of a second, nothing pending, in flight or stored that was not
\* accepted (ChainlinkDeliveryState).
THEOREM TypeCorrect == Spec => []TypeOK
<1>1. Init => TypeOK
  BY TypeInit
<1>2. TypeOK /\ [Next]_vars => TypeOK'
  BY TypeStep
<1> QED
  BY <1>1, <1>2, PTL DEF Spec

----------------------------------------------------------------------------
(* Live before history. *)

\* A history write has seen its sample attempted; the live worker only moves on to newer samples.
Begun == /\ historyPc \in {"held", "write"} => inflight \in Samples
         /\ historyPc = "write" => inflight <= attempted
         /\ livePc = "write" => attempted <= live

LiveInv == TypeOK /\ Begun /\ LiveFirst

LEMMA LiveInit == Init => LiveInv
<1> SUFFICES ASSUME Init PROVE Begun /\ LiveFirst
  BY TypeInit DEF LiveInv
<1> QED
  BY DEF Init, Begun, LiveFirst

LEMMA LiveStep ==
  ASSUME LiveInv, [Next]_vars
  PROVE  LiveInv'
<1>1. TypeOK' /\ TypeOK /\ Begun /\ LiveFirst
  BY TypeStep DEF LiveInv
<1>2. /\ Len(accepted) \in Nat /\ attempted \in 0..Len(accepted) /\ live \in 0..Len(accepted)
      /\ stored \in [Seconds -> 0..Len(accepted)] /\ pending \subseteq Samples
      /\ accepted \in Seq(Seconds) /\ inflight \in {0} \cup Samples
  BY <1>1 DEF TypeOK
<1>3. CASE \/ Connect \/ Sours \/ Drops \/ Skips \/ Passes \/ IdleTimeout \/ ReaderEnds
           \/ Ending \/ UNCHANGED vars
  BY <1>1, <1>3, QuietSteps DEF LiveInv, Begun, LiveFirst, Quiet, Samples, queue, workers
<1>4. ASSUME NEW s \in Seconds, Accept(s) PROVE LiveInv'
  <2>1. accepted' = Append(accepted, s) /\ UNCHANGED <<inflight, workers>>
    BY <1>4 DEF Accept
  <2>2. Samples \subseteq Samples'
    BY <1>2, <2>1 DEF Samples
  <2> QED
    BY <1>1, <2>1, <2>2 DEF LiveInv, Begun, LiveFirst, workers
<1>5. CASE Live
  <2>1. UNCHANGED <<accepted, queue, historyPc, stored>>
    BY <1>5 DEF Live, LiveTakes, LiveAttempted, LiveEnds, LiveCut, LiveKeeps
  <2>2. /\ attempted <= attempted' /\ (livePc' = "write" => attempted' <= live')
    <3>1. CASE LiveTakes
      BY <1>2, <3>1 DEF LiveTakes
    <3>2. CASE LiveAttempted
      BY <1>1, <1>2, <3>2 DEF LiveAttempted, Begun
    <3>3. CASE LiveEnds \/ LiveCut
      BY <1>2, <3>3 DEF LiveEnds, LiveCut
    <3> QED
      BY <1>5, <3>1, <3>2, <3>3 DEF Live
  <2>3. attempted' \in Nat /\ attempted \in Nat
    BY <1>1, <1>2, <2>1 DEF TypeOK
  <2>4. Begun'
    BY <1>1, <1>2, <2>1, <2>2, <2>3 DEF Begun, Samples, queue
  <2>5. LiveFirst'
    BY <1>1, <1>2, <2>1, <2>2, <2>3 DEF LiveFirst
  <2> QED
    BY <1>1, <2>4, <2>5 DEF LiveInv
<1>6. CASE History
  <2>1. UNCHANGED <<accepted, attempted, livePc, live>>
    BY <1>6 DEF History, Pick, Begin, Written, Failed, Retry, HistoryEnds, HistoryCut, HistoryKeeps,
                Settles, workers
  <2>2. /\ historyPc' \in {"held", "write"} => inflight' \in Samples
        /\ historyPc' = "write" => inflight' <= attempted
    <3>1. CASE Pick
      BY <1>2, <3>1 DEF Pick
    <3>2. CASE Begin
      BY <1>1, <1>2, <3>2 DEF Begin, Begun, queue
    <3>3. CASE Written \/ Failed \/ Retry \/ HistoryEnds \/ HistoryCut
      BY <3>3 DEF Written, Failed, Retry, HistoryEnds, HistoryCut
    <3>4. CASE \E i \in Samples : Settles(i)
      BY <1>1, <3>4 DEF Settles, Begun, workers
    <3> QED
      BY <1>6, <3>1, <3>2, <3>3, <3>4 DEF History
  <2>3. Begun'
    BY <1>1, <2>1, <2>2 DEF Begun, Samples
  <2>4. \/ stored' = stored
        \/ historyPc = "write" /\ \E effect \in BOOLEAN : stored' = Upserted(effect)
    BY <1>6 DEF History, Pick, Begin, Written, Failed, Retry, HistoryEnds, HistoryCut, Settles, workers
  <2>5. LiveFirst'
    BY <1>1, <1>2, <2>1, <2>4 DEF LiveFirst, Begun, Upserted
  <2> QED
    BY <1>1, <2>3, <2>5 DEF LiveInv
<1> QED
  BY <1>3, <1>4, <1>5, <1>6 DEF Next, Reader

\* A price is in PostgreSQL only after it, or a later one, was offered to Redis
\* (wait_until_live_attempted in chainlink_history_worker).
THEOREM LiveBeforeHistory == Spec => []LiveFirst
<1>1. Init => LiveInv
  BY LiveInit
<1>2. LiveInv /\ [Next]_vars => LiveInv'
  BY LiveStep
<1>3. LiveInv => LiveFirst
  BY DEF LiveInv
<1> QED
  BY <1>1, <1>2, <1>3, PTL DEF Spec

----------------------------------------------------------------------------
(* Nothing is forgotten. *)

\* A second is written in the order of its samples, although a newer one may arrive during the
\* write; the history worker ends by itself only when nothing more can be accepted.
Order == /\ \A i \in pending : stored[accepted[i]] <= i
         /\ inflight # 0 => /\ stored[accepted[inflight]] <= inflight
                            /\ \A j \in pending : accepted[j] = accepted[inflight] => inflight <= j
         /\ historyPc = "done" /\ ~cut => ~accepting

\* The first part of NothingForgotten, for one sample.
Kept(i) == \/ i \in pending \cup lost \/ stored[accepted[i]] = i
           \/ \E j \in Samples : i < j /\ accepted[i] = accepted[j]

KeepInv == TypeOK /\ Begun /\ Order /\ NothingForgotten

LEMMA KeepInit == Init => KeepInv
<1> SUFFICES ASSUME Init PROVE Order /\ NothingForgotten
  BY TypeInit, LiveInit DEF KeepInv, LiveInv
<1>1. Samples = {} /\ pending = {} /\ inflight = 0 /\ historyPc = "pick"
  BY DEF Init, Samples
<1> QED
  BY <1>1 DEF Order, NothingForgotten

\* The history worker ends only when nothing is pending or can still arrive.
EndsInOrder ==
  /\ accepting' => accepting
  /\ historyPc' = "done" /\ ~cut' => (historyPc = "done" /\ ~cut) \/ (pending = {} /\ ~accepting)

\* The steps that neither accept nor write a sample.
LEMMA KeepUnwritten ==
  ASSUME KeepInv, UNCHANGED <<accepted, pending, lost, stored>>,
         inflight' = inflight \/ inflight' = 0 \/ inflight' \in pending,
         EndsInOrder
  PROVE  Order' /\ NothingForgotten'
<1>1. /\ Samples' = Samples /\ Order /\ NothingForgotten /\ pending \subseteq Samples
      /\ \A i, j \in pending : accepted[i] = accepted[j] => i = j
  BY DEF KeepInv, TypeOK, Samples
<1>2. Order'
  <2>1. \A i \in pending' : stored'[accepted'[i]] <= i
    BY <1>1 DEF Order
  <2>2. inflight' # 0 => /\ stored'[accepted'[inflight']] <= inflight'
                         /\ \A j \in pending' : accepted'[j] = accepted'[inflight'] => inflight' <= j
    <3>1. CASE inflight' \in pending
      <4>1. stored[accepted[inflight']] <= inflight'
        BY <1>1, <3>1 DEF Order
      <4>2. \A j \in pending : accepted[j] = accepted[inflight'] => inflight' = j
        BY <1>1, <3>1
      <4>3. \A j \in pending : j \in Int
        BY <1>1 DEF Samples
      <4> QED
        BY <3>1, <4>1, <4>2, <4>3
    <3> QED
      BY <1>1, <3>1 DEF Order
  <2>3. historyPc = "done" /\ ~cut => ~accepting
    BY <1>1 DEF Order
  <2>4. historyPc' = "done" /\ ~cut' => ~accepting'
    BY <2>3, Zenon DEF EndsInOrder
  <2> QED
    BY <2>1, <2>2, <2>4 DEF Order
<1>3. historyPc = "done" /\ ~cut => pending = {}
  BY <1>1 DEF NothingForgotten
<1>4. historyPc' = "done" /\ ~cut' => pending' = {}
  BY <1>3, Zenon DEF EndsInOrder
<1>5. ASSUME NEW i \in Samples PROVE Kept(i)'
  <2>1. Kept(i)
    BY <1>1 DEF NothingForgotten, Kept
  <2> QED
    BY <1>1, <2>1 DEF Kept
<1> QED
  BY <1>1, <1>2, <1>4, <1>5 DEF NothingForgotten, Kept

\* The write of the sample in flight, whether it succeeds, fails or is cut.
LEMMA KeepWrite ==
  ASSUME KeepInv, historyPc = "write", UNCHANGED <<accepted, lost, cut, accepting>>,
         inflight' = 0, NEW effect \in BOOLEAN, stored' = Upserted(effect),
         pending' = pending \/ (effect /\ pending' = pending \ {inflight}),
         historyPc' = "done" => cut
  PROVE  Order' /\ NothingForgotten'
<1>1. /\ Order /\ NothingForgotten /\ inflight \in Samples /\ Samples' = Samples
      /\ pending \subseteq Samples /\ Len(accepted) \in Nat /\ accepted \in Seq(Seconds)
      /\ stored \in [Seconds -> 0..Len(accepted)]
  BY DEF KeepInv, TypeOK, Begun, Samples
<1>2. /\ inflight # 0 /\ stored[accepted[inflight]] <= inflight /\ accepted[inflight] \in Seconds
      /\ \A j \in pending : accepted[j] = accepted[inflight] => inflight <= j
  BY <1>1 DEF Order, Samples
<1>3. \A i \in Samples : accepted[i] \in Seconds /\ i \in Nat
  BY <1>1 DEF Samples
<1>4. \A s \in Seconds : \/ stored'[s] = stored[s]
                         \/ effect /\ s = accepted[inflight] /\ stored'[s] = inflight
  BY <1>1, <1>2 DEF Upserted
<1>5. effect => stored'[accepted[inflight]] = inflight
  BY <1>1, <1>2 DEF Upserted
<1>6. Order'
  <2>1. \A i \in pending' : stored'[accepted'[i]] <= i
    BY <1>1, <1>2, <1>3, <1>4 DEF Order
  <2> QED
    BY <2>1 DEF Order
<1>7. ASSUME NEW i \in Samples PROVE Kept(i)'
  <2>1. Kept(i) /\ accepted'[i] = accepted[i] /\ accepted[i] \in Seconds /\ i \in Nat /\ inflight \in Nat
    BY <1>1, <1>3 DEF NothingForgotten, Kept
  <2>2. CASE i \in pending \cup lost
    BY <1>5, <2>1, <2>2 DEF Kept
  <2>3. CASE stored[accepted[i]] = i
    <3>1. CASE stored'[accepted[i]] = stored[accepted[i]]
      BY <2>1, <2>3, <3>1 DEF Kept
    <3>2. CASE accepted[i] = accepted[inflight] /\ stored'[accepted[i]] = inflight
      <4>1. i <= inflight
        BY <1>2, <2>3, <3>2
      <4>2. i = inflight \/ i < inflight
        BY <2>1, <4>1
      <4> QED
        BY <1>1, <2>1, <3>2, <4>2 DEF Kept
    <3> QED
      BY <1>4, <2>1, <3>1, <3>2
  <2>4. CASE \E j \in Samples : i < j /\ accepted[i] = accepted[j]
    BY <1>1, <2>1, <2>4 DEF Kept
  <2> QED
    BY <2>1, <2>2, <2>3, <2>4 DEF Kept
<1> QED
  BY <1>1, <1>6, <1>7 DEF NothingForgotten, Kept

\* A sample is accepted.
LEMMA KeepAccept ==
  ASSUME KeepInv, NEW s \in Seconds, Accept(s)
  PROVE  Order' /\ NothingForgotten'
<1> DEFINE n == Len(accepted) + 1
<1>1. /\ Order /\ NothingForgotten /\ pending \subseteq Samples /\ inflight \in {0} \cup Samples
      /\ Len(accepted) \in Nat /\ accepted \in Seq(Seconds) /\ accepted' = Append(accepted, s)
      /\ stored \in [Seconds -> 0..Len(accepted)] /\ TypeOK
      /\ OfferHistory(n, s) /\ UNCHANGED <<inflight, stored, accepting, cut, historyPc>> /\ accepting
  BY DEF KeepInv, TypeOK, Accept, workers, ending
<1>2. accepted'[n] = s /\ \A i \in Samples : accepted'[i] = accepted[i]
  BY <1>1 DEF Samples
<1>3. Samples' = Samples \cup {n} /\ (\A i \in Samples : i < n /\ i \in Nat) /\ n \in Nat
  BY <1>1 DEF Samples
<1>4. /\ pending' \subseteq pending \cup {n} /\ lost \subseteq lost' /\ n \in pending' \cup lost'
      /\ \A i \in pending \ pending' : i \in lost' \/ accepted[i] = s
  BY <1>1, OfferKeepsBounds
<1>5. historyPc = "done" => cut
  BY <1>1 DEF Order
<1>6. Order'
  <2>1. stored[s] <= n /\ stored[s] \in Nat
    BY <1>1, <1>3
  <2>2. ASSUME NEW i \in pending' PROVE stored'[accepted'[i]] <= i
    <3>1. CASE i = n
      BY <1>1, <1>2, <2>1, <3>1
    <3>2. CASE i \in pending
      <4>1. accepted'[i] = accepted[i] /\ stored[accepted[i]] <= i
        BY <1>1, <1>2, <3>2 DEF Order
      <4> QED
        BY <1>1, <4>1
    <3> QED
      BY <1>4, <3>1, <3>2
  <2>3. inflight # 0 => /\ stored'[accepted'[inflight]] <= inflight
                        /\ \A j \in pending' : accepted'[j] = accepted'[inflight] => inflight <= j
    <3> SUFFICES ASSUME inflight # 0
                 PROVE  /\ stored'[accepted'[inflight]] <= inflight
                        /\ \A j \in pending' : accepted'[j] = accepted'[inflight] => inflight <= j
      OBVIOUS
    <3>1. /\ inflight \in Samples /\ stored[accepted[inflight]] <= inflight
          /\ \A j \in pending : accepted[j] = accepted[inflight] => inflight <= j
      BY <1>1 DEF Order
    <3>2. inflight <= n /\ accepted'[inflight] = accepted[inflight]
      BY <1>2, <1>3, <3>1
    <3>3. \A j \in pending : accepted'[j] = accepted[j]
      BY <1>1, <1>2
    <3>4. stored'[accepted'[inflight]] <= inflight
      BY <1>1, <3>1, <3>2
    <3>5. \A j \in pending' : accepted'[j] = accepted'[inflight] => inflight <= j
      BY <1>4, <3>1, <3>2, <3>3
    <3> QED
      BY <3>4, <3>5
  <2> QED
    BY <1>1, <1>5, <2>2, <2>3 DEF Order
<1>7. ASSUME NEW i \in Samples' PROVE Kept(i)'
  <2>1. CASE i = n
    BY <1>4, <2>1 DEF Kept
  <2>2. CASE i \in Samples
    <3>1. Kept(i) /\ accepted'[i] = accepted[i] /\ i < n
      BY <1>1, <1>2, <1>3, <2>2 DEF NothingForgotten, Kept
    <3>2. CASE i \in pending
      BY <1>2, <1>3, <1>4, <3>1, <3>2 DEF Kept
    <3>3. CASE i \in lost
      BY <1>4, <3>3 DEF Kept
    <3>4. CASE stored[accepted[i]] = i
      BY <1>1, <3>1, <3>4 DEF Kept
    <3>5. CASE \E j \in Samples : i < j /\ accepted[i] = accepted[j]
      BY <1>2, <1>3, <3>1, <3>5 DEF Kept
    <3> QED
      BY <3>1, <3>2, <3>3, <3>4, <3>5 DEF Kept
  <2> QED
    BY <1>3, <2>1, <2>2
<1> QED
  BY <1>1, <1>5, <1>6, <1>7 DEF NothingForgotten, Kept

LEMMA KeepStep ==
  ASSUME KeepInv, LiveInv, [Next]_vars
  PROVE  KeepInv'
<1>1. TypeOK' /\ Begun'
  BY LiveStep DEF LiveInv
<1>2. CASE \/ Connect \/ Sours \/ Drops \/ Skips \/ Passes \/ IdleTimeout \/ ReaderEnds
           \/ Ending \/ UNCHANGED vars
  <2>1. Quiet
    BY <1>2, QuietSteps DEF KeepInv
  <2>2. /\ UNCHANGED <<accepted, pending, lost, stored, inflight, historyPc>>
        /\ (accepting' => accepting) /\ (cut => cut')
    BY <2>1 DEF Quiet, queue, workers
  <2>3. EndsInOrder
    BY <2>2, Zenon DEF EndsInOrder
  <2>4. KeepInv
    OBVIOUS
  <2>5. Order' /\ NothingForgotten'
    BY <2>2, <2>3, <2>4, KeepUnwritten
  <2> QED
    BY <1>1, <2>5 DEF KeepInv
<1>3. ASSUME NEW s \in Seconds, Accept(s) PROVE KeepInv'
  BY <1>1, <1>3, KeepAccept DEF KeepInv
<1>4. CASE Live
  <2>1. UNCHANGED <<accepted, pending, lost, stored, inflight, historyPc, accepting, cut>>
    BY <1>4 DEF Live, LiveTakes, LiveAttempted, LiveEnds, LiveCut, LiveKeeps, queue, ending
  <2>2. EndsInOrder
    BY <2>1, Zenon DEF EndsInOrder
  <2>3. Order' /\ NothingForgotten'
    BY <2>1, <2>2, KeepUnwritten
  <2> QED
    BY <1>1, <2>3 DEF KeepInv
<1>5. CASE History
  <2>1. UNCHANGED <<accepted, accepting, cut>>
    BY <1>5 DEF History, Pick, Begin, Written, Failed, Retry, HistoryEnds, HistoryCut, HistoryKeeps,
                Settles, ending
  <2>2. CASE Pick \/ Begin \/ Retry \/ HistoryEnds \/ \E i \in Samples : Settles(i)
    <3>1. /\ UNCHANGED <<pending, lost, stored>> /\ (inflight' = inflight \/ inflight' \in pending)
          /\ (historyPc' = "done" => historyPc = "done" \/ (pending = {} /\ ~accepting))
      <4>1. CASE Pick
        BY <4>1 DEF Pick
      <4>2. CASE Begin \/ Retry \/ HistoryEnds
        BY <4>2 DEF Begin, Retry, HistoryEnds, queue
      <4>3. CASE \E i \in Samples : Settles(i)
        BY <4>3 DEF Settles, workers
      <4> QED
        BY <2>2, <4>1, <4>2, <4>3
    <3>2. EndsInOrder
      BY <2>1, <3>1, Zenon DEF EndsInOrder
    <3> QED
      BY <1>1, <2>1, <3>1, <3>2, KeepUnwritten DEF KeepInv
  <2>3. CASE Written
    <3>1. /\ historyPc = "write" /\ historyPc' = "pick" /\ inflight' = 0 /\ lost' = lost
          /\ stored' = Upserted(TRUE) /\ pending' = pending \ {inflight}
      BY <2>3 DEF Written
    <3> QED
      BY <1>1, <2>1, <3>1, KeepWrite DEF KeepInv
  <2>4. CASE Failed
    <3>1. PICK effect \in BOOLEAN : stored' = Upserted(effect)
      BY <2>4 DEF Failed
    <3>2. /\ historyPc = "write" /\ historyPc' = "retry" /\ inflight' = 0
          /\ lost' = lost /\ pending' = pending
      BY <2>4 DEF Failed
    <3>3. historyPc' = "done" => cut
      BY <3>2
    <3>4. pending' = pending \/ (effect /\ pending' = pending \ {inflight})
      BY <3>2, Zenon
    <3>5. Order' /\ NothingForgotten'
      BY <2>1, <3>1, <3>2, <3>3, <3>4, KeepWrite, Zenon
    <3> QED
      BY <1>1, <3>5 DEF KeepInv
  <2>5. CASE HistoryCut /\ historyPc = "write"
    <3>1. PICK effect \in BOOLEAN : stored' = Upserted(effect)
      BY <2>5 DEF HistoryCut
    <3>2. cut /\ inflight' = 0 /\ lost' = lost /\ pending' = pending
      BY <2>5 DEF HistoryCut
    <3>3. /\ pending' = pending \/ (effect /\ pending' = pending \ {inflight})
          /\ historyPc' = "done" => cut
      BY <3>2, Zenon
    <3>4. Order' /\ NothingForgotten'
      BY <2>1, <2>5, <3>1, <3>2, <3>3, KeepWrite, Zenon
    <3> QED
      BY <1>1, <3>4 DEF KeepInv
  <2>6. CASE HistoryCut /\ historyPc # "write"
    <3>1. cut /\ UNCHANGED <<pending, lost, stored, inflight>>
      BY <2>6 DEF HistoryCut
    <3>2. EndsInOrder
      BY <2>1, <3>1, Zenon DEF EndsInOrder
    <3> QED
      BY <1>1, <2>1, <3>1, <3>2, KeepUnwritten DEF KeepInv
  <2> QED
    BY <1>5, <2>2, <2>3, <2>4, <2>5, <2>6 DEF History
<1> QED
  BY <1>2, <1>3, <1>4, <1>5 DEF Next, Reader

\* The newest sample of a second is stored, pending or counted as dropped, and a worker that ends
\* by itself leaves nothing pending (offer_history, mark_history_succeeded, mark_history_failed).
THEOREM NewestIsNeverForgotten == Spec => []NothingForgotten
<1>1. Init => KeepInv /\ LiveInv
  BY KeepInit, LiveInit
<1>2. KeepInv /\ LiveInv /\ [Next]_vars => (KeepInv /\ LiveInv)'
  BY KeepStep, LiveStep
<1>3. KeepInv => NothingForgotten
  BY DEF KeepInv
<1> QED
  BY <1>1, <1>2, <1>3, PTL DEF Spec
----------------------------------------------------------------------------
(* Microstructure: the way of a finished row. *)

\* A row leaves the worker's hand for the queue, and the queue for the writer; every second on the
\* way is over, was finalised, and is younger than what has been given up.
RowTypes ==
  /\ now \in Nat /\ next \in Nat \ {0} /\ rows \in Seq(Nat)
  /\ {hand, writing, gone} \subseteq Nat \cup {Never}

RowsAreOver ==
  /\ \A i \in 1..Len(rows) : rows[i] < now /\ rows[i] < next - 1
  /\ \A r \in {hand, writing, gone} : r < now /\ r < next - 1

RowsInOrder ==
  /\ \A i, j \in 1..Len(rows) : i < j => rows[i] < rows[j]
  /\ \A i \in 1..Len(rows) : writing < rows[i] /\ gone < rows[i] /\ (hand # Never => rows[i] < hand)
  /\ hand # Never => writing < hand /\ gone < hand

Queued == {rows[i] : i \in 1..Len(rows)}

RowsInv ==
  /\ RowTypes /\ RowsAreOver /\ RowsInOrder
  /\ hand # Never <=> worker = "publishes"
  /\ due = Queued \cup ({hand, writing} \ {Never})

LEMMA RowsInit == MicroInit => RowsInv
  BY DEF MicroInit, RowsInv, RowTypes, RowsAreOver, RowsInOrder, Queued, Never

\* Steps that move no row.
RowsRest ==
  /\ UNCHANGED history
  /\ now' \in Nat /\ now <= now' /\ next' \in Nat \ {0}
  /\ next <= next' \/ next' = now + 1
  /\ worker' = "publishes" <=> worker = "publishes"

LEMMA StillOver ==
  ASSUME NEW t \in Nat, NEW t2 \in Nat, t <= t2, NEW n \in Nat, NEW n2 \in Nat, n <= n2 \/ n2 = t + 1,
         NEW r \in Int, r < t, r < n - 1
  PROVE  r < t2 /\ r < n2 - 1
  OBVIOUS

LEMMA RestKeepsRows == ASSUME RowsInv, RowsRest PROVE RowsInv'
<1>1. /\ rows' = rows /\ hand' = hand /\ writing' = writing /\ due' = due /\ gone' = gone
  BY DEF RowsRest, history
<1>2. RowTypes'
  BY <1>1 DEF RowsRest, RowsInv, RowTypes
<1>3. RowsAreOver'
  <2>0. /\ now \in Nat /\ now' \in Nat /\ now <= now' /\ next \in Nat /\ next' \in Nat
        /\ next <= next' \/ next' = now + 1
    BY DEF RowsRest, RowsInv, RowTypes
  <2>1. \A r \in Int : r < now /\ r < next - 1 => r < now' /\ r < next' - 1
    BY <2>0, StillOver
  <2>2. \A i \in 1..Len(rows) : rows[i] \in Nat
    BY DEF RowsInv, RowTypes
  <2>3. hand \in Int /\ writing \in Int /\ gone \in Int
    BY DEF RowsInv, RowTypes, Never
  <2> QED
    BY <1>1, <2>1, <2>2, <2>3 DEF RowsInv, RowsAreOver
<1>4. RowsInOrder' /\ due' = Queued' \cup ({hand', writing'} \ {Never})
  BY <1>1 DEF RowsInv, RowsInOrder, Queued
<1> QED
  BY <1>1, <1>2, <1>3, <1>4 DEF RowsInv, RowsRest

LEMMA ReadersMoveNoRow == ASSUME RowsInv, Tick \/ Readers PROVE RowsRest
<1>1. UNCHANGED <<history, next, worker>> /\ now' \in {now, now + 1}
  <2>1. CASE Tick
    BY <2>1 DEF Tick, heap
  <2>2. CASE Readers
    BY <2>2 DEF Readers, Connects, Disconnects, BeginsClosing, HandshakeEnds, ConnectFails, Receives, Rejects,
             Transition, ghosts, heap
  <2> QED
    BY <2>1, <2>2
<1> QED
  BY <1>1 DEF RowsRest, RowsInv, RowTypes

LEMMA RuntimeMovesNoRow == ASSUME RowsInv, Stages \/ FailsApplying \/ Rebases \/ Restarts PROVE RowsRest
<1>1. CASE Stages
  BY <1>1 DEF Stages, RowsRest, RowsInv, RowTypes
<1>2. CASE FailsApplying
  <2>1. \E gap : Fails(gap)
    BY <1>2 DEF FailsApplying
  <2> QED
    BY <2>1 DEF Fails, RowsRest, RowsInv, RowTypes
<1>3. CASE Rebases
  BY <1>3 DEF Rebases, Rebase, heap, RowsRest, RowsInv, RowTypes
<1>4. CASE Restarts
  BY <1>4 DEF Restarts, RowsRest, RowsInv, RowTypes
<1> QED
  BY <1>1, <1>2, <1>3, <1>4

LEMMA FinalizesKeepsRows == ASSUME RowsInv, Finalizes PROVE RowsInv'
<1>1. /\ hand = Never /\ next <= now /\ next' = next + 1 /\ hand' = next - 1 /\ worker' = "publishes"
      /\ due' = due \cup {next - 1} /\ UNCHANGED <<now, rows, writing, gone>>
  BY DEF Finalizes, RowsInv
<1>2. RowTypes'
  BY <1>1 DEF RowsInv, RowTypes
<1>3. \A i \in 1..Len(rows) : rows[i] \in Nat
  BY DEF RowsInv, RowTypes
<1>4. RowsAreOver' /\ RowsInOrder'
  BY <1>1, <1>3 DEF RowsInv, RowTypes, RowsAreOver, RowsInOrder, Never
<1>5. hand' # Never
  BY <1>1 DEF RowsInv, RowTypes, Never
<1> QED
  BY <1>1, <1>2, <1>4, <1>5 DEF RowsInv, Queued

\* What is accounted for is no longer due, and the newest of it is remembered.
LEMMA AccountsFor ==
  ASSUME NEW these \in SUBSET (Nat \cup {Never}), gone \in Nat \cup {Never}, Accounts(these)
  PROVE  /\ due' = due \ these /\ gone' \in Nat \cup {Never}
         /\ gone' \in these \cup {gone}
  BY DEF Accounts

\* The writer takes the head of the queue, or the full queue drops it.
LEMMA HeadAndTail ==
  ASSUME RowsInv, rows # <<>>
  PROVE  /\ Head(rows) = rows[1] /\ rows[1] \in Nat /\ 1 \in 1..Len(rows)
         /\ Tail(rows) \in Seq(Nat) /\ Len(Tail(rows)) = Len(rows) - 1
         /\ \A i \in 1..Len(Tail(rows)) : i + 1 \in 1..Len(rows) /\ Tail(rows)[i] = rows[i + 1]
         /\ Queued = {Tail(rows)[i] : i \in 1..Len(Tail(rows))} \cup {rows[1]}
<1>0. rows \in Seq(Nat)
  BY DEF RowsInv, RowTypes
<1>1. /\ Len(rows) \in Nat \ {0} /\ 1 \in 1..Len(rows) /\ Head(rows) = rows[1] /\ rows[1] \in Nat
      /\ Tail(rows) \in Seq(Nat) /\ Len(Tail(rows)) = Len(rows) - 1
  BY <1>0
<1>2. \A i \in 1..Len(Tail(rows)) : i + 1 \in 1..Len(rows) /\ Tail(rows)[i] = rows[i + 1]
  BY <1>0, <1>1
<1>3. \A k \in 1..Len(rows) : k # 1 => k - 1 \in 1..Len(Tail(rows)) /\ (k - 1) + 1 = k
  BY <1>1
<1>4. Queued \subseteq {Tail(rows)[i] : i \in 1..Len(Tail(rows))} \cup {rows[1]}
  BY <1>2, <1>3 DEF Queued
<1>5. {Tail(rows)[i] : i \in 1..Len(Tail(rows))} \cup {rows[1]} \subseteq Queued
  BY <1>1, <1>2 DEF Queued
<1> QED
  BY <1>1, <1>2, <1>4, <1>5

LEMMA TakesKeepsRows == ASSUME RowsInv, Takes PROVE RowsInv'
<1>1. /\ writing = Never /\ rows # <<>> /\ writing' = Head(rows) /\ rows' = Tail(rows)
      /\ UNCHANGED <<due, gone, hand, now, next, worker>>
  BY DEF Takes, WriterKeeps, heap
<1>2. /\ writing' = rows[1] /\ rows[1] \in Nat /\ 1 \in 1..Len(rows)
      /\ rows' \in Seq(Nat) /\ Len(rows') \in Nat
      /\ \A i \in 1..Len(rows') : i + 1 \in 1..Len(rows) /\ rows'[i] = rows[i + 1] /\ i \in Nat
      /\ Queued = Queued' \cup {rows[1]}
  <2>1. /\ writing' = rows[1] /\ rows[1] \in Nat /\ 1 \in 1..Len(rows)
        /\ rows' \in Seq(Nat) /\ Len(rows') \in Nat
        /\ \A i \in 1..Len(rows') : i + 1 \in 1..Len(rows) /\ rows'[i] = rows[i + 1]
    BY <1>1, HeadAndTail
  <2>2. Queued' = {Tail(rows)[i] : i \in 1..Len(Tail(rows))}
    BY <1>1 DEF Queued
  <2> QED
    BY <1>1, <2>1, <2>2, HeadAndTail
<1>3. RowTypes'
  BY <1>1, <1>2 DEF RowsInv, RowTypes
<1>4. RowsAreOver'
  BY <1>1, <1>2 DEF RowsInv, RowsAreOver
<1>5. \A i \in 1..Len(rows') : rows[1] < rows[i + 1]
  BY <1>2 DEF RowsInv, RowsInOrder
<1>6. \A i, j \in 1..Len(rows') : i < j => rows[i + 1] < rows[j + 1]
  BY <1>2 DEF RowsInv, RowsInOrder
<1>7. RowsInOrder'
  BY <1>1, <1>2, <1>5, <1>6 DEF RowsInv, RowsInOrder
<1>8. due' = Queued' \cup ({hand', writing'} \ {Never})
  <2>1. rows[1] # Never
    BY <1>2 DEF Never
  <2> QED
    BY <1>1, <1>2, <2>1 DEF RowsInv
<1> QED
  BY <1>1, <1>3, <1>4, <1>7, <1>8 DEF RowsInv

LEMMA ConcludesKeepsRows == ASSUME RowsInv, Concludes PROVE RowsInv'
<1>1. /\ writing # Never /\ writing' = Never /\ Accounts({writing})
      /\ UNCHANGED <<rows, hand, now, next, worker>>
  BY DEF Concludes, WriterKeeps, heap
<1>2. due' = due \ {writing} /\ gone' \in {writing, gone}
  BY <1>1 DEF Accounts
<1>3. RowTypes' /\ RowsAreOver'
  <2>1. RowTypes'
    BY <1>1, <1>2 DEF RowsInv, RowTypes
  <2>2. Never < now /\ Never < next - 1
    BY DEF RowsInv, RowTypes, Never
  <2>3. /\ \A i \in 1..Len(rows) : rows[i] < now /\ rows[i] < next - 1
        /\ \A r \in {hand, Never, writing, gone} : r < now /\ r < next - 1
    BY <2>2 DEF RowsInv, RowsAreOver
  <2>4. RowsAreOver'
    BY <1>1, <1>2, <2>3 DEF RowsAreOver
  <2> QED
    BY <2>1, <2>4
<1>4. \A i \in 1..Len(rows) : rows[i] \in Nat
  BY DEF RowsInv, RowTypes
<1>5. RowsInOrder'
  BY <1>1, <1>2, <1>4 DEF RowsInv, RowTypes, RowsInOrder, Never
<1>6. due' = Queued' \cup ({hand', writing'} \ {Never})
  <2>1. writing \notin Queued
    BY <1>4 DEF RowsInv, RowTypes, RowsInOrder, Queued
  <2>2. hand # Never => hand # writing
    BY DEF RowsInv, RowTypes, RowsInOrder, Never
  <2>3. Queued' = Queued
    BY <1>1 DEF Queued
  <2> QED
    BY <1>1, <1>2, <2>1, <2>2, <2>3 DEF RowsInv
<1> QED
  BY <1>1, <1>3, <1>5, <1>6 DEF RowsInv

LEMMA HeadMakesRoom ==
  ASSUME NEW s \in Seq(Nat), s # <<>>, NEW e \in Nat, NEW q, q = Append(Tail(s), e)
  PROVE  /\ q \in Seq(Nat) /\ Len(q) = Len(s) /\ q[Len(s)] = e
         /\ \A i \in 1..Len(s) : i # Len(s) => i + 1 \in 1..Len(s) /\ q[i] = s[i + 1]
  OBVIOUS

LEMMA EnqueueKeepsRows == ASSUME RowsInv, Published, RowsMax \in Nat \ {0} PROVE RowsInv'
<1>1. /\ worker = "publishes" /\ worker' = "runs" /\ Enqueue /\ hand' = Never
      /\ UNCHANGED <<now, next, writing>>
  BY DEF Published, heap
<1>2. /\ rows \in Seq(Nat) /\ Len(rows) \in Nat /\ hand \in Nat /\ hand # Never /\ writing # hand
      /\ \A i \in 1..Len(rows) : rows[i] \in Nat /\ rows[i] < hand /\ writing < rows[i]
      /\ writing < hand /\ gone < hand /\ hand < now /\ hand < next - 1
  BY <1>1 DEF RowsInv, RowTypes, RowsInOrder, RowsAreOver, Never
<1>3. Never < now /\ Never < next - 1
  BY DEF RowsInv, RowTypes, Never
<1>4. CASE Len(rows) < RowsMax
  <2>1. rows' = Append(rows, hand) /\ UNCHANGED <<due, gone>>
    BY <1>1, <1>4 DEF Enqueue
  <2>2. /\ rows' \in Seq(Nat) /\ Len(rows') = Len(rows) + 1
        /\ \A i \in 1..Len(rows') : IF i = Len(rows) + 1 THEN rows'[i] = hand
                                    ELSE i \in 1..Len(rows) /\ rows'[i] = rows[i]
    BY <1>2, <2>1
  <2>3. RowTypes'
    BY <1>1, <2>1, <2>2 DEF RowsInv, RowTypes
  <2>4. RowsAreOver'
    BY <1>1, <1>2, <1>3, <2>1, <2>2 DEF RowsInv, RowsAreOver
  <2>5. ASSUME NEW i \in 1..Len(rows'), NEW j \in 1..Len(rows'), i < j PROVE rows'[i] < rows'[j]
    <3>1. i \in 1..Len(rows) /\ rows'[i] = rows[i]
      BY <1>2, <2>2, <2>5
    <3>2. CASE j = Len(rows) + 1
      BY <1>2, <2>2, <3>1, <3>2
    <3>3. CASE j # Len(rows) + 1
      BY <2>2, <2>5, <3>1, <3>3 DEF RowsInv, RowsInOrder
    <3> QED
      BY <3>2, <3>3
  <2>6. \A i \in 1..Len(rows') : writing < rows'[i] /\ gone < rows'[i]
    BY <1>2, <2>2 DEF RowsInv, RowsInOrder
  <2>7. RowsInOrder'
    BY <1>1, <2>1, <2>5, <2>6 DEF RowsInOrder
  <2>8. Queued' = Queued \cup {hand}
    <3>1. Queued' \subseteq Queued \cup {hand}
      BY <2>2 DEF Queued
    <3>2. Len(rows) + 1 \in 1..Len(rows') /\ rows'[Len(rows) + 1] = hand
      BY <1>2, <2>2
    <3>3. \A i \in 1..Len(rows) : i \in 1..Len(rows') /\ rows'[i] = rows[i]
      BY <1>2, <2>2
    <3> QED
      BY <3>1, <3>2, <3>3 DEF Queued
  <2> QED
    BY <1>1, <1>2, <2>1, <2>3, <2>4, <2>7, <2>8 DEF RowsInv
<1>5. CASE ~(Len(rows) < RowsMax)
  <2>1. rows' = Append(Tail(rows), hand) /\ Accounts({Head(rows)}) /\ rows # <<>>
    BY <1>1, <1>2, <1>5 DEF Enqueue
  <2>2. /\ Head(rows) = rows[1] /\ rows[1] \in Nat /\ 1 \in 1..Len(rows)
        /\ Tail(rows) \in Seq(Nat) /\ Len(Tail(rows)) = Len(rows) - 1
        /\ \A i \in 1..Len(Tail(rows)) : i + 1 \in 1..Len(rows) /\ Tail(rows)[i] = rows[i + 1]
        /\ Queued = {Tail(rows)[i] : i \in 1..Len(Tail(rows))} \cup {rows[1]}
    BY <2>1, HeadAndTail
  <2>3. due' = due \ {rows[1]} /\ gone' \in {rows[1], gone}
    BY <2>1, <2>2 DEF Accounts
  <2>4. /\ rows' \in Seq(Nat) /\ Len(rows') = Len(rows)
        /\ \A i \in 1..Len(rows') : IF i = Len(rows) THEN rows'[i] = hand
                                    ELSE i + 1 \in 1..Len(rows) /\ rows'[i] = rows[i + 1]
    BY <1>2, <2>1, HeadMakesRoom
  <2>5. RowTypes'
    BY <1>1, <2>2, <2>3, <2>4 DEF RowsInv, RowTypes
  <2>6. RowsAreOver'
    <3>1. \A i \in 1..Len(rows') : rows'[i] < now /\ rows'[i] < next - 1
      BY <1>2, <2>4 DEF RowsInv, RowsAreOver
    <3>2. \A r \in {Never, writing, rows[1], gone} : r < now /\ r < next - 1
      BY <1>3, <2>2 DEF RowsInv, RowsAreOver
    <3> QED
      BY <1>1, <2>3, <3>1, <3>2 DEF RowsAreOver
  <2>7. ASSUME NEW i \in 1..Len(rows'), NEW j \in 1..Len(rows'), i < j PROVE rows'[i] < rows'[j]
    <3>1. i + 1 \in 1..Len(rows) /\ rows'[i] = rows[i + 1]
      BY <1>2, <2>4, <2>7
    <3>2. CASE j = Len(rows)
      BY <1>2, <2>4, <3>1, <3>2
    <3>3. CASE j # Len(rows)
      <4>1. j + 1 \in 1..Len(rows) /\ rows'[j] = rows[j + 1] /\ i + 1 < j + 1
        BY <1>2, <2>4, <2>7, <3>3
      <4> QED
        BY <3>1, <4>1 DEF RowsInv, RowsInOrder
    <3> QED
      BY <3>2, <3>3
  <2>8. \A i \in 1..Len(rows') : writing < rows'[i] /\ gone < rows'[i] /\ rows[1] < rows'[i]
    <3>1. \A i \in 1..Len(rows) : 1 < i => rows[1] < rows[i]
      BY <2>2 DEF RowsInv, RowsInOrder
    <3>2. \A i \in 1..Len(rows') : i # Len(rows) => 1 < i + 1
      BY <1>2
    <3> QED
      BY <1>2, <2>2, <2>4, <3>1, <3>2 DEF RowsInv, RowsInOrder
  <2>9. RowsInOrder'
    BY <1>1, <2>3, <2>7, <2>8 DEF RowsInOrder
  <2>10. Queued' = (Queued \ {rows[1]}) \cup {hand}
    <3>1. Queued' = {rows[i] : i \in 2..Len(rows)} \cup {hand}
      <4>0. Len(rows) \in 1..Len(rows)
        BY <1>2, <2>2
      <4>1. Len(rows) \in 1..Len(rows') /\ rows'[Len(rows)] = hand
        BY <2>4, <4>0
      <4>2. \A i \in 1..Len(rows') : i # Len(rows) => i + 1 \in 2..Len(rows) /\ rows'[i] = rows[i + 1]
        <5>1. \A i \in 1..Len(rows) : i # Len(rows) => i + 1 \in 2..Len(rows)
          BY <1>2
        <5> QED
          BY <2>4, <5>1
      <4>3. \A k \in 2..Len(rows) : k - 1 \in 1..Len(rows') /\ rows'[k - 1] = rows[k]
        <5>1. \A k \in 2..Len(rows) : k - 1 \in 1..Len(rows') /\ k - 1 # Len(rows) /\ (k - 1) + 1 = k
          BY <1>2, <2>4
        <5> QED
          BY <2>4, <5>1
      <4>4. Queued' \subseteq {rows[i] : i \in 2..Len(rows)} \cup {hand}
        BY <2>4, <4>2 DEF Queued
      <4>5. {rows[i] : i \in 2..Len(rows)} \cup {hand} \subseteq Queued'
        BY <4>1, <4>3 DEF Queued
      <4> QED
        BY <4>4, <4>5
    <3>2. Queued = {rows[i] : i \in 2..Len(rows)} \cup {rows[1]}
      <4>1. \A i \in 1..Len(rows) : i = 1 \/ i \in 2..Len(rows)
        BY <1>2
      <4>2. \A i \in 2..Len(rows) : i \in 1..Len(rows)
        BY <1>2
      <4> QED
        BY <2>2, <4>1, <4>2 DEF Queued
    <3>3. rows[1] \notin {rows[i] : i \in 2..Len(rows)}
      <4>1. \A i \in 2..Len(rows) : i \in 1..Len(rows) /\ 1 < i
        BY <1>2
      <4>2. \A i \in 2..Len(rows) : rows[1] < rows[i]
        BY <2>2, <4>1 DEF RowsInv, RowsInOrder
      <4> QED
        BY <1>2, <2>2, <4>1, <4>2
    <3> QED
      BY <3>1, <3>2, <3>3
  <2>11. rows[1] # hand /\ rows[1] # writing
    BY <1>2, <2>2 DEF RowsInv, RowTypes, Never
  <2> QED
    BY <1>1, <1>2, <2>2, <2>3, <2>5, <2>6, <2>9, <2>10, <2>11 DEF RowsInv
<1> QED
  BY <1>4, <1>5

LEMMA StopsKeepsRows == ASSUME RowsInv, Stops PROVE RowsInv'
<1>1. /\ worker' = "stops" /\ hand' = Never /\ due' = due \ {hand}
      /\ UNCHANGED <<now, next, rows, writing, gone>>
  BY DEF Stops, heap
<1>2. RowTypes'
  BY <1>1 DEF RowsInv, RowTypes
<1>3. RowsAreOver'
  <2>1. Never < now /\ Never < next - 1
    BY DEF RowsInv, RowTypes, Never
  <2>2. \A r \in {Never, writing, gone} : r < now /\ r < next - 1
    BY <2>1 DEF RowsInv, RowsAreOver
  <2> QED
    BY <1>1, <2>2 DEF RowsInv, RowsAreOver
<1>4. RowsInOrder'
  BY <1>1 DEF RowsInv, RowsInOrder
<1>5. hand # Never => hand \notin Queued /\ hand # writing
  BY DEF RowsInv, RowTypes, RowsInOrder, Queued, Never
<1>6. Queued' = Queued
  BY <1>1 DEF Queued
<1>7. Never \notin Queued
  BY DEF RowsInv, RowTypes, Queued, Never
<1>8. due' = Queued' \cup ({hand', writing'} \ {Never})
  <2>1. due = Queued \cup ({hand, writing} \ {Never})
    BY DEF RowsInv
  <2> QED
    BY <1>1, <1>5, <1>6, <1>7, <2>1
<1> QED
  BY <1>1, <1>2, <1>3, <1>4, <1>8 DEF RowsInv

LEMMA DiscardsKeepsRows == ASSUME RowsInv, Discards PROVE RowsInv'
<1>1. /\ worker = "stops" /\ worker' = "ended" /\ rows' = <<>> /\ writing' = Never
      /\ Accounts(ToSet(rows) \cup ({writing} \ {Never})) /\ UNCHANGED <<now, next, hand>>
  BY DEF Discards, heap
<1>2. ToSet(rows) = Queued
  <2>1. DOMAIN rows = 1..Len(rows)
    BY DEF RowsInv, RowTypes
  <2> QED
    BY <2>1 DEF ToSet, Queued
<1>3. hand = Never
  BY <1>1 DEF RowsInv
<1>4. due' = {} /\ gone' \in Queued \cup {writing, gone}
  BY <1>1, <1>2, <1>3 DEF RowsInv, Accounts
<1>5. /\ gone' \in Nat \cup {Never} /\ gone' < now /\ gone' < next - 1
  BY <1>4 DEF RowsInv, RowTypes, RowsAreOver, Queued
<1>6. 1..Len(rows') = {} /\ rows' \in Seq(Nat)
  BY <1>1
<1>7. RowTypes'
  BY <1>1, <1>5, <1>6 DEF RowsInv, RowTypes
<1>8. RowsAreOver'
  <2>1. Never < now /\ Never < next - 1
    BY DEF RowsInv, RowTypes, Never
  <2> QED
    BY <1>1, <1>3, <1>5, <1>6, <2>1 DEF RowsAreOver
<1>9. RowsInOrder' /\ Queued' = {}
  BY <1>1, <1>3, <1>6 DEF RowsInOrder, Queued
<1> QED
  BY <1>1, <1>3, <1>4, <1>7, <1>8, <1>9 DEF RowsInv

LEMMA RowsNext == ASSUME RowsInv, [MicroNext]_microVars, RowsMax \in Nat \ {0} PROVE RowsInv'
<1>1. CASE Tick \/ Readers
  BY <1>1, ReadersMoveNoRow, RestKeepsRows
<1>2. CASE Stages \/ FailsApplying \/ Rebases \/ Restarts
  BY <1>2, RuntimeMovesNoRow, RestKeepsRows
<1>3. CASE Finalizes
  BY <1>3, FinalizesKeepsRows
<1>4. CASE Published
  BY <1>4, EnqueueKeepsRows
<1>5. CASE Writer
  BY <1>5, TakesKeepsRows, ConcludesKeepsRows DEF Writer
<1>6. CASE Stops \/ Discards
  BY <1>6, StopsKeepsRows, DiscardsKeepsRows
<1>7. CASE UNCHANGED microVars
  <2>1. RowsRest
    BY <1>7 DEF microVars, heap, RowsRest, RowsInv, RowTypes
  <2> QED
    BY <2>1, RestKeepsRows
<1> QED
  BY <1>1, <1>2, <1>3, <1>4, <1>5, <1>6, <1>7 DEF MicroNext, Aggregate, Runtime

\* Three sequences in a row: what stands where.
LEMMA ThreeInARow ==
  ASSUME NEW a \in Seq(Nat), NEW b \in Seq(Nat), NEW c \in Seq(Nat)
  PROVE  /\ a \o b \o c \in Seq(Nat) /\ Len(a \o b \o c) = Len(a) + Len(b) + Len(c)
         /\ \A i \in 1..Len(a) : (a \o b \o c)[i] = a[i]
         /\ \A i \in 1..Len(b) : (a \o b \o c)[Len(a) + i] = b[i]
         /\ \A i \in 1..Len(c) : (a \o b \o c)[Len(a) + Len(b) + i] = c[i]
<1>1. /\ a \o b \in Seq(Nat) /\ Len(a \o b) = Len(a) + Len(b)
      /\ \A i \in 1..Len(a) : (a \o b)[i] = a[i]
      /\ \A i \in 1..Len(b) : (a \o b)[Len(a) + i] = b[i]
  OBVIOUS
<1>2. PICK d \in Seq(Nat) : d = a \o b
  BY <1>1
<1>3. /\ d \o c \in Seq(Nat) /\ Len(d \o c) = Len(d) + Len(c)
      /\ \A i \in 1..Len(d) : (d \o c)[i] = d[i]
      /\ \A i \in 1..Len(c) : (d \o c)[Len(d) + i] = c[i]
  OBVIOUS
<1>4. /\ \A i \in 1..Len(a) : i \in 1..Len(d)
      /\ \A i \in 1..Len(b) : Len(a) + i \in 1..Len(d)
  BY <1>1, <1>2
<1> QED
  BY <1>1, <1>2, <1>3, <1>4

LEMMA WhichOfThree ==
  ASSUME NEW f \in Nat, NEW n \in Nat, NEW b \in Nat, NEW i \in 1..(f + n + b)
  PROVE  \/ i \in 1..f
         \/ i - f \in 1..n /\ f + (i - f) = i
         \/ i - f - n \in 1..b /\ f + n + (i - f - n) = i
OBVIOUS

\* What three functions in a row hold, and that they rise if each does and none begins below another.
InARow(way, x, q, z, f, n, b) ==
  /\ \A i \in 1..f : way[i] = x[i]
  /\ \A i \in 1..n : way[f + i] = q[i]
  /\ \A i \in 1..b : way[f + n + i] = z[i]

Rises(s, k) == \A i, j \in 1..k : i < j => s[i] < s[j]
Below(s, k, t, m) == \A i \in 1..k, j \in 1..m : s[i] < t[j]

LEMMA RisesInARow ==
  ASSUME NEW f \in Nat, NEW n \in Nat, NEW b \in Nat, NEW way, NEW x, NEW q, NEW z,
         InARow(way, x, q, z, f, n, b), Rises(x, f), Rises(q, n), Rises(z, b),
         Below(x, f, q, n), Below(x, f, z, b), Below(q, n, z, b)
  PROVE  Rises(way, f + n + b)
<1> SUFFICES ASSUME NEW i \in 1..(f + n + b), NEW j \in 1..(f + n + b), i < j PROVE way[i] < way[j]
  BY DEF Rises
<1>1. CASE i \in 1..f
  <2>1. CASE j \in 1..f
    BY <1>1, <2>1 DEF InARow, Rises
  <2>2. CASE j - f \in 1..n /\ f + (j - f) = j
    <3>1. PICK k \in 1..n : f + k = j
      BY <2>2
    <3> QED
      BY <1>1, <3>1 DEF InARow, Below
  <2>3. CASE j - f - n \in 1..b /\ f + n + (j - f - n) = j
    <3>1. PICK k \in 1..b : f + n + k = j
      BY <2>3
    <3> QED
      BY <1>1, <3>1 DEF InARow, Below
  <2> QED
    BY <2>1, <2>2, <2>3, WhichOfThree
<1>2. CASE i - f \in 1..n /\ f + (i - f) = i
  <2>1. PICK k \in 1..n : f + k = i
    BY <1>2
  <2>2. j \notin 1..f
    BY <2>1
  <2>3. CASE j - f \in 1..n /\ f + (j - f) = j
    <3>1. PICK m \in 1..n : f + m = j
      BY <2>3
    <3>2. k < m
      BY <2>1, <3>1
    <3> QED
      BY <2>1, <3>1, <3>2 DEF InARow, Rises
  <2>4. CASE j - f - n \in 1..b /\ f + n + (j - f - n) = j
    <3>1. PICK m \in 1..b : f + n + m = j
      BY <2>4
    <3> QED
      BY <2>1, <3>1 DEF InARow, Below
  <2> QED
    BY <2>2, <2>3, <2>4, WhichOfThree
<1>3. CASE i - f - n \in 1..b /\ f + n + (i - f - n) = i
  <2>1. PICK k \in 1..b : f + n + k = i
    BY <1>3
  <2>2. j \notin 1..f /\ j - f \notin 1..n
    BY <2>1
  <2>3. j - f - n \in 1..b /\ f + n + (j - f - n) = j
    BY <2>2, WhichOfThree
  <2>4. PICK m \in 1..b : f + n + m = j
    BY <2>3
  <2>5. k < m
    BY <2>1, <2>4
  <2> QED
    BY <2>1, <2>4, <2>5 DEF InARow, Rises
<1> QED
  BY <1>1, <1>2, <1>3, WhichOfThree

Holds(s, k) == {s[i] : i \in 1..k}

LEMMA HoldsFew == ASSUME NEW s PROVE Holds(s, 0) = {} /\ Holds(s, 1) = {s[1]}
<1>1. 1..0 = {} /\ 1..1 = {1}
  OBVIOUS
<1> QED
  BY <1>1 DEF Holds

LEMMA HoldsInARow ==
  ASSUME NEW f \in Nat, NEW n \in Nat, NEW b \in Nat, NEW way, NEW x, NEW q, NEW z,
         InARow(way, x, q, z, f, n, b)
  PROVE  Holds(way, f + n + b) = Holds(x, f) \cup Holds(q, n) \cup Holds(z, b)
<1>1. ASSUME NEW i \in 1..(f + n + b) PROVE way[i] \in Holds(x, f) \cup Holds(q, n) \cup Holds(z, b)
  <2>1. CASE i \in 1..f
    BY <2>1 DEF InARow, Holds
  <2>2. CASE i - f \in 1..n /\ f + (i - f) = i
    <3>1. PICK k \in 1..n : f + k = i
      BY <2>2
    <3> QED
      BY <3>1 DEF InARow, Holds
  <2>3. CASE i - f - n \in 1..b /\ f + n + (i - f - n) = i
    <3>1. PICK k \in 1..b : f + n + k = i
      BY <2>3
    <3> QED
      BY <3>1 DEF InARow, Holds
  <2> QED
    BY <2>1, <2>2, <2>3, WhichOfThree
<1>2. /\ \A i \in 1..f : i \in 1..(f + n + b)
      /\ \A i \in 1..n : f + i \in 1..(f + n + b)
      /\ \A i \in 1..b : f + n + i \in 1..(f + n + b)
  OBVIOUS
<1>3. Holds(x, f) \subseteq Holds(way, f + n + b)
  BY <1>2 DEF InARow, Holds
<1>4. Holds(q, n) \subseteq Holds(way, f + n + b)
  BY <1>2 DEF InARow, Holds
<1>5. Holds(z, b) \subseteq Holds(way, f + n + b)
  BY <1>2 DEF InARow, Holds
<1>6. Holds(way, f + n + b) \subseteq Holds(x, f) \cup Holds(q, n) \cup Holds(z, b)
  BY <1>1 DEF Holds
<1> QED
  BY <1>3, <1>4, <1>5, <1>6

\* The way of the rows as one sequence.
LEMMA WayIsInOrder == ASSUME RowsInv PROVE HistoryKept
<1>0. PICK front \in Seq(Nat), back \in Seq(Nat) :
        /\ front = (IF writing = Never THEN <<>> ELSE <<writing>>)
        /\ back = (IF hand = Never THEN <<>> ELSE <<hand>>)
  <2>1. <<>> \in Seq(Nat)
    OBVIOUS
  <2>2. \A r \in Nat : <<r>> \in Seq(Nat)
    OBVIOUS
  <2>3. (writing # Never => writing \in Nat) /\ (hand # Never => hand \in Nat)
    BY DEF RowsInv, RowTypes
  <2>4. /\ (IF writing = Never THEN <<>> ELSE <<writing>>) \in Seq(Nat)
        /\ (IF hand = Never THEN <<>> ELSE <<hand>>) \in Seq(Nat)
    BY <2>1, <2>2, <2>3
  <2> QED
    BY <2>4
<1>1. PICK q \in Seq(Nat) : q = rows
  BY DEF RowsInv, RowTypes
<1>2. PICK way \in Seq(Nat) : way = front \o q \o back
  BY ThreeInARow
<1>3. PICK f \in Nat, n \in Nat, b \in Nat : f = Len(front) /\ n = Len(q) /\ b = Len(back)
  OBVIOUS
<1>4. InARow(way, front, q, back, f, n, b) /\ Len(way) = f + n + b
  BY <1>2, <1>3, ThreeInARow DEF InARow
<1>5. IF writing = Never THEN f = 0 ELSE f = 1 /\ front[1] = writing
  BY <1>0, <1>3
<1>6. IF hand = Never THEN b = 0 ELSE b = 1 /\ back[1] = hand
  BY <1>0, <1>3
<1>7. /\ \A i \in 1..f : i = 1 /\ front[i] = writing /\ writing # Never
      /\ \A i \in 1..b : i = 1 /\ back[i] = hand /\ hand # Never
  BY <1>5, <1>6
<1>8. /\ \A i, j \in 1..n : i < j => q[i] < q[j]
      /\ \A i \in 1..n : writing < q[i] /\ gone < q[i] /\ (hand # Never => q[i] < hand)
      /\ hand # Never => writing < hand
  BY <1>1, <1>3 DEF RowsInv, RowsInOrder
<1>9. Rises(way, f + n + b)
  <2>1. Rises(front, f) /\ Rises(back, b) /\ Rises(q, n)
    BY <1>7, <1>8 DEF Rises
  <2>2. Below(front, f, q, n) /\ Below(front, f, back, b) /\ Below(q, n, back, b)
    BY <1>7, <1>8 DEF Below
  <2> QED
    BY <1>4, <2>1, <2>2, RisesInARow
<1>10. due = Holds(way, f + n + b)
  <2>0. \A s : Holds(s, 0) = {} /\ Holds(s, 1) = {s[1]}
    BY HoldsFew
  <2>1. Holds(front, f) = {writing} \ {Never}
    BY <1>5, <2>0
  <2>2. Holds(back, b) = {hand} \ {Never}
    BY <1>6, <2>0
  <2>3. Holds(q, n) = Queued
    BY <1>1, <1>3 DEF Holds, Queued
  <2>4. Holds(way, f + n + b) = Holds(front, f) \cup Holds(q, n) \cup Holds(back, b)
    BY <1>4, HoldsInARow
  <2>5. due = Queued \cup ({hand, writing} \ {Never})
    BY DEF RowsInv
  <2> QED
    BY <2>1, <2>2, <2>3, <2>4, <2>5
<1>11. DOMAIN way = 1..(f + n + b) /\ DOMAIN rows = 1..n
  BY <1>1, <1>3, <1>4
<1>12. due = ToSet(way)
  BY <1>10, <1>11 DEF Holds, ToSet
<1>13. \A i, j \in DOMAIN way : i < j => way[i] < way[j]
  BY <1>9, <1>11 DEF Rises
<1>14. \A i \in DOMAIN rows : rows[i] > gone
  BY <1>1, <1>8, <1>11 DEF RowsInv, RowTypes, Never
<1> QED
  BY <1>0, <1>1, <1>2, <1>12, <1>13, <1>14, Zenon DEF HistoryKept

\* No finalised row vanishes: it is stored, or what became of it is reported, or it is on its way,
\* oldest first, whatever fails, is rebased or is stopped (README.md:133-136).
THEOREM NoRowVanishes == MicroSpec => []HistoryKept
<1>1. RowsMax \in Nat \ {0}
  BY MicrostructureAssumption
<1>2. RowsInv /\ [MicroNext]_microVars => RowsInv'
  BY <1>1, RowsNext
<1>3. RowsInv => HistoryKept
  BY WayIsInOrder
<1> QED
  BY RowsInit, <1>2, <1>3, PTL DEF MicroSpec
=============================================================================
