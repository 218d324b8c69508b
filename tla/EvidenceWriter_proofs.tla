----------------------- MODULE EvidenceWriter_proofs -----------------------
(***************************************************************************)
(* An end of a session is written only when it is true, for any sessions,  *)
(* quotes, queue and batch limits and any number of faults.                *)
(***************************************************************************)
EXTENDS EvidenceWriter, FiniteSetTheorems, TLAPS

----------------------------------------------------------------------------
(* The invariant. *)

Started    == {c \in Conns : <<c, "start">> \in issued}
Recovering == meta.does \in {"sessions", "orphans", "finishing"}

\* Where a record can be.
Counted == CountedBy(DOMAIN losses)
Lost    == Counted \cup overflow
Queued  == Elements(metadataQ) \cup Elements(controlQ) \cup Elements(quoteQ) \cup writing

\* Nothing is queued, lost or written but what a session has offered, and what recovery says of one.
IssuedInv ==
  /\ Queued \cup Lost \cup meta.lost \cup told \subseteq issued
  /\ meta.rows \cup db \subseteq issued \cup Unclean(Started)
  /\ \A r \in issued : r[1] = None \/ r[1] \in Started
  /\ own \subseteq Started /\ IsFiniteSet(Started)

\* What each queue holds, and what the metadata worker has in hand.
KindsInv ==
  /\ \A r \in Elements(metadataQ) : r[2] \in {"tick", "poll"}
  /\ \A r \in Elements(controlQ) : r[2] \in Control /\ r[1] \in own
  /\ \A r \in Elements(quoteQ) \cup writing : r[2] \in Quotes
LossInv == /\ IsFiniteSet(DOMAIN losses)
           /\ \A k \in DOMAIN losses : \A r \in losses[k] : r[1] = k[1]
HandInv ==
  /\ meta.does # "writing" => meta.lost = {} /\ meta.rows \subseteq Unclean(Started)
  /\ meta.does = "idle" => meta.rows = {}
  /\ meta.does = "writing" => meta.rows \subseteq issued

\* Behind the end of a session there is nothing of it, in the queue or once the end is deferred.
OrderInv ==
  /\ \A i, j \in DOMAIN controlQ :
       controlQ[i][2] = "end" /\ controlQ[j][1] = controlQ[i][1] => j <= i
  /\ \A c \in deferred : /\ c \in own /\ <<c, "end">> \in issued
                         /\ \A i \in DOMAIN controlQ : controlQ[i][1] # c

\* No record of this process's connections is dropped: it is queued, in a worker's hands, durable,
\* or counted by a loss range or a durable gap.
Somewhere(r) == r \in Queued \cup Lost \cup meta.rows \cup meta.lost \cup db \cup told
KeptInv == \A c \in own : \A r \in Of(c) : r[2] # "end" => Somewhere(r)

\* An end goes with whatever is left of its session.
BatchInv == \A c \in Conns : meta.does = "writing" /\ <<c, "end">> \in meta.rows =>
              Of(c) \subseteq db \cup told \cup meta.rows \cup meta.lost

Inv == /\ TypeOK /\ IssuedInv /\ KindsInv /\ LossInv /\ HandInv /\ OrderInv
       /\ KeptInv /\ BatchInv /\ EndTellsAll

\* Recovery ends only connections of earlier processes: those of this one have nothing durable
\* that the scan of sessions looks for, and that of orphans knows them all.
LiveInv ==
  /\ \A i, j \in DOMAIN live : live[i] = live[j] => i = j
  /\ Elements(live) \subseteq own
SpareInv ==
  /\ \A c \in own : <<c, "unclean">> \notin db \cup meta.rows
  /\ Recovering => \A c \in own : <<c, "start">> \notin db /\ c \in Elements(live)
----------------------------------------------------------------------------
(* Sequences. *)

LEMMA InElements ==
  ASSUME NEW S, NEW q \in Seq(S)
  PROVE  \A x : x \in Elements(q) <=> \E i \in 1..Len(q) : x = q[i]
BY DEF Elements

LEMMA AppendedElements ==
  ASSUME NEW S, NEW q \in Seq(S), NEW x \in S
  PROVE  Append(q, x) \in Seq(S) /\ Elements(Append(q, x)) = Elements(q) \cup {x}
<1>1. Append(q, x) \in Seq(S) /\ Len(Append(q, x)) = Len(q) + 1 /\ Len(q) \in Nat
  OBVIOUS
<1>2. \A i \in 1..Len(q) : Append(q, x)[i] = q[i]
  OBVIOUS
<1>3. Append(q, x)[Len(q) + 1] = x
  OBVIOUS
<1>4. ASSUME NEW e \in Elements(Append(q, x)) PROVE e \in Elements(q) \cup {x}
  <2>1. PICK i \in 1..(Len(q) + 1) : e = Append(q, x)[i]  BY <1>1 DEF Elements
  <2> QED  BY <1>1, <1>2, <1>3, <2>1 DEF Elements
<1>5. Elements(q) \subseteq Elements(Append(q, x))
  BY <1>1, <1>2 DEF Elements
<1>6. x \in Elements(Append(q, x))
  BY <1>1, <1>3 DEF Elements
<1> QED  BY <1>1, <1>4, <1>5, <1>6

\* The first n of a queue, and the rest of it.
LEMMA SplitElements ==
  ASSUME NEW S, NEW q \in Seq(S), NEW n \in 0..Len(q)
  PROVE  LET a == SubSeq(q, 1, n)
             b == SubSeq(q, n + 1, Len(q))
         IN  /\ a \in Seq(S) /\ Len(a) = n /\ \A i \in 1..n : a[i] = q[i]
             /\ b \in Seq(S) /\ Len(b) = Len(q) - n /\ \A i \in 1..Len(b) : b[i] = q[n + i]
             /\ Elements(a) \cup Elements(b) = Elements(q)
<1> DEFINE a == SubSeq(q, 1, n)
           b == SubSeq(q, n + 1, Len(q))
<1>1. a \in Seq(S) /\ Len(a) = n /\ \A i \in 1..n : a[i] = q[i]
  OBVIOUS
<1>2. b \in Seq(S) /\ Len(b) = Len(q) - n /\ \A i \in 1..Len(b) : b[i] = q[n + i]
  OBVIOUS
<1> HIDE DEF a, b
<1>3. Elements(a) \subseteq Elements(q) /\ Elements(b) \subseteq Elements(q)
  <2>1. \A i \in 1..Len(a) : i \in 1..Len(q) /\ a[i] = q[i]  BY <1>1
  <2>2. \A i \in 1..Len(b) : n + i \in 1..Len(q) /\ b[i] = q[n + i]  BY <1>2
  <2>3. Elements(a) \subseteq Elements(q)  BY <1>1, <2>1, InElements
  <2>4. Elements(b) \subseteq Elements(q)  BY <1>2, <2>2, InElements
  <2> QED  BY <2>3, <2>4
<1>4. ASSUME NEW i \in 1..Len(q) PROVE q[i] \in Elements(a) \cup Elements(b)
  <2>1. CASE i <= n
    <3>1. i \in 1..Len(a) /\ a[i] = q[i]  BY <1>1, <2>1
    <3> QED  BY <1>1, <3>1 DEF Elements
  <2>2. CASE i > n
    <3>1. i - n \in 1..Len(b) /\ b[i - n] = q[i]  BY <1>2, <2>2
    <3> QED  BY <1>2, <3>1 DEF Elements
  <2> QED  BY <2>1, <2>2
<1>5. Elements(q) \subseteq Elements(a) \cup Elements(b)
  BY <1>4 DEF Elements
<1> QED  BY <1>1, <1>2, <1>3, <1>5 DEF a, b

\* A queue with the first n of some more behind it.
LEMMA ExtendedElements ==
  ASSUME NEW S, NEW q \in Seq(S), NEW s \in Seq(S), NEW n \in 0..Len(s)
  PROVE  LET e == q \o SubSeq(s, 1, n)
         IN  /\ e \in Seq(S) /\ Len(e) = Len(q) + n
             /\ \A i \in 1..Len(q) : e[i] = q[i]
             /\ \A i \in 1..n : e[Len(q) + i] = s[i]
             /\ Elements(e) = Elements(q) \cup {s[i] : i \in 1..n}
<1> DEFINE a == SubSeq(s, 1, n)
           e == q \o a
<1>1. a \in Seq(S) /\ Len(a) = n /\ \A i \in 1..n : a[i] = s[i]
  OBVIOUS
<1> HIDE DEF a
<1>2. e \in Seq(S) /\ Len(e) = Len(q) + n
  BY <1>1, SMTT(30)
<1>3. \A i \in 1..Len(q) : e[i] = q[i]
  BY <1>1, <1>2
<1>4. \A i \in 1..n : e[Len(q) + i] = s[i]
  BY <1>1, <1>2
<1> HIDE DEF e
<1>5. \A i \in 1..Len(e) : i \in 1..Len(q) \/ (i - Len(q) \in 1..n /\ i = Len(q) + (i - Len(q)))
  BY <1>2
<1>6. Elements(e) \subseteq Elements(q) \cup {s[i] : i \in 1..n}
  <2> SUFFICES ASSUME NEW x \in Elements(e) PROVE x \in Elements(q) \cup {s[i] : i \in 1..n}
    OBVIOUS
  <2>1. PICK i \in 1..Len(e) : x = e[i]  BY <1>2, InElements
  <2>2. CASE i \in 1..Len(q)
    <3>1. x = q[i]  BY <1>3, <2>1, <2>2
    <3> QED  BY <2>2, <3>1, InElements
  <2>3. CASE i - Len(q) \in 1..n
    <3>1. x = s[i - Len(q)]  BY <1>4, <2>1, <2>3
    <3> QED  BY <2>3, <3>1
  <2> QED  BY <1>5, <2>2, <2>3
<1>7. Elements(q) \subseteq Elements(e)
  <2>1. \A i \in 1..Len(q) : i \in 1..Len(e) /\ e[i] = q[i]  BY <1>2, <1>3
  <2> QED  BY <1>2, <2>1, InElements
<1>8. {s[i] : i \in 1..n} \subseteq Elements(e)
  <2> SUFFICES ASSUME NEW i \in 1..n PROVE s[i] \in Elements(e)
    OBVIOUS
  <2>1. Len(q) + i \in 1..Len(e) /\ e[Len(q) + i] = s[i]  BY <1>2, <1>4
  <2> QED  BY <1>2, <2>1, InElements
<1>9. Elements(e) = Elements(q) \cup {s[i] : i \in 1..n}
  BY <1>6, <1>7, <1>8
<1> QED  BY <1>2, <1>3, <1>4, <1>9 DEF a, e

----------------------------------------------------------------------------
(* Losses. *)

\* A loss is counted under its connection, whatever else is full.
LEMMA LoseKeeps ==
  ASSUME LossType, LossInv, NEW c \in Conns \cup {None}, NEW S \in SUBSET Record,
         \A r \in S : r[1] = c, NEW why \in {"metadata", "paused", "full"}, Lose(S, why)
  PROVE  LossType' /\ LossInv' /\ Lost' = Lost \cup S
<1>1. CASE S = {}
  BY <1>1 DEF Lose, LossType, LossInv, Lost, Counted, CountedBy
<1>2. CASE S # {}
  <2> DEFINE k == <<(CHOOSE r \in S : TRUE)[1], why>>
  <2>1. k[1] = c /\ k \in Scopes
    BY <1>2 DEF Scopes
  <2>2. \/ k \in DOMAIN losses /\ losses' = [losses EXCEPT ![k] = @ \cup S] /\ overflow' = overflow
        \/ /\ k \notin DOMAIN losses /\ Cardinality(DOMAIN losses) < MaxLossScopes /\ overflow' = overflow
           /\ losses' = [j \in DOMAIN losses \cup {k} |-> IF j = k THEN S ELSE losses[j]]
        \/ losses' = losses /\ overflow' = overflow \cup S
    BY <1>2 DEF Lose
  <2> HIDE DEF k
  <2>3. CASE k \in DOMAIN losses /\ losses' = [losses EXCEPT ![k] = @ \cup S] /\ overflow' = overflow
    <3>1. /\ DOMAIN losses' = DOMAIN losses /\ losses'[k] = losses[k] \cup S
          /\ \A j \in DOMAIN losses \ {k} : losses'[j] = losses[j]
      BY <2>3
    <3>2. LossType' /\ LossInv'
      BY <1>2, <2>1, <2>3, <3>1 DEF LossType, LossInv
    <3>3. ASSUME NEW x PROVE x \in Lost' <=> x \in Lost \cup S
      BY <2>3, <3>1 DEF Lost, Counted, CountedBy
    <3> QED  BY <3>2, <3>3
  <2>4. CASE /\ k \notin DOMAIN losses /\ Cardinality(DOMAIN losses) < MaxLossScopes /\ overflow' = overflow
             /\ losses' = [j \in DOMAIN losses \cup {k} |-> IF j = k THEN S ELSE losses[j]]
    <3>1. /\ DOMAIN losses' = DOMAIN losses \cup {k} /\ losses'[k] = S
          /\ \A j \in DOMAIN losses : losses'[j] = losses[j]
      BY <2>4
    <3>2. /\ IsFiniteSet(DOMAIN losses') /\ Cardinality(DOMAIN losses') = Cardinality(DOMAIN losses) + 1
          /\ Cardinality(DOMAIN losses) \in Nat
      BY <2>4, <3>1, FS_AddElement, FS_CardinalityType DEF LossInv
    <3>3. Cardinality(DOMAIN losses') <= MaxLossScopes
      BY <2>4, <3>2, EvidenceAssumption
    <3>4. LossType' /\ LossInv'
      BY <1>2, <2>1, <2>4, <3>1, <3>2, <3>3 DEF LossType, LossInv
    <3>5. ASSUME NEW x PROVE x \in Lost' <=> x \in Lost \cup S
      <4>1. x \in UNION {losses'[j] : j \in DOMAIN losses'}
              <=> x \in S \/ x \in UNION {losses[j] : j \in DOMAIN losses}
        BY <2>4, <3>1
      <4> QED  BY <2>4, <4>1 DEF Lost, Counted, CountedBy
    <3> QED  BY <3>4, <3>5
  <2>5. CASE losses' = losses /\ overflow' = overflow \cup S
    <3>1. LossType' /\ LossInv'  BY <2>5 DEF LossType, LossInv
    <3>2. Counted' = Counted  BY <2>5 DEF Counted, CountedBy
    <3> QED  BY <2>5, <3>1, <3>2 DEF Lost
  <2> QED  BY <2>2, <2>3, <2>4, <2>5
<1> QED  BY <1>1, <1>2

----------------------------------------------------------------------------
(* Offers. *)

\* A step that adds records R of one connection, which has no end yet, to what is queued or lost.
LEMMA OfferKeeps ==
  ASSUME Inv, NEW c \in Conns \cup {None}, NEW R \in SUBSET Record,
         \A r \in R : r[1] = c,
         issued' = issued \cup R,
         c = None \/ <<c, "end">> \notin issued,
         c = None \/ <<c, "start">> \in issued',
         own \subseteq own', own' \subseteq Conns, own' \ own \subseteq {c} \ Started,
         Queued' \cup Lost' = Queued \cup Lost \cup R,
         UNCHANGED <<meta, db, told>>
  PROVE  IssuedInv' /\ HandInv' /\ KeptInv' /\ BatchInv' /\ EndTellsAll'
<1>1. Started \subseteq Started' /\ Started' \subseteq Started \cup {c}
  BY DEF Started
<1>2. IssuedInv'
  <2>1. IsFiniteSet(Started \cup {c})
    BY FS_AddElement DEF Inv, IssuedInv
  <2>2. IsFiniteSet(Started')
    BY <1>1, <2>1, FS_Subset
  <2>3. c = None \/ c \in Started'
    BY DEF Started
  <2>4. \A r \in issued' : r[1] = None \/ r[1] \in Started'
    BY <1>1, <2>3 DEF Inv, IssuedInv
  <2>5. own' \subseteq Started'
    BY <1>1, <2>3, EvidenceAssumption DEF Inv, IssuedInv
  <2>6. Queued' \cup Lost' \cup meta.lost \cup told \subseteq issued'
    BY DEF Inv, IssuedInv
  <2>7. meta.rows \cup db \subseteq issued' \cup Unclean(Started')
    BY <1>1 DEF Inv, IssuedInv, Unclean
  <2> QED  BY <2>2, <2>4, <2>5, <2>6, <2>7 DEF IssuedInv
<1>3. HandInv'
  BY <1>1 DEF Inv, HandInv, Unclean
<1>4. ASSUME NEW d \in Conns, <<d, "end">> \in issued
      PROVE  Of(d)' = Of(d)
  BY <1>4, EvidenceAssumption DEF Of
<1>5. BatchInv'
  BY <1>4 DEF Inv, HandInv, BatchInv
<1>6. EndTellsAll'
  <2> SUFFICES ASSUME NEW d \in Conns, <<d, "end">> \in db PROVE Of(d)' \subseteq db \cup told
    BY DEF EndTellsAll
  <2>1. <<d, "end">> \in issued
    BY DEF Inv, IssuedInv, Unclean
  <2> QED  BY <1>4, <2>1 DEF Inv, EndTellsAll
<1>7. KeptInv'
  <2> SUFFICES ASSUME NEW d \in own', NEW r \in Of(d)', r[2] # "end" PROVE Somewhere(r)'
    BY DEF KeptInv
  <2>1. CASE r \in R
    BY <2>1 DEF Somewhere
  <2>2. CASE r \notin R
    <3>1. r \in issued /\ r[1] = d
      BY <2>2 DEF Of
    <3>2. d # None
      BY EvidenceAssumption
    <3>3. d \in Started
      BY <3>1, <3>2 DEF Inv, IssuedInv
    <3>4. d \in own
      BY <3>3
    <3>5. Somewhere(r)
      BY <3>1, <3>4 DEF Inv, KeptInv, Of
    <3> QED  BY <3>5 DEF Somewhere
  <2> QED  BY <2>1, <2>2
<1> QED  BY <1>2, <1>3, <1>5, <1>6, <1>7

LEMMA OfferControlKeeps ==
  ASSUME Inv, NEW c \in Conns, c \in own', own \subseteq own', NEW s \in Seq({c} \X Control),
         \A i \in 1..Len(s) : s[i][2] = "end" => i = Len(s),
         <<c, "end">> \notin issued,
         OfferControl(s), UNCHANGED <<metadataQ, quoteQ, writing, deferred>>
  PROVE  /\ controlQ' \in Seq(Record) /\ Len(controlQ') <= ControlMax
         /\ LossType' /\ LossInv' /\ OrderInv' /\ KindsInv'
         /\ Queued' \cup Lost' = Queued \cup Lost \cup Elements(s)
         /\ Elements(s) \subseteq {c} \X Control
<1> DEFINE n == Lesser(Len(s), ControlMax - Len(controlQ))
           S == {s[i] : i \in n+1..Len(s)}
<1>1. controlQ \in Seq(Record) /\ Len(controlQ) <= ControlMax /\ ControlMax \in Nat
  BY EvidenceAssumption DEF Inv, TypeOK, QueuesType
<1>2. n \in 0..Len(s) /\ Len(controlQ) + n <= ControlMax
  BY <1>1 DEF Lesser
<1>3. controlQ' = controlQ \o SubSeq(s, 1, n) /\ Lose(S, "metadata") /\ issued' = issued \cup Elements(s)
  BY DEF OfferControl
<1>4. {c} \X Control \subseteq Record
  BY DEF Record, Kinds
<1>5. \A i \in 1..Len(s) : s[i] \in {c} \X Control
  OBVIOUS
<1>6. s \in Seq(Record)
  BY <1>4
<1> HIDE DEF n
<1>7. /\ controlQ' \in Seq(Record) /\ Len(controlQ') = Len(controlQ) + n
      /\ \A i \in 1..Len(controlQ) : controlQ'[i] = controlQ[i]
      /\ \A i \in 1..n : controlQ'[Len(controlQ) + i] = s[i]
      /\ Elements(controlQ') = Elements(controlQ) \cup {s[i] : i \in 1..n}
  BY <1>1, <1>2, <1>3, <1>6, ExtendedElements
<1>8. LossType' /\ LossInv' /\ Lost' = Lost \cup S
  <2>1. S \in SUBSET Record /\ \A r \in S : r[1] = c
    BY <1>2, <1>4, <1>5
  <2> HIDE DEF S
  <2> QED  BY <1>3, <2>1, LoseKeeps DEF Inv, TypeOK
<1>9. Elements(s) = {s[i] : i \in 1..n} \cup S
  <2>1. \A i : i \in 1..Len(s) <=> i \in 1..n \/ i \in n+1..Len(s)
    BY <1>2
  <2>2. Elements(s) = {s[i] : i \in 1..Len(s)}
    BY DEF Elements
  <2> QED  BY <2>1, <2>2
<1>10. Elements(s) \subseteq {c} \X Control
  BY <1>5, InElements
<1>11. Queued' \cup Lost' = Queued \cup Lost \cup Elements(s)
  BY <1>7, <1>8, <1>9 DEF Queued
<1>12. KindsInv'
  BY <1>7, <1>9, <1>10 DEF Inv, KindsInv
<1>13. \A i \in DOMAIN controlQ' : \/ i \in DOMAIN controlQ /\ controlQ'[i] = controlQ[i]
                                  \/ /\ i \in Len(controlQ)+1..Len(controlQ)+n
                                     /\ controlQ'[i] = s[i - Len(controlQ)] /\ i - Len(controlQ) \in 1..n
                                     /\ controlQ'[i][1] = c
  <2> SUFFICES ASSUME NEW i \in 1..(Len(controlQ) + n), i > Len(controlQ)
               PROVE  /\ controlQ'[i] = s[i - Len(controlQ)] /\ i - Len(controlQ) \in 1..n
                      /\ controlQ'[i][1] = c
    <3>1. DOMAIN controlQ' = 1..(Len(controlQ) + n) /\ DOMAIN controlQ = 1..Len(controlQ)
      BY <1>1, <1>7
    <3> QED  BY <1>1, <1>2, <1>7, <3>1
  <2>1. i - Len(controlQ) \in 1..n /\ i = Len(controlQ) + (i - Len(controlQ))
    BY <1>1, <1>2
  <2>2. controlQ'[i] = s[i - Len(controlQ)]
    BY <1>7, <2>1
  <2> QED  BY <1>2, <1>5, <2>1, <2>2
<1>14. \A i \in DOMAIN controlQ : controlQ[i] \in issued /\ controlQ[i] \in Record
  BY <1>1 DEF Inv, IssuedInv, Queued, Elements
<1>15. \A i \in DOMAIN controlQ : controlQ[i][2] = "end" => controlQ[i][1] # c
  <2> SUFFICES ASSUME NEW i \in DOMAIN controlQ, controlQ[i][2] = "end", controlQ[i][1] = c PROVE FALSE
    OBVIOUS
  <2>1. controlQ[i] = <<c, "end">>
    BY <1>14 DEF Record
  <2> QED  BY <1>14, <2>1
<1>16. ASSUME NEW i \in DOMAIN controlQ', NEW j \in DOMAIN controlQ', controlQ'[i][2] = "end",
              controlQ'[j][1] = controlQ'[i][1]
       PROVE  j <= i
  <2>1. CASE i \in DOMAIN controlQ /\ controlQ'[i] = controlQ[i]
    <3>1. j \in DOMAIN controlQ /\ controlQ'[j] = controlQ[j]
      BY <1>13, <1>15, <1>16, <2>1
    <3> QED  BY <1>16, <2>1, <3>1 DEF Inv, OrderInv
  <2>2. CASE i \in Len(controlQ)+1..Len(controlQ)+n /\ controlQ'[i] = s[i - Len(controlQ)]
                /\ i - Len(controlQ) \in 1..n
    <3>1. i - Len(controlQ) = Len(s)
      BY <1>2, <1>16, <2>2
    <3>2. DOMAIN controlQ' = 1..(Len(controlQ) + n)
      BY <1>7
    <3> QED  BY <1>1, <1>2, <3>1, <3>2
  <2> QED  BY <1>13, <2>1, <2>2
<1>17. ASSUME NEW d \in deferred
       PROVE  d \in own' /\ <<d, "end">> \in issued' /\ \A i \in DOMAIN controlQ' : controlQ'[i][1] # d
  <2>1. d \in own /\ <<d, "end">> \in issued /\ d # c
    BY <1>17 DEF Inv, OrderInv
  <2>2. \A i \in DOMAIN controlQ : controlQ[i][1] # d
    BY <1>17 DEF Inv, OrderInv
  <2> QED  BY <1>3, <1>13, <2>1, <2>2
<1>18. OrderInv'
  BY <1>16, <1>17 DEF OrderInv
<1> QED  BY <1>1, <1>2, <1>7, <1>8, <1>10, <1>11, <1>12, <1>18

LEMMA OfferMetadataKeeps ==
  ASSUME Inv, NEW r \in Record, r[2] \in {"tick", "poll"}, OfferMetadata(r),
         UNCHANGED <<own, controlQ, quoteQ, writing, deferred>>
  PROVE  /\ metadataQ' \in Seq(Record) /\ Len(metadataQ') <= MetadataMax
         /\ LossType' /\ LossInv' /\ OrderInv' /\ KindsInv'
         /\ Queued' \cup Lost' = Queued \cup Lost \cup {r} /\ issued' = issued \cup {r}
<1>1. metadataQ \in Seq(Record) /\ Len(metadataQ) <= MetadataMax /\ MetadataMax \in Nat /\ LossType
  BY EvidenceAssumption DEF Inv, TypeOK, QueuesType
<1>2. issued' = issued \cup {r}
  BY DEF OfferMetadata
<1>3. OrderInv'
  BY <1>2 DEF Inv, OrderInv
<1>4. CASE Len(metadataQ) < MetadataMax
  <2>1. metadataQ' = Append(metadataQ, r) /\ UNCHANGED <<losses, overflow>>
    BY <1>4 DEF OfferMetadata
  <2>2. /\ metadataQ' \in Seq(Record) /\ Len(metadataQ') <= MetadataMax
        /\ Elements(metadataQ') = Elements(metadataQ) \cup {r}
    BY <1>1, <1>4, <2>1, AppendedElements
  <2>3. Lost' = Lost  BY <2>1 DEF Lost, Counted, CountedBy
  <2>4. LossType' /\ LossInv'  BY <1>1, <2>1 DEF Inv, LossType, LossInv
  <2>5. Queued' = Queued \cup {r}  BY <2>2 DEF Queued, Elements
  <2>6. KindsInv'  BY <2>2 DEF Inv, KindsInv, Elements
  <2> QED  BY <1>2, <1>3, <2>2, <2>3, <2>4, <2>5, <2>6
<1>5. CASE ~(Len(metadataQ) < MetadataMax)
  <2>1. Lose({r}, "metadata") /\ metadataQ' = metadataQ
    BY <1>5 DEF OfferMetadata
  <2>2. r[1] \in Conns \cup {None}
    BY DEF Record
  <2>3. LossType' /\ LossInv' /\ Lost' = Lost \cup {r}
    BY <1>1, <2>1, <2>2, LoseKeeps DEF Inv
  <2>4. Queued' = Queued  BY <2>1 DEF Queued, Elements
  <2>5. KindsInv'  BY <2>1 DEF Inv, KindsInv, Elements
  <2> QED  BY <1>1, <1>2, <1>3, <2>1, <2>3, <2>4, <2>5
<1> QED  BY <1>4, <1>5

LEMMA OfferQuoteKeeps ==
  ASSUME Inv, NEW r \in Record, r[2] \in Quotes, OfferQuote(r),
         UNCHANGED <<own, controlQ, metadataQ, writing, deferred>>
  PROVE  /\ quoteQ' \in Seq(Record) /\ Len(quoteQ') <= QuoteMax
         /\ LossType' /\ LossInv' /\ OrderInv' /\ KindsInv'
         /\ Queued' \cup Lost' = Queued \cup Lost \cup {r} /\ issued' = issued \cup {r}
<1>1. quoteQ \in Seq(Record) /\ Len(quoteQ) <= QuoteMax /\ QuoteMax \in Nat /\ LossType
  BY EvidenceAssumption DEF Inv, TypeOK, QueuesType
<1>2. issued' = issued \cup {r}
  BY DEF OfferQuote
<1>3. OrderInv'
  BY <1>2 DEF Inv, OrderInv
<1>4. CASE pauseReason = "" /\ Len(quoteQ) < QuoteMax
  <2>1. quoteQ' = Append(quoteQ, r) /\ UNCHANGED <<losses, overflow>>
    BY <1>4 DEF OfferQuote
  <2>2. /\ quoteQ' \in Seq(Record) /\ Len(quoteQ') <= QuoteMax
        /\ Elements(quoteQ') = Elements(quoteQ) \cup {r}
    <3>1. Append(quoteQ, r) \in Seq(Record) /\ Len(Append(quoteQ, r)) = Len(quoteQ) + 1
      BY <1>1
    <3>2. Elements(Append(quoteQ, r)) = Elements(quoteQ) \cup {r}
      BY <1>1, AppendedElements
    <3>3. quoteQ' = Append(quoteQ, r)
      BY <2>1
    <3>4. quoteQ' \in Seq(Record) /\ Len(quoteQ') <= QuoteMax
      <4>0. Len(quoteQ) < QuoteMax  BY <1>4, Zenon
      <4>1. Len(quoteQ) + 1 <= QuoteMax  BY <1>1, <4>0
      <4>2. PICK q : q = Append(quoteQ, r)  OBVIOUS
      <4>3. q \in Seq(Record) /\ Len(q) <= QuoteMax  BY <3>1, <4>1, <4>2
      <4> QED  BY <3>3, <4>2, <4>3
    <3>5. Elements(quoteQ') = Elements(quoteQ) \cup {r}
      BY <3>2, <3>3, Zenon
    <3> QED  BY <3>4, <3>5
  <2>3. Lost' = Lost  BY <2>1 DEF Lost, Counted, CountedBy
  <2>4. LossType' /\ LossInv'  BY <1>1, <2>1 DEF Inv, LossType, LossInv
  <2>5. Queued' = Queued \cup {r}  BY <2>2 DEF Queued, Elements
  <2>6. KindsInv'  BY <2>2 DEF Inv, KindsInv, Elements
  <2> QED  BY <1>2, <1>3, <2>2, <2>3, <2>4, <2>5, <2>6
<1>5. CASE ~(pauseReason = "" /\ Len(quoteQ) < QuoteMax)
  <2>1. PICK why \in {"paused", "full"} : Lose({r}, why)
    BY <1>5 DEF OfferQuote
  <2>2. r[1] \in Conns \cup {None} /\ quoteQ' = quoteQ
    <3>1. quoteQ' = quoteQ  BY <1>5 DEF OfferQuote
    <3> QED  BY <3>1 DEF Record
  <2>3. LossType' /\ LossInv' /\ Lost' = Lost \cup {r}
    BY <1>1, <2>1, <2>2, LoseKeeps DEF Inv
  <2>4. Queued' = Queued  BY <2>2 DEF Queued, Elements
  <2>5. KindsInv'  BY <2>2 DEF Inv, KindsInv, Elements
  <2> QED  BY <1>1, <1>2, <1>3, <2>2, <2>3, <2>4, <2>5
<1> QED  BY <1>4, <1>5

\* A connection is remembered once, however often it is used, and the last one used is the last.
LEMMA MovedElements ==
  ASSUME NEW q \in Seq(Conns), NEW c \in Conns
  PROVE  LET m == MovedToEnd(q, c)
         IN  /\ m \in Seq(Conns) /\ Len(m) \in {Len(q), Len(q) + 1} /\ Len(m) > 0
             /\ (\A i, j \in 1..Len(q) : q[i] = q[j] => i = j) =>
                  /\ \A i, j \in 1..Len(m) : m[i] = m[j] => i = j
                  /\ Elements(m) = Elements(q) \cup {c}
<1> DEFINE m == MovedToEnd(q, c)
           Distinct(s) == \A i, j \in 1..Len(s) : s[i] = s[j] => i = j
<1>1. CASE c \notin Elements(q)
  <2>1. m = Append(q, c)
    BY <1>1 DEF MovedToEnd
  <2>2. m \in Seq(Conns) /\ Len(m) = Len(q) + 1 /\ m[Len(q) + 1] = c /\ \A i \in 1..Len(q) : m[i] = q[i]
    BY <2>1
  <2>3. Elements(m) = Elements(q) \cup {c}
    BY <2>1, AppendedElements
  <2> HIDE DEF m
  <2>4. ASSUME Distinct(q), NEW i \in 1..Len(m), NEW j \in 1..Len(m), m[i] = m[j] PROVE i = j
    <3>1. \A k \in 1..Len(q) : q[k] # c
      BY <1>1, InElements
    <3> QED  BY <2>2, <2>4, <3>1
  <2>5. Distinct(q) => Distinct(m)
    BY <2>4
  <2> QED  BY <2>2, <2>3, <2>5 DEF m
<1>2. CASE c \in Elements(q)
  <2> DEFINE at == CHOOSE i \in DOMAIN q : q[i] = c
  <2>1. at \in 1..Len(q) /\ q[at] = c
    BY <1>2 DEF Elements
  <2>2. m = [i \in 1..Len(q) |-> IF i < at THEN q[i] ELSE IF i < Len(q) THEN q[i + 1] ELSE c]
    BY <1>2 DEF MovedToEnd
  <2> HIDE DEF at, m
  <2>3. /\ m \in Seq(Conns) /\ Len(m) = Len(q)
        /\ \A i \in 1..Len(q) : m[i] = IF i < at THEN q[i] ELSE IF i < Len(q) THEN q[i + 1] ELSE c
    <3>1. \A i \in 1..Len(q) : (IF i < at THEN q[i] ELSE IF i < Len(q) THEN q[i + 1] ELSE c) \in Conns
      BY <2>1
    <3> QED  BY <2>2, <3>1
  <2>4. ASSUME Distinct(q), NEW i \in 1..Len(m), NEW j \in 1..Len(m), m[i] = m[j] PROVE i = j
    <3> DEFINE Old(k) == IF k < at THEN k ELSE IF k < Len(q) THEN k + 1 ELSE at
    <3>1. \A k \in 1..Len(q) : Old(k) \in 1..Len(q) /\ m[k] = q[Old(k)]
      BY <2>1, <2>3
    <3>2. Old(i) = Old(j)
      BY <2>3, <2>4, <3>1
    <3> QED  BY <2>1, <2>3, <3>2
  <2>5. Distinct(q) => Distinct(m)
    BY <2>4
  <2>6. ASSUME NEW x \in Elements(q) PROVE x \in Elements(m)
    <3>1. PICK i \in 1..Len(q) : x = q[i]  BY <2>6, InElements
    <3> DEFINE new == IF i < at THEN i ELSE IF i = at THEN Len(q) ELSE i - 1
    <3>2. CASE i # at
      <4>1. new \in 1..Len(m) /\ m[new] = x  BY <2>1, <2>3, <3>1, <3>2
      <4> QED  BY <2>3, <4>1, InElements
    <3>3. CASE i = at
      <4>1. Len(q) \in 1..Len(m) /\ m[Len(q)] = x  BY <2>1, <2>3, <3>1, <3>3
      <4> QED  BY <2>3, <4>1, InElements
    <3> QED  BY <3>2, <3>3
  <2>7. ASSUME NEW x \in Elements(m) PROVE x \in Elements(q)
    <3>1. PICK i \in 1..Len(q) : x = m[i]  BY <2>3, <2>7, InElements
    <3>2. x = c \/ \E j \in 1..Len(q) : x = q[j]  BY <2>1, <2>3, <3>1
    <3> QED  BY <1>2, <3>2, InElements
  <2>8. Elements(m) = Elements(q) \cup {c}
    BY <1>2, <2>6, <2>7
  <2> QED  BY <2>1, <2>3, <2>5, <2>8 DEF m
<1> QED  BY <1>1, <1>2

\* One connection more than the limit is one forgotten.
LEMMA TrackKeeps ==
  ASSUME live \in Seq(Conns), Len(live) <= LiveMax, NEW c \in Conns, Track(c)
  PROVE  live' \in Seq(Conns) /\ Len(live') <= LiveMax
<1> DEFINE used == MovedToEnd(live, c)
<1>1. used \in Seq(Conns) /\ Len(used) \in {Len(live), Len(live) + 1} /\ Len(used) > 0
  BY MovedElements
<1>2. live' = IF Len(used) > LiveMax THEN Tail(used) ELSE used
  BY DEF Track
<1> HIDE DEF used
<1>3. LiveMax \in Nat
  BY EvidenceAssumption
<1>4. CASE Len(used) > LiveMax
  <2>1. live' = Tail(used) /\ used # <<>>  BY <1>1, <1>2, <1>4
  <2>2. Tail(used) \in Seq(Conns) /\ Len(Tail(used)) = Len(used) - 1  BY <1>1, <2>1
  <2>3. Len(used) - 1 <= LiveMax  BY <1>1, <1>3
  <2> QED  BY <2>1, <2>2, <2>3
<1>5. CASE ~(Len(used) > LiveMax)
  BY <1>1, <1>2, <1>3, <1>5
<1> QED  BY <1>4, <1>5

----------------------------------------------------------------------------
(* The steps of the sessions. *)

LEMMA StartSessionKeeps ==
  ASSUME Inv, NEW c \in Conns, StartSession(c)
  PROVE  Inv'
<1> DEFINE s == << <<c, "start">> >>
<1>1. /\ <<c, "start">> \notin issued /\ own' = own \cup {c} /\ OfferControl(s) /\ Track(c)
      /\ UNCHANGED <<phase, lossDue, deferred, pauseReason, meta, writing, db, told, spent, metadataQ, quoteQ>>
  BY DEF StartSession, Rest
<1>2. s \in Seq({c} \X Control) /\ Len(s) = 1 /\ s[1] = <<c, "start">> /\ Elements(s) = {<<c, "start">>}
  <2>1. <<c, "start">> \in {c} \X Control  BY DEF Control
  <2>2. s \in Seq({c} \X Control) /\ Len(s) = 1 /\ s[1] = <<c, "start">>  BY <2>1
  <2> QED  BY <2>2 DEF Elements
<1>3. issued' = issued \cup {<<c, "start">>}
  BY <1>1, <1>2 DEF OfferControl
<1> HIDE DEF s
<1>4. c \notin Started /\ Of(c) = {} /\ <<c, "end">> \notin issued
  <2>1. c \notin Started  BY <1>1 DEF Started
  <2>2. \A r \in issued : r[1] # c  BY <2>1, EvidenceAssumption DEF Inv, IssuedInv
  <2> QED  BY <2>1, <2>2 DEF Of
<1>5. /\ controlQ' \in Seq(Record) /\ Len(controlQ') <= ControlMax
      /\ LossType' /\ LossInv' /\ OrderInv' /\ KindsInv'
      /\ Queued' \cup Lost' = Queued \cup Lost \cup {<<c, "start">>}
  BY <1>1, <1>2, <1>4, OfferControlKeeps
<1>6. <<c, "start">> \in Record
  BY DEF Record, Kinds, Control
<1>7. IssuedInv' /\ HandInv' /\ KeptInv' /\ BatchInv' /\ EndTellsAll'
  <2>1. own' \subseteq Conns /\ own' \ own \subseteq {c} \ Started
    BY <1>1, <1>4 DEF Inv, TypeOK
  <2>2. PICK R \in SUBSET Record : R = {<<c, "start">>}  BY <1>6
  <2>3. \A x \in R : x[1] = c  BY <2>2
  <2>4. issued' = issued \cup R /\ <<c, "start">> \in issued'  BY <1>3, <2>2
  <2>5. Queued' \cup Lost' = Queued \cup Lost \cup R  BY <1>5, <2>2
  <2> QED  BY <1>1, <1>4, <2>1, <2>3, <2>4, <2>5, OfferKeeps
<1>8. TypeOK'
  <2>1. live' \in Seq(Conns) /\ Len(live') <= LiveMax
    BY <1>1, TrackKeeps DEF Inv, TypeOK, QueuesType
  <2>2. QueuesType'
    BY <1>1, <1>5, <2>1 DEF Inv, TypeOK, QueuesType
  <2>3. WorkType'
    BY <1>1, <1>3 DEF Inv, TypeOK, WorkType
  <2>4. issued' \subseteq Record /\ own' \subseteq Conns
    BY <1>1, <1>3, <1>6 DEF Inv, TypeOK
  <2> QED  BY <1>1, <1>5, <2>2, <2>3, <2>4 DEF Inv, TypeOK
<1> QED  BY <1>5, <1>7, <1>8 DEF Inv

LEMMA CloseSessionKeeps ==
  ASSUME Inv, NEW c \in Conns, CloseSession(c)
  PROVE  Inv'
<1>1. PICK s \in Seq({c} \X Control) :
        /\ OfferControl(s) /\ \A i \in 1..Len(s) : s[i][2] = "end" => i = Len(s)
  <2>1. <<c, "gap">> \in {c} \X Control /\ <<c, "end">> \in {c} \X Control  BY DEF Control
  <2>2. CASE "gap" \in Offers[c]
    <3> DEFINE s == << <<c, "gap">>, <<c, "end">> >>
    <3>1. OfferControl(s)  BY <2>2 DEF CloseSession
    <3>2. s \in Seq({c} \X Control) /\ Len(s) = 2 /\ s[1][2] = "gap"  BY <2>1
    <3> HIDE DEF s
    <3>3. \A i \in 1..Len(s) : s[i][2] = "end" => i = Len(s)  BY <3>2
    <3> QED  BY <3>1, <3>2, <3>3
  <2>3. CASE "gap" \notin Offers[c]
    <3> DEFINE s == << <<c, "end">> >>
    <3>1. OfferControl(s)  BY <2>3 DEF CloseSession
    <3>2. s \in Seq({c} \X Control) /\ Len(s) = 1  BY <2>1
    <3> HIDE DEF s
    <3>3. \A i \in 1..Len(s) : s[i][2] = "end" => i = Len(s)  BY <3>2
    <3> QED  BY <3>1, <3>2, <3>3
  <2> QED  BY <2>2, <2>3
<1>2. /\ c \in own /\ <<c, "end">> \notin issued /\ Track(c)
      /\ UNCHANGED <<phase, lossDue, deferred, pauseReason, meta, writing, db, told, spent,
                     own, metadataQ, quoteQ>>
  BY DEF CloseSession, Open, Rest
<1>3. issued' = issued \cup Elements(s)
  BY <1>1 DEF OfferControl
<1>4. /\ controlQ' \in Seq(Record) /\ Len(controlQ') <= ControlMax
      /\ LossType' /\ LossInv' /\ OrderInv' /\ KindsInv'
      /\ Queued' \cup Lost' = Queued \cup Lost \cup Elements(s)
      /\ Elements(s) \subseteq {c} \X Control
  BY <1>1, <1>2, OfferControlKeeps
<1>5. Elements(s) \subseteq Record
  BY <1>4 DEF Record, Kinds
<1>6. <<c, "start">> \in issued'
  BY <1>2, <1>3 DEF Inv, IssuedInv, Started
<1>7. IssuedInv' /\ HandInv' /\ KeptInv' /\ BatchInv' /\ EndTellsAll'
  <2>1. own' \subseteq Conns /\ own' \ own \subseteq {c} \ Started
    BY <1>2 DEF Inv, TypeOK
  <2>2. \A r \in Elements(s) : r[1] = c  BY <1>4
  <2> QED  BY <1>2, <1>3, <1>4, <1>5, <1>6, <2>1, <2>2, OfferKeeps
<1>8. TypeOK'
  <2>1. live' \in Seq(Conns) /\ Len(live') <= LiveMax
    BY <1>2, TrackKeeps DEF Inv, TypeOK, QueuesType
  <2>2. QueuesType'
    BY <1>2, <1>4, <2>1 DEF Inv, TypeOK, QueuesType
  <2>3. WorkType'
    BY <1>2, <1>3 DEF Inv, TypeOK, WorkType
  <2>4. issued' \subseteq Record
    BY <1>3, <1>5 DEF Inv, TypeOK
  <2> QED  BY <1>2, <1>4, <2>2, <2>3, <2>4 DEF Inv, TypeOK
<1> QED  BY <1>4, <1>7, <1>8 DEF Inv

LEMMA SampleOnceKeeps ==
  ASSUME Inv, NEW c \in Conns, SampleOnce(c)
  PROVE  Inv'
<1>1. PICK q \in Quotes : OfferQuote(<<c, q>>)
  BY DEF SampleOnce
<1>2. /\ c \in own /\ <<c, "end">> \notin issued /\ Track(c)
      /\ UNCHANGED <<phase, lossDue, deferred, pauseReason, meta, writing, db, told, spent,
                     own, metadataQ, controlQ>>
  BY DEF SampleOnce, Open, Rest
<1>3. PICK r : r = <<c, q>>
  OBVIOUS
<1>4. r \in Record /\ r[1] = c /\ r[2] \in Quotes
  BY <1>3 DEF Record, Kinds
<1>5. /\ quoteQ' \in Seq(Record) /\ Len(quoteQ') <= QuoteMax
      /\ LossType' /\ LossInv' /\ OrderInv' /\ KindsInv'
      /\ Queued' \cup Lost' = Queued \cup Lost \cup {r} /\ issued' = issued \cup {r}
  BY <1>1, <1>2, <1>3, <1>4, OfferQuoteKeeps
<1>6. <<c, "start">> \in issued'
  BY <1>2, <1>5 DEF Inv, IssuedInv, Started
<1>7. IssuedInv' /\ HandInv' /\ KeptInv' /\ BatchInv' /\ EndTellsAll'
  <2>1. own' \subseteq Conns /\ own' \ own \subseteq {c} \ Started
    BY <1>2 DEF Inv, TypeOK
  <2>2. PICK R \in SUBSET Record : R = {r}  BY <1>4
  <2>3. \A x \in R : x[1] = c  BY <1>4, <2>2
  <2> QED  BY <1>2, <1>5, <1>6, <2>1, <2>2, <2>3, OfferKeeps
<1>8. TypeOK'
  <2>1. live' \in Seq(Conns) /\ Len(live') <= LiveMax
    BY <1>2, TrackKeeps DEF Inv, TypeOK, QueuesType
  <2>2. QueuesType'
    BY <1>2, <1>5, <2>1 DEF Inv, TypeOK, QueuesType
  <2>3. WorkType'
    BY <1>2, <1>5 DEF Inv, TypeOK, WorkType
  <2>4. issued' \subseteq Record
    BY <1>4, <1>5 DEF Inv, TypeOK
  <2> QED  BY <1>2, <1>5, <2>2, <2>3, <2>4 DEF Inv, TypeOK
<1> QED  BY <1>5, <1>7, <1>8 DEF Inv

\* A tick size of a connection, or a poll, which is of none.
LEMMA MetadataOfferKeeps ==
  ASSUME Inv, NEW c \in Conns \cup {None}, NEW r \in Record, r[1] = c, r[2] \in {"tick", "poll"},
         c = None \/ (c \in own /\ <<c, "end">> \notin issued),
         OfferMetadata(r), live' \in Seq(Conns), Len(live') <= LiveMax, Rest,
         UNCHANGED <<own, controlQ, quoteQ>>
  PROVE  Inv'
<1>2. UNCHANGED <<phase, lossDue, deferred, pauseReason, meta, writing, db, told, spent>>
  BY DEF Rest
<1>5. /\ metadataQ' \in Seq(Record) /\ Len(metadataQ') <= MetadataMax
      /\ LossType' /\ LossInv' /\ OrderInv' /\ KindsInv'
      /\ Queued' \cup Lost' = Queued \cup Lost \cup {r} /\ issued' = issued \cup {r}
  BY <1>2, OfferMetadataKeeps
<1>6. c = None \/ <<c, "start">> \in issued'
  BY <1>5 DEF Inv, IssuedInv, Started
<1>7. IssuedInv' /\ HandInv' /\ KeptInv' /\ BatchInv' /\ EndTellsAll'
  <2>1. own' \subseteq Conns /\ own' \ own \subseteq {c} \ Started
    BY DEF Inv, TypeOK
  <2>2. PICK R \in SUBSET Record : R = {r}  OBVIOUS
  <2>3. \A x \in R : x[1] = c  BY <2>2
  <2> QED  BY <1>2, <1>5, <1>6, <2>1, <2>2, <2>3, OfferKeeps
<1>8. TypeOK'
  <2>2. QueuesType'
    BY <1>5 DEF Inv, TypeOK, QueuesType
  <2>3. WorkType'
    BY <1>2, <1>5 DEF Inv, TypeOK, WorkType
  <2>4. issued' \subseteq Record
    BY <1>5 DEF Inv, TypeOK
  <2> QED  BY <1>2, <1>5, <2>2, <2>3, <2>4 DEF Inv, TypeOK
<1> QED  BY <1>5, <1>7, <1>8 DEF Inv

LEMMA TickSizeChangeKeeps ==
  ASSUME Inv, NEW c \in Conns, TickSizeChange(c)
  PROVE  Inv'
<1>1. <<c, "tick">> \in Record
  BY DEF Record, Kinds
<1>2. live' \in Seq(Conns) /\ Len(live') <= LiveMax
  BY TrackKeeps DEF Inv, TypeOK, QueuesType, TickSizeChange
<1> QED  BY <1>1, <1>2, MetadataOfferKeeps DEF TickSizeChange, Open

LEMMA PollMarketOnceKeeps ==
  ASSUME Inv, PollMarketOnce
  PROVE  Inv'
<1>1. <<None, "poll">> \in Record
  BY DEF Record
<1>2. live' \in Seq(Conns) /\ Len(live') <= LiveMax
  BY DEF Inv, TypeOK, QueuesType, PollMarketOnce
<1> QED  BY <1>1, <1>2, MetadataOfferKeeps DEF PollMarketOnce

----------------------------------------------------------------------------
(* Steps that move no record, and the quote worker. *)

LEMMA FrameKeeps ==
  ASSUME Inv, UNCHANGED <<own, queues, meta, writing, issued, db, told>>,
         phase' \in {"up", "closing", "down"}, lossDue' \in BOOLEAN,
         pauseReason' \in {Unknown, AtCap, ""}, spent' \in 0..MaxFaults
  PROVE  Inv'
<1> USE DEF queues
<1>1. TypeOK'
  <2>1. QueuesType'  BY DEF Inv, TypeOK, QueuesType
  <2>2. LossType'  BY DEF Inv, TypeOK, LossType
  <2>3. WorkType'  BY DEF Inv, TypeOK, WorkType
  <2> QED  BY <2>1, <2>2, <2>3 DEF Inv, TypeOK
<1>2. Queued' = Queued /\ Lost' = Lost /\ Started' = Started
  <2>1. Queued' = Queued  BY DEF Queued, Elements
  <2>2. Lost' = Lost  BY DEF Lost, Counted, CountedBy
  <2> QED  BY <2>1, <2>2 DEF Started
<1>3. IssuedInv' /\ HandInv'
  BY <1>2 DEF Inv, IssuedInv, HandInv
<1>4. KindsInv' /\ OrderInv'
  BY DEF Inv, KindsInv, OrderInv, Elements
<1>5. LossInv'
  BY DEF Inv, LossInv
<1>6. KeptInv' /\ BatchInv' /\ EndTellsAll'
  BY <1>2 DEF Inv, KeptInv, BatchInv, EndTellsAll, Somewhere, Of
<1> QED  BY <1>1, <1>3, <1>4, <1>5, <1>6 DEF Inv

LEMMA FaultCounts ==
  ASSUME TypeOK, Fault
  PROVE  spent' \in 0..MaxFaults
<1>1. spent \in 0..MaxFaults  BY DEF TypeOK
<1>2. spent < MaxFaults /\ spent' = spent + 1  BY DEF Fault
<1> QED  BY <1>1, <1>2, EvidenceAssumption

LEMMA TakeQuotesKeeps ==
  ASSUME Inv, TakeQuotes
  PROVE  Inv'
<1> DEFINE n == Lesser(BatchSize, Len(quoteQ))
<1>1. /\ writing = {} /\ writing' = Elements(SubSeq(quoteQ, 1, n))
      /\ quoteQ' = SubSeq(quoteQ, n + 1, Len(quoteQ))
      /\ UNCHANGED <<phase, own, metadataQ, controlQ, losses, overflow, deferred, live, lossDue, pauseReason,
                     meta, issued, told, db, spent>>
  BY DEF TakeQuotes, QuoteRest
<1>2. quoteQ \in Seq(Record) /\ Len(quoteQ) \in Nat /\ Len(quoteQ) <= QuoteMax /\ QuoteMax \in Nat
  <2>1. quoteQ \in Seq(Record) /\ Len(quoteQ) <= QuoteMax  BY DEF Inv, TypeOK, QueuesType
  <2> QED  BY <2>1, EvidenceAssumption
<1>3. n \in 0..Len(quoteQ)
  BY <1>2, EvidenceAssumption DEF Lesser
<1> HIDE DEF n
<1>4. /\ quoteQ' \in Seq(Record) /\ Len(quoteQ') <= QuoteMax
      /\ writing' \cup Elements(quoteQ') = Elements(quoteQ)
  BY <1>1, <1>2, <1>3, SplitElements
<1>5. writing' \subseteq Record
  BY <1>2, <1>4, InElements
<1>6. Queued' = Queued
  BY <1>1, <1>4 DEF Queued, Elements
<1>7. Lost' = Lost /\ Started' = Started
  <2>1. Lost' = Lost  BY <1>1 DEF Lost, Counted, CountedBy
  <2> QED  BY <1>1, <2>1 DEF Started
<1>8. TypeOK'
  <2>1. QueuesType'  BY <1>1, <1>4 DEF Inv, TypeOK, QueuesType
  <2>2. LossType'  BY <1>1 DEF Inv, TypeOK, LossType
  <2>3. WorkType'  BY <1>1, <1>5 DEF Inv, TypeOK, WorkType
  <2> QED  BY <1>1, <2>1, <2>2, <2>3 DEF Inv, TypeOK
<1>9. IssuedInv' /\ HandInv'
  BY <1>1, <1>6, <1>7 DEF Inv, IssuedInv, HandInv
<1>10. KindsInv'
  BY <1>1, <1>4 DEF Inv, KindsInv, Elements
<1>11. OrderInv' /\ LossInv'
  <2>1. OrderInv'  BY <1>1 DEF Inv, OrderInv
  <2>2. LossInv'  BY <1>1 DEF Inv, LossInv
  <2> QED  BY <2>1, <2>2
<1>12. KeptInv' /\ BatchInv' /\ EndTellsAll'
  BY <1>1, <1>6, <1>7 DEF Inv, KeptInv, BatchInv, EndTellsAll, Somewhere, Of
<1> QED  BY <1>8, <1>9, <1>10, <1>11, <1>12 DEF Inv

\* Quotes that become durable end no session, whether or not the worker learns of it.
LEMMA QuotesWrittenKeeps ==
  ASSUME Inv, PersistQuotes \/ PersistQuotesFails
  PROVE  Inv'
<1>1. /\ db \subseteq db' /\ db' \subseteq db \cup writing
      /\ writing' \subseteq writing /\ writing \subseteq db' \cup writing'
      /\ UNCHANGED <<phase, own, metadataQ, controlQ, quoteQ, losses, overflow, deferred, live, lossDue,
                     pauseReason, meta, issued, told>>
  BY DEF PersistQuotes, PersistQuotesFails, QuoteRest
<1>2. spent' \in 0..MaxFaults
  BY FaultCounts DEF Inv, TypeOK, PersistQuotes, PersistQuotesFails
<1>3. writing \subseteq issued /\ writing \subseteq Record /\ \A r \in writing : r[2] \in Quotes
  BY DEF Inv, IssuedInv, Queued, KindsInv, TypeOK, WorkType
<1>4. /\ Queued' \subseteq Queued /\ Queued \subseteq Queued' \cup db'
      /\ Lost' = Lost /\ Started' = Started
  <2>1. Lost' = Lost  BY <1>1 DEF Lost, Counted, CountedBy
  <2>2. Queued' \subseteq Queued /\ Queued \subseteq Queued' \cup db'  BY <1>1 DEF Queued, Elements
  <2> QED  BY <1>1, <2>1, <2>2 DEF Started
<1>5. TypeOK'
  <2>1. QueuesType'  BY <1>1 DEF Inv, TypeOK, QueuesType
  <2>2. LossType'  BY <1>1 DEF Inv, TypeOK, LossType
  <2>3. db' \subseteq Rows  BY <1>1, <1>3 DEF Inv, TypeOK, WorkType, Rows
  <2>4. WorkType'  BY <1>1, <1>3, <2>3 DEF Inv, TypeOK, WorkType
  <2> QED  BY <1>1, <1>2, <2>1, <2>2, <2>4 DEF Inv, TypeOK
<1>6. IssuedInv'
  BY <1>1, <1>3, <1>4 DEF Inv, IssuedInv
<1>7. HandInv'
  BY <1>1, <1>4 DEF Inv, HandInv
<1>8. KindsInv'
  BY <1>1 DEF Inv, KindsInv, Elements
<1>9. OrderInv' /\ LossInv'
  <2>1. OrderInv'  BY <1>1 DEF Inv, OrderInv
  <2>2. LossInv'  BY <1>1 DEF Inv, LossInv
  <2> QED  BY <2>1, <2>2
<1>10. KeptInv'
  BY <1>1, <1>4 DEF Inv, KeptInv, Somewhere, Of
<1>11. BatchInv'
  BY <1>1 DEF Inv, BatchInv, Of
<1>12. EndTellsAll'
  <2>1. \A c \in Conns : <<c, "end">> \notin writing
    BY <1>3, QuotesAreNames DEF Control
  <2> QED  BY <1>1, <2>1 DEF Inv, EndTellsAll, Of
<1> QED  BY <1>5, <1>6, <1>7, <1>8, <1>9, <1>10, <1>11, <1>12 DEF Inv

----------------------------------------------------------------------------
(* Recovery. *)

\* Nothing that recovery writes ends a session in its own name, or is a record of one.
LEMMA RecoveryKeeps ==
  ASSUME Inv, Recovering, MetaRest, InRecovery, told' = told, spent' \in 0..MaxFaults,
         meta' \in [does : {"idle", "sessions", "orphans", "finishing"}, rows : SUBSET Unclean(Started),
                    lost : {{}}, cursor : Conns \cup {0}],
         meta'.does = "idle" => meta'.rows = {},
         db \subseteq db', db' \subseteq db \cup meta.rows
  PROVE  Inv'
<1>1. UNCHANGED <<phase, own, quoteQ, live, pauseReason, writing, issued,
                  metadataQ, controlQ, losses, overflow, deferred, lossDue, told>>
  BY DEF MetaRest, InRecovery
<1>2. Queued' = Queued /\ Lost' = Lost /\ Started' = Started
  <2>1. Queued' = Queued  BY <1>1 DEF Queued, Elements
  <2>2. Lost' = Lost  BY <1>1 DEF Lost, Counted, CountedBy
  <2> QED  BY <1>1, <2>1, <2>2 DEF Started
<1>3. meta.rows \subseteq Unclean(Started) /\ meta.lost = {} /\ meta.does # "writing"
  BY DEF Inv, HandInv, Recovering
<1>4. Unclean(Started) \subseteq Rows
  BY DEF Unclean, Started, Rows
<1>5. \A r \in Unclean(Started) : r[2] = "unclean" /\ r \notin Record
  BY QuotesAreNames DEF Unclean, Record, Kinds, Control
<1>6. meta'.rows \subseteq Unclean(Started) /\ meta'.lost = {} /\ meta'.does # "writing"
  OBVIOUS
<1>7. TypeOK'
  <2>1. QueuesType'  BY <1>1 DEF Inv, TypeOK, QueuesType
  <2>2. LossType'  BY <1>1 DEF Inv, TypeOK, LossType
  <2>3. db' \subseteq Rows  BY <1>3, <1>4 DEF Inv, TypeOK, WorkType
  <2>4. meta' \in [does : {"idle", "sessions", "orphans", "finishing", "writing"},
                   rows : SUBSET Rows, lost : SUBSET Record, cursor : Conns \cup {0}]
    BY <1>4
  <2>5. WorkType'  BY <1>1, <2>3, <2>4 DEF Inv, TypeOK, WorkType
  <2> QED  BY <1>1, <2>1, <2>2, <2>5 DEF Inv, TypeOK
<1>8. IssuedInv'
  BY <1>1, <1>2, <1>3, <1>6 DEF Inv, IssuedInv
<1>9. HandInv'
  BY <1>2, <1>6 DEF HandInv
<1>10. KindsInv' /\ OrderInv' /\ LossInv'
  <2>1. KindsInv'  BY <1>1 DEF Inv, KindsInv, Elements
  <2>2. OrderInv'  BY <1>1 DEF Inv, OrderInv
  <2>3. LossInv'  BY <1>1 DEF Inv, LossInv
  <2> QED  BY <2>1, <2>2, <2>3
<1>11. BatchInv'
  BY <1>6 DEF BatchInv
<1>12. KeptInv'
  <2>1. \A r \in issued : Somewhere(r) => Somewhere(r)'
    BY <1>1, <1>2, <1>3, <1>5 DEF Somewhere, Inv, TypeOK
  <2> QED  BY <1>1, <2>1 DEF Inv, KeptInv, Of
<1>13. EndTellsAll'
  <2>1. \A c \in Conns : <<c, "end">> \in db' => <<c, "end">> \in db
    BY <1>3, <1>5
  <2> QED  BY <1>1, <2>1 DEF Inv, EndTellsAll, Of
<1> QED  BY <1>7, <1>8, <1>9, <1>10, <1>11, <1>12, <1>13 DEF Inv

\* A connection with something durable has started.
LEMMA DurableIsStarted ==
  ASSUME Inv, NEW c \in Conns, NEW k \in Kinds, <<c, k>> \in db
  PROVE  c \in Started
<1>1. <<c, k>> \in issued \/ <<c, k>> \in Unclean(Started)
  BY DEF Inv, IssuedInv
<1> QED  BY <1>1, EvidenceAssumption DEF Inv, IssuedInv, Unclean

LEMMA ScanSessionsKeeps ==
  ASSUME Inv, ScanSessions
  PROVE  Inv'
<1>1. PICK S \in SUBSET Unended :
        meta' = IF S = {} THEN [meta EXCEPT !.does = "orphans"]
                ELSE [meta EXCEPT !.does = "finishing", !.rows = Unclean(S)]
  BY DEF ScanSessions
<1>2. Recovering /\ MetaRest /\ InRecovery /\ UNCHANGED <<db, told, spent>>
  BY DEF ScanSessions, Recovering
<1>3. S \subseteq Started
  BY DurableIsStarted DEF Unended, Kinds, Control
<1>4. PICK m \in [does : {"idle", "sessions", "orphans", "finishing", "writing"},
                  rows : SUBSET Rows, lost : SUBSET Record, cursor : Conns \cup {0}] : m = meta
  BY DEF Inv, TypeOK, WorkType
<1>5. m.lost = {} /\ m.rows \subseteq Unclean(Started)
  BY <1>2, <1>4 DEF Inv, HandInv, Recovering
<1>6. Unclean(S) \subseteq Unclean(Started)
  BY <1>3 DEF Unclean
<1>7. /\ meta' \in [does : {"idle", "sessions", "orphans", "finishing"}, rows : SUBSET Unclean(Started),
                    lost : {{}}, cursor : Conns \cup {0}]
      /\ meta'.does # "idle"
  <2>1. CASE S = {}
    <3>1. meta' = [m EXCEPT !.does = "orphans"]  BY <1>1, <1>4, <2>1
    <3> QED  BY <1>5, <3>1
  <2>2. CASE S # {}
    <3>1. meta' = [m EXCEPT !.does = "finishing", !.rows = Unclean(S)]  BY <1>1, <1>4, <2>2
    <3> QED  BY <1>5, <1>6, <3>1
  <2> QED  BY <2>1, <2>2
<1> QED  BY <1>2, <1>7, RecoveryKeeps DEF Inv, TypeOK

LEMMA ScanOrphansKeeps ==
  ASSUME Inv, ScanOrphans
  PROVE  Inv'
<1> DEFINE candidates == {c \in Conns : c > meta.cursor /\ \E q \in Quotes : <<c, q>> \in db}
           page == {c \in candidates : Cardinality({d \in candidates : d < c}) < PageSize}
           orphaned == {c \in page : Orphan(c)}
<1>1. /\ \/ page = {} /\ meta' = Idle
         \/ \E last \in page :
              meta' = [does |-> IF orphaned = {} THEN "orphans" ELSE "finishing",
                       rows |-> Unclean(orphaned), lost |-> {}, cursor |-> last]
      /\ Recovering /\ MetaRest /\ InRecovery /\ UNCHANGED <<db, told, spent>>
  BY DEF ScanOrphans, Recovering
<1>2. page \subseteq Conns
  OBVIOUS
<1>3. orphaned \subseteq Started
  BY DurableIsStarted DEF Kinds
<1>4. Unclean(orphaned) \subseteq Unclean(Started)
  BY <1>3 DEF Unclean
<1> HIDE DEF candidates, page, orphaned
<1>5. /\ meta' \in [does : {"idle", "sessions", "orphans", "finishing"}, rows : SUBSET Unclean(Started),
                    lost : {{}}, cursor : Conns \cup {0}]
      /\ meta'.does = "idle" => meta'.rows = {}
  BY <1>1, <1>2, <1>4 DEF Idle
<1> QED  BY <1>1, <1>5, RecoveryKeeps DEF Inv, TypeOK

LEMMA FinishRecoveredKeeps ==
  ASSUME Inv, FinishRecovered \/ RecoveryFails
  PROVE  Inv'
<1>1. /\ Recovering /\ MetaRest /\ InRecovery /\ told' = told
      /\ db' \in {db, db \cup Accepted(meta.rows)}
      /\ \/ meta' = [meta EXCEPT !.rows = {}, !.does = IF meta.cursor = 0 THEN "sessions" ELSE "orphans"]
         \/ meta' = Recovery
  BY DEF FinishRecovered, RecoveryFails, Recovering
<1>2. spent' \in 0..MaxFaults
  BY FaultCounts DEF Inv, TypeOK, FinishRecovered, RecoveryFails
<1>3. PICK m \in [does : {"idle", "sessions", "orphans", "finishing", "writing"},
                  rows : SUBSET Rows, lost : SUBSET Record, cursor : Conns \cup {0}] : m = meta
  BY DEF Inv, TypeOK, WorkType
<1>4. m.lost = {}
  BY <1>1, <1>3 DEF Inv, HandInv, Recovering
<1>5. /\ meta' \in [does : {"idle", "sessions", "orphans", "finishing"}, rows : SUBSET Unclean(Started),
                    lost : {{}}, cursor : Conns \cup {0}]
      /\ meta'.does # "idle"
  <2>1. CASE meta' = Recovery
    <3>1. meta' = [does |-> "sessions", rows |-> {}, lost |-> {}, cursor |-> 0]
      BY <2>1 DEF Recovery, Idle
    <3> QED  BY <3>1
  <2>2. CASE meta' = [meta EXCEPT !.rows = {}, !.does = IF meta.cursor = 0 THEN "sessions" ELSE "orphans"]
    <3>1. PICK does \in {"sessions", "orphans"} : meta' = [m EXCEPT !.rows = {}, !.does = does]
      BY <1>3, <2>2
    <3> QED  BY <1>4, <3>1
  <2> QED  BY <1>1, <2>1, <2>2
<1>6. db \subseteq db' /\ db' \subseteq db \cup meta.rows
  BY <1>1 DEF Accepted
<1> QED  BY <1>1, <1>2, <1>5, <1>6, RecoveryKeeps

----------------------------------------------------------------------------
(* Transactions of the metadata worker, and the end of the process. *)

\* What may become durable of what the workers have in hand.
LEMMA CommitTells ==
  ASSUME Inv, NEW w \in SUBSET writing, NEW landed \in BOOLEAN,
         db' = db \cup w \cup IF landed THEN Accepted(meta.rows) ELSE {},
         told' = told \cup IF landed THEN meta.lost ELSE {}
  PROVE  /\ db' \subseteq Rows /\ db' \subseteq issued \cup Unclean(Started) /\ told' \subseteq issued
         /\ \A c \in Conns : <<c, "end">> \in db' => Of(c) \subseteq db' \cup told'
<1>1. db' \subseteq db \cup writing \cup meta.rows /\ Accepted(meta.rows) \subseteq meta.rows
  BY DEF Accepted
<1>2. writing \subseteq issued /\ writing \subseteq Record /\ \A r \in writing : r[2] \in Quotes
  BY DEF Inv, IssuedInv, Queued, KindsInv, TypeOK, WorkType
<1>3. db' \subseteq Rows
  BY <1>1, <1>2 DEF Inv, TypeOK, WorkType, Rows
<1>4. db' \subseteq issued \cup Unclean(Started) /\ told' \subseteq issued
  BY <1>1, <1>2 DEF Inv, IssuedInv
<1>5. ASSUME NEW c \in Conns, <<c, "end">> \in db' PROVE Of(c) \subseteq db' \cup told'
  <2>1. CASE <<c, "end">> \in db
    <3>1. Of(c) \subseteq db \cup told  BY <2>1 DEF Inv, EndTellsAll
    <3> QED  BY <3>1
  <2>2. CASE <<c, "end">> \notin db
    <3>1. <<c, "end">> \notin writing
      BY <1>2, QuotesAreNames DEF Control
    <3>2. landed /\ <<c, "end">> \in Accepted(meta.rows)
      BY <1>5, <2>2, <3>1
    <3>3. <<c, "end">> \in meta.rows
      BY <1>1, <3>2
    <3>4. meta.does = "writing"
      BY <3>3 DEF Inv, HandInv, Unclean
    <3>5. Of(c) \subseteq db \cup told \cup meta.rows \cup meta.lost
      BY <3>3, <3>4 DEF Inv, BatchInv
    <3>6. \A r \in Of(c) : r \in Record /\ r[1] = c
      BY DEF Inv, TypeOK, Of
    <3>7. \A r \in Of(c) : r \in meta.rows => r \in Accepted(meta.rows)
      <4> SUFFICES ASSUME NEW r \in Of(c), r \in meta.rows, r # <<c, "end">> PROVE r \in Accepted(meta.rows)
        BY <3>2
      <4>1. r[2] # "end" /\ r[2] # "unclean"
        BY <3>6, QuotesAreNames, EvidenceAssumption DEF Record, Kinds, Control
      <4> QED  BY <4>1 DEF Accepted
    <3> QED  BY <3>2, <3>5, <3>7
  <2> QED  BY <2>1, <2>2
<1> QED  BY <1>3, <1>4, <1>5

LEMMA PersistMetadataKeeps ==
  ASSUME Inv, PersistMetadata \/ PersistMetadataFails
  PROVE  Inv'
<1>1. PICK landed \in BOOLEAN :
        /\ db' = db \cup IF landed THEN Accepted(meta.rows) ELSE {}
        /\ told' = told \cup IF landed THEN meta.lost ELSE {}
        /\ meta' = meta \/ (landed /\ meta' = Idle)
  <2>1. CASE PersistMetadata
    BY <2>1 DEF PersistMetadata
  <2>2. CASE PersistMetadataFails
    BY <2>2 DEF PersistMetadataFails
  <2> QED  BY <2>1, <2>2
<1>2. /\ meta.does = "writing"
      /\ UNCHANGED <<phase, own, quoteQ, live, pauseReason, writing, issued,
                     metadataQ, controlQ, losses, overflow, deferred, lossDue>>
  BY DEF PersistMetadata, PersistMetadataFails, MetaRest, InRecovery
<1>3. spent' \in 0..MaxFaults
  BY FaultCounts DEF Inv, TypeOK, PersistMetadata, PersistMetadataFails
<1>4. /\ db' \subseteq Rows /\ db' \subseteq issued \cup Unclean(Started) /\ told' \subseteq issued
      /\ \A c \in Conns : <<c, "end">> \in db' => Of(c) \subseteq db' \cup told'
  <2>1. PICK w \in SUBSET writing : w = {}  OBVIOUS
  <2>2. db' = db \cup w \cup IF landed THEN Accepted(meta.rows) ELSE {}  BY <1>1, <2>1
  <2> QED  BY <1>1, <2>2, CommitTells
<1>5. Queued' = Queued /\ Lost' = Lost /\ Started' = Started
  <2>1. Queued' = Queued  BY <1>2 DEF Queued, Elements
  <2>2. Lost' = Lost  BY <1>2 DEF Lost, Counted, CountedBy
  <2> QED  BY <1>2, <2>1, <2>2 DEF Started
<1>6. TypeOK'
  <2>1. QueuesType'  BY <1>2 DEF Inv, TypeOK, QueuesType
  <2>2. LossType'  BY <1>2 DEF Inv, TypeOK, LossType
  <2>3. meta' \in [does : {"idle", "sessions", "orphans", "finishing", "writing"},
                   rows : SUBSET Rows, lost : SUBSET Record, cursor : Conns \cup {0}]
    <3>1. CASE meta' = meta
      BY <3>1 DEF Inv, TypeOK, WorkType
    <3>2. CASE meta' = Idle
      BY <3>2 DEF Idle
    <3> QED  BY <1>1, <3>1, <3>2
  <2>4. WorkType'  BY <1>2, <1>4, <2>3 DEF Inv, TypeOK, WorkType
  <2> QED  BY <1>2, <1>3, <2>1, <2>2, <2>4 DEF Inv, TypeOK
<1>7. meta' = meta \/ (meta'.does = "idle" /\ meta'.rows = {} /\ meta'.lost = {})
  BY <1>1 DEF Idle
<1>8. IssuedInv'
  BY <1>2, <1>4, <1>5, <1>7 DEF Inv, IssuedInv
<1>9. HandInv'
  BY <1>2, <1>5, <1>7 DEF Inv, HandInv
<1>10. KindsInv' /\ OrderInv' /\ LossInv'
  <2>1. KindsInv'  BY <1>2 DEF Inv, KindsInv, Elements
  <2>2. OrderInv'  BY <1>2 DEF Inv, OrderInv
  <2>3. LossInv'  BY <1>2 DEF Inv, LossInv
  <2> QED  BY <2>1, <2>2, <2>3
<1>11. BatchInv'
  <2> SUFFICES ASSUME NEW c \in Conns, meta'.does = "writing", <<c, "end">> \in meta'.rows
               PROVE  Of(c) \subseteq db' \cup told' \cup meta'.rows \cup meta'.lost
    BY <1>2 DEF BatchInv, Of
  <2>1. meta' = meta  BY <1>7
  <2>2. Of(c) \subseteq db \cup told \cup meta.rows \cup meta.lost  BY <1>2, <2>1 DEF Inv, BatchInv
  <2> QED  BY <1>1, <2>1, <2>2
<1>12. KeptInv'
  <2> SUFFICES ASSUME NEW c \in own, NEW r \in Of(c), r[2] # "end" PROVE Somewhere(r)'
    BY <1>2 DEF KeptInv, Of
  <2>1. Somewhere(r)  BY DEF Inv, KeptInv
  <2>2. r \in meta.rows => r \in Accepted(meta.rows)
    <3>1. r \in Record  BY DEF Of, Inv, TypeOK
    <3>2. r[2] # "unclean"  BY <3>1, QuotesAreNames, EvidenceAssumption DEF Record, Kinds, Control
    <3> QED  BY <3>2 DEF Accepted
  <2> QED  BY <1>1, <1>5, <2>1, <2>2 DEF Somewhere
<1>13. EndTellsAll'
  BY <1>2, <1>4 DEF EndTellsAll, Of
<1> QED  BY <1>6, <1>8, <1>9, <1>10, <1>11, <1>12, <1>13 DEF Inv

LEMMA GoneKeeps ==
  ASSUME Inv, Gone, spent' \in 0..MaxFaults
  PROVE  Inv'
<1>1. /\ phase' = "down" /\ own' = {} /\ metadataQ' = <<>> /\ controlQ' = <<>> /\ quoteQ' = <<>>
      /\ losses' = <<>> /\ overflow' = {} /\ lossDue' = TRUE /\ deferred' = {} /\ live' = <<>>
      /\ pauseReason' = Unknown /\ meta' = Recovery /\ writing' = {} /\ issued' = issued
  BY DEF Gone
<1>2. /\ db' \subseteq Rows /\ db' \subseteq issued \cup Unclean(Started) /\ told' \subseteq issued
      /\ \A c \in Conns : <<c, "end">> \in db' => Of(c) \subseteq db' \cup told'
  <2>1. PICK w \in SUBSET writing, landed \in BOOLEAN :
          /\ db' = db \cup w \cup IF landed THEN Accepted(meta.rows) ELSE {}
          /\ told' = told \cup IF landed THEN meta.lost ELSE {}
    BY DEF Gone
  <2> QED  BY <2>1, CommitTells
<1>3. meta' = [does |-> "sessions", rows |-> {}, lost |-> {}, cursor |-> 0]
  BY <1>1 DEF Recovery, Idle
<1>4. Elements(metadataQ') = {} /\ Elements(controlQ') = {} /\ Elements(quoteQ') = {}
  BY <1>1 DEF Elements
<1>5. DOMAIN losses' = {}
  BY <1>1
<1>6. Queued' = {} /\ Lost' = {} /\ Started' = Started
  <2>1. Queued' = {}  BY <1>1, <1>4 DEF Queued
  <2>2. Lost' = {}  BY <1>1, <1>5 DEF Lost, Counted, CountedBy
  <2> QED  BY <1>1, <2>1, <2>2 DEF Started
<1>7. TypeOK'
  <2>1. QueuesType'  BY <1>1, EvidenceAssumption DEF QueuesType
  <2>2. LossType'
    <3>1. Cardinality(DOMAIN losses') <= MaxLossScopes  BY <1>5, FS_EmptySet, EvidenceAssumption
    <3> QED  BY <1>1, <1>5, <3>1 DEF LossType
  <2>3. WorkType'  BY <1>1, <1>2, <1>3 DEF WorkType
  <2> QED  BY <1>1, <2>1, <2>2, <2>3 DEF Inv, TypeOK, Unknown
<1>8. IssuedInv'
  BY <1>1, <1>2, <1>3, <1>6 DEF Inv, IssuedInv
<1>9. HandInv' /\ BatchInv'
  BY <1>3 DEF HandInv, BatchInv
<1>10. KindsInv' /\ OrderInv' /\ LossInv' /\ KeptInv'
  <2>1. KindsInv'  BY <1>1, <1>4 DEF KindsInv
  <2>2. OrderInv'  BY <1>1 DEF OrderInv
  <2>3. LossInv'  BY <1>5, FS_EmptySet DEF LossInv
  <2>4. KeptInv'  BY <1>1 DEF KeptInv
  <2> QED  BY <2>1, <2>2, <2>3, <2>4
<1>11. EndTellsAll'
  BY <1>1, <1>2 DEF EndTellsAll, Of
<1> QED  BY <1>7, <1>8, <1>9, <1>10, <1>11 DEF Inv

----------------------------------------------------------------------------
(* The next batch of the metadata worker. *)

\* What a batch is made of: ends that were deferred, control records that are not, other records,
\* and losses; what it leaves behind.
BatchOf(ready, n, m, first, rows, L, shared, lost) ==
  /\ ready \subseteq deferred /\ \A c \in ready : ~ConnectionPending(c)
  /\ n \in 0..Len(controlQ) /\ m \in 0..Len(metadataQ)
  /\ first = {<<c, "end">> : c \in ready} \cup {controlQ[j] : j \in {j \in 1..n : ~Defers(controlQ[j])}}
  /\ rows = first \cup Elements(SubSeq(metadataQ, 1, m))
  /\ controlQ' = SubSeq(controlQ, n + 1, Len(controlQ))
  /\ deferred' = (deferred \ ready) \cup {controlQ[i][1] : i \in {j \in 1..n : Defers(controlQ[j])}}
  /\ metadataQ' = SubSeq(metadataQ, m + 1, Len(metadataQ))
  /\ L \subseteq DOMAIN losses /\ {k \in DOMAIN losses : <<k[1], "end">> \in rows} \subseteq L
  /\ shared \subseteq overflow
  /\ (\E r \in rows : r[2] = "end") => shared = overflow
  /\ lost = CountedBy(L) \cup shared
  /\ losses' = [k \in DOMAIN losses \ L |-> losses[k]]
  /\ overflow' = overflow \ shared
  /\ lossDue' = (lossDue /\ lost = {})
  /\ meta' = IF rows = {} /\ lost = {} THEN meta
             ELSE [meta EXCEPT !.does = "writing", !.rows = rows, !.lost = lost]

LEMMA BatchParts ==
  ASSUME Inv, MetadataBatch
  PROVE  \E ready, n, m, first, rows, L, shared, lost : BatchOf(ready, n, m, first, rows, L, shared, lost)
<1> DEFINE Kept(n, i) == {j \in 1..i : ~Defers(controlQ[j])}
           First(ready, n) == {<<c, "end">> : c \in ready} \cup {controlQ[j] : j \in Kept(n, n)}
           Taken(ready, n) == Lesser(Len(metadataQ), Left(BatchSize, Cardinality(First(ready, n))))
           Batch(ready, n) == First(ready, n) \cup Elements(SubSeq(metadataQ, 1, Taken(ready, n)))
           Common(rows, L) == \/ \E r \in rows : r[2] = "end"
                              \/ (lossDue \/ phase = "closing") /\ Cardinality(rows) + Cardinality(L) < BatchSize
           LostWith(rows, L) == CountedBy(L) \cup IF Common(rows, L) THEN overflow ELSE {}
<1>1. PICK ready \in SUBSET {c \in deferred : ~ConnectionPending(c)}, n \in 0..Len(controlQ) :
        /\ controlQ' = SubSeq(controlQ, n + 1, Len(controlQ))
        /\ deferred' = (deferred \ ready) \cup {controlQ[i][1] : i \in {j \in 1..n : Defers(controlQ[j])}}
        /\ metadataQ' = SubSeq(metadataQ, Taken(ready, n) + 1, Len(metadataQ))
        /\ \E L \in Flushed(Batch(ready, n)) :
             /\ losses' = [k \in DOMAIN losses \ L |-> losses[k]]
             /\ overflow' = IF Common(Batch(ready, n), L) THEN {} ELSE overflow
             /\ lossDue' = (lossDue /\ LostWith(Batch(ready, n), L) = {})
             /\ meta' = IF Batch(ready, n) = {} /\ LostWith(Batch(ready, n), L) = {} THEN meta
                        ELSE [meta EXCEPT !.does = "writing", !.rows = Batch(ready, n),
                                          !.lost = LostWith(Batch(ready, n), L)]
  BY ZenonT(60) DEF MetadataBatch
<1>2. PICK first : first = First(ready, n)
  OBVIOUS
<1>3. PICK m : m = Taken(ready, n)
  OBVIOUS
<1>4. PICK rows : rows = Batch(ready, n)
  OBVIOUS
<1>5. PICK L \in Flushed(rows) :
        /\ losses' = [k \in DOMAIN losses \ L |-> losses[k]]
        /\ overflow' = IF Common(rows, L) THEN {} ELSE overflow
        /\ lossDue' = (lossDue /\ LostWith(rows, L) = {})
        /\ meta' = IF rows = {} /\ LostWith(rows, L) = {} THEN meta
                   ELSE [meta EXCEPT !.does = "writing", !.rows = rows, !.lost = LostWith(rows, L)]
  BY <1>1, <1>4
<1>6. PICK shared : shared = IF Common(rows, L) THEN overflow ELSE {}
  OBVIOUS
<1>7. L \subseteq DOMAIN losses /\ {k \in DOMAIN losses : <<k[1], "end">> \in rows} \subseteq L
  BY DEF Flushed
<1>8. metadataQ \in Seq(Record) /\ Len(metadataQ) \in Nat
  <2>1. metadataQ \in Seq(Record)  BY DEF Inv, TypeOK, QueuesType
  <2> QED  BY <2>1
<1>9. Cardinality(first) \in Nat
  <2> DEFINE P == {j \in 1..n : ~Defers(controlQ[j])}
             C == {controlQ[j] : j \in P}
             E == {<<c, "end">> : c \in ready}
             f == [j \in P |-> controlQ[j]]
             g == [c \in ready |-> <<c, "end">>]
  <2>1. IsFiniteSet(P)
    <3>1. IsFiniteSet(1..n)  BY FS_Interval
    <3> QED  BY <3>1, FS_Subset
  <2>2. IsFiniteSet(C)
    <3>1. f \in Surjection(P, C)  BY DEF Surjection
    <3> QED  BY <2>1, <3>1, FS_Surjection
  <2>3. IsFiniteSet(ready)
    <3>1. ready \subseteq Started  BY DEF Inv, OrderInv, IssuedInv
    <3> QED  BY <3>1, FS_Subset DEF Inv, IssuedInv
  <2>4. IsFiniteSet(E)
    <3>1. g \in Surjection(ready, E)  BY DEF Surjection
    <3> QED  BY <2>3, <3>1, FS_Surjection
  <2>5. first = E \cup C
    BY <1>2
  <2> HIDE DEF C, E
  <2> QED  BY <2>2, <2>4, <2>5, FS_Union, FS_CardinalityType
<1>10. m \in 0..Len(metadataQ)
  BY <1>2, <1>3, <1>8, <1>9, EvidenceAssumption DEF Lesser, Left
<1>11. PICK lost : lost = LostWith(rows, L)
  OBVIOUS
<1>12. lost = CountedBy(L) \cup shared
  BY <1>6, <1>11
<1>13. /\ shared \subseteq overflow
       /\ (\E r \in rows : r[2] = "end") => shared = overflow
  BY <1>6
<1>14. rows = first \cup Elements(SubSeq(metadataQ, 1, m))
  BY <1>2, <1>3, <1>4
<1>15. first = {<<c, "end">> : c \in ready} \cup {controlQ[j] : j \in {j \in 1..n : ~Defers(controlQ[j])}}
  BY <1>2
<1>16. metadataQ' = SubSeq(metadataQ, m + 1, Len(metadataQ))
  BY <1>1, <1>3
<1> HIDE DEF Kept, First, Taken, Batch
<1>17. overflow' = overflow \ shared
  BY <1>5, <1>6
<1> HIDE DEF Common
<1>18. /\ lossDue' = (lossDue /\ lost = {})
       /\ meta' = IF rows = {} /\ lost = {} THEN meta
                  ELSE [meta EXCEPT !.does = "writing", !.rows = rows, !.lost = lost]
  BY <1>5, <1>11
<1> HIDE DEF LostWith
<1>19. BatchOf(ready, n, m, first, rows, L, shared, lost)
  BY <1>1, <1>5, <1>6, <1>7, <1>10, <1>12, <1>13, <1>14, <1>15, <1>16, <1>17, <1>18 DEF BatchOf
<1> QED  BY <1>19

LEMMA MetadataBatchKeeps ==
  ASSUME Inv, MetadataBatch
  PROVE  Inv'
<1>1. PICK ready, n, m, first, rows, L, shared, lost : BatchOf(ready, n, m, first, rows, L, shared, lost)
  BY BatchParts
<1>2. /\ meta.does = "idle"
      /\ UNCHANGED <<phase, own, quoteQ, live, pauseReason, writing, issued, db, told, spent>>
  BY DEF MetadataBatch, MetaRest
<1>3. controlQ \in Seq(Record) /\ metadataQ \in Seq(Record)
  BY DEF Inv, TypeOK, QueuesType
<1>4. n \in 0..Len(controlQ) /\ m \in 0..Len(metadataQ)
  BY <1>1 DEF BatchOf
\* The rest of the queues.
<1>5. /\ controlQ' \in Seq(Record) /\ Len(controlQ') = Len(controlQ) - n
      /\ \A i \in 1..Len(controlQ') : controlQ'[i] = controlQ[n + i]
      /\ Elements(controlQ') \subseteq Elements(controlQ)
  <2>1. controlQ' = SubSeq(controlQ, n + 1, Len(controlQ))  BY <1>1 DEF BatchOf
  <2> QED  BY <1>3, <1>4, <2>1, SplitElements
<1>6. /\ metadataQ' \in Seq(Record) /\ Len(metadataQ') = Len(metadataQ) - m
      /\ Elements(SubSeq(metadataQ, 1, m)) \cup Elements(metadataQ') = Elements(metadataQ)
  <2>1. metadataQ' = SubSeq(metadataQ, m + 1, Len(metadataQ))  BY <1>1 DEF BatchOf
  <2> QED  BY <1>3, <1>4, <2>1, SplitElements
\* The batch.
<1>7. \A r \in first : \/ \E c \in ready : r = <<c, "end">>
                       \/ \E j \in 1..n : r = controlQ[j] /\ ~Defers(r)
  BY <1>1 DEF BatchOf
<1>8. \A c \in ready : c \in deferred /\ c \in own /\ <<c, "end">> \in issued /\ ~ConnectionPending(c)
  BY <1>1 DEF BatchOf, Inv, OrderInv
<1>9. \A j \in 1..n : j \in DOMAIN controlQ /\ controlQ[j] \in Elements(controlQ)
  BY <1>3, <1>4 DEF Elements
<1>10. rows \subseteq issued /\ rows \subseteq Record
  <2>1. first \subseteq issued
    BY <1>7, <1>8, <1>9 DEF Inv, IssuedInv, Queued
  <2>2. rows = first \cup Elements(SubSeq(metadataQ, 1, m))
    BY <1>1 DEF BatchOf
  <2>3. rows \subseteq issued
    BY <1>6, <2>1, <2>2 DEF Inv, IssuedInv, Queued
  <2> QED  BY <2>3 DEF Inv, TypeOK
<1>11. L \subseteq DOMAIN losses /\ {k \in DOMAIN losses : <<k[1], "end">> \in rows} \subseteq L
  BY <1>1 DEF BatchOf
<1>12. /\ DOMAIN losses' = DOMAIN losses \ L
       /\ \A k \in DOMAIN losses \ L : losses'[k] = losses[k]
  <2>1. losses' = [k \in DOMAIN losses \ L |-> losses[k]]
    BY <1>1 DEF BatchOf
  <2> QED  BY <2>1
<1>13. shared \subseteq overflow /\ overflow' = overflow \ shared /\ lossDue' = (lossDue /\ lost = {})
  BY <1>1 DEF BatchOf
<1>14. \A r : r \in lost <=> (\E k \in L : r \in losses[k]) \/ r \in shared
  <2>1. lost = CountedBy(L) \cup shared
    BY <1>1 DEF BatchOf
  <2>2. \A r : r \in CountedBy(L) <=> \E k \in L : r \in losses[k]
    BY DEF CountedBy
  <2> QED  BY <2>1, <2>2
<1>15. lost \subseteq Lost /\ Lost' \subseteq Lost /\ Lost \subseteq Lost' \cup lost
  <2>1. lost \subseteq Lost  BY <1>11, <1>13, <1>14 DEF Lost, Counted, CountedBy
  <2>2. Lost' \subseteq Lost  BY <1>12, <1>13 DEF Lost, Counted, CountedBy
  <2>3. Counted \subseteq Counted' \cup lost
    BY <1>11, <1>12, <1>14 DEF Counted, CountedBy
  <2>4. overflow \subseteq overflow' \cup lost
    BY <1>13, <1>14
  <2> QED  BY <2>1, <2>2, <2>3, <2>4 DEF Lost
<1>16. PICK old \in [does : {"idle", "sessions", "orphans", "finishing", "writing"},
                     rows : SUBSET Rows, lost : SUBSET Record, cursor : Conns \cup {0}] :
         old = meta /\ old.does = "idle" /\ old.rows = {} /\ old.lost = {}
  BY <1>2 DEF Inv, TypeOK, WorkType, HandInv
<1>17. lost \subseteq Record
  BY <1>15 DEF Inv, IssuedInv, TypeOK
<1>18. rows \subseteq Rows
  BY <1>10 DEF Rows
<1>19. /\ meta' \in [does : {"idle", "sessions", "orphans", "finishing", "writing"},
                     rows : SUBSET Rows, lost : SUBSET Record, cursor : Conns \cup {0}]
       /\ meta'.rows = rows /\ meta'.lost = lost
       /\ \/ meta'.does = "writing"
          \/ meta'.does = "idle" /\ rows = {} /\ lost = {}
  <2>1. meta' = IF rows = {} /\ lost = {} THEN old
                ELSE [old EXCEPT !.does = "writing", !.rows = rows, !.lost = lost]
    BY <1>1, <1>16 DEF BatchOf
  <2>2. CASE rows = {} /\ lost = {}
    BY <1>16, <2>1, <2>2
  <2>3. CASE ~(rows = {} /\ lost = {})
    <3>1. meta' = [old EXCEPT !.does = "writing", !.rows = rows, !.lost = lost]  BY <2>1, <2>3
    <3> QED  BY <1>16, <1>17, <1>18, <3>1
  <2> QED  BY <2>2, <2>3
<1>20. Queued' \subseteq Queued /\ Started' = Started
  <2>1. Queued' \subseteq Queued  BY <1>2, <1>5, <1>6 DEF Queued, Elements
  <2> QED  BY <1>2, <2>1 DEF Started
\* What is kept behind the ends of a batch.
<1>21. ASSUME NEW r \in Elements(controlQ), r[2] # "end" PROVE r \in rows \cup Elements(controlQ')
  <2>1. PICK i \in 1..Len(controlQ) : r = controlQ[i]  BY <1>3, <1>21, InElements
  <2>2. CASE i <= n
    <3>1. i \in 1..n /\ ~Defers(controlQ[i])  BY <1>4, <1>21, <2>1, <2>2 DEF Defers
    <3> QED  BY <1>1, <2>1, <3>1 DEF BatchOf
  <2>3. CASE i > n
    <3>1. i - n \in 1..Len(controlQ') /\ controlQ'[i - n] = r
      <4>1. i - n \in 1..Len(controlQ') /\ n + (i - n) = i  BY <1>3, <1>4, <1>5, <2>3
      <4> QED  BY <1>5, <2>1, <4>1
    <3> QED  BY <1>5, <3>1, InElements
  <2> QED  BY <1>4, <2>2, <2>3
<1>22. Elements(metadataQ) \subseteq rows \cup Elements(metadataQ')
  BY <1>1, <1>6 DEF BatchOf
<1>23. TypeOK'
  <2>1. QueuesType'
    <3>1. Len(controlQ') <= ControlMax /\ Len(metadataQ') <= MetadataMax
      <4>1. Len(controlQ) <= ControlMax /\ Len(metadataQ) <= MetadataMax
        BY DEF Inv, TypeOK, QueuesType
      <4>2. Len(controlQ) \in Nat /\ Len(metadataQ) \in Nat  BY <1>3
      <4>3. ControlMax \in Nat /\ MetadataMax \in Nat  BY EvidenceAssumption
      <4> QED  BY <1>4, <1>5, <1>6, <4>1, <4>2, <4>3
    <3> QED  BY <1>2, <1>5, <1>6, <3>1 DEF Inv, TypeOK, QueuesType
  <2>2. LossType'
    <3>1. /\ Cardinality(DOMAIN losses') <= Cardinality(DOMAIN losses) /\ Cardinality(DOMAIN losses) \in Nat
          /\ Cardinality(DOMAIN losses') \in Nat
      BY <1>12, FS_Subset, FS_CardinalityType DEF Inv, LossInv
    <3>2. Cardinality(DOMAIN losses') <= MaxLossScopes
      <4>1. Cardinality(DOMAIN losses) <= MaxLossScopes  BY DEF Inv, TypeOK, LossType
      <4> QED  BY <3>1, <4>1, EvidenceAssumption
    <3> QED  BY <1>12, <1>13, <3>2 DEF Inv, TypeOK, LossType
  <2>3. WorkType'
    BY <1>2, <1>19 DEF Inv, TypeOK, WorkType
  <2>4. deferred' \subseteq Conns
    <3>1. \A j \in 1..n : controlQ[j][1] \in own
      BY <1>9 DEF Inv, KindsInv
    <3> QED  BY <1>1, <3>1 DEF BatchOf, Inv, TypeOK
  <2>5. lossDue' \in BOOLEAN
    BY <1>13 DEF Inv, TypeOK
  <2> QED  BY <1>2, <2>1, <2>2, <2>3, <2>4, <2>5 DEF Inv, TypeOK
<1>24. IssuedInv'
  BY <1>2, <1>10, <1>15, <1>19, <1>20 DEF Inv, IssuedInv
<1>25. HandInv'
  BY <1>2, <1>10, <1>19 DEF HandInv
<1>26. KindsInv'
  <2>1. quoteQ' = quoteQ /\ writing' = writing /\ own' = own  BY <1>2
  <2>2. Elements(metadataQ') \subseteq Elements(metadataQ) /\ Elements(controlQ') \subseteq Elements(controlQ)
    BY <1>5, <1>6
  <2>3. Elements(quoteQ') = Elements(quoteQ)  BY <2>1
  <2> QED  BY <2>1, <2>2, <2>3, Zenon DEF Inv, KindsInv
<1>27. LossInv'
  <2>1. IsFiniteSet(DOMAIN losses')
    BY <1>12, FS_Subset DEF Inv, LossInv
  <2> QED  BY <1>12, <2>1 DEF Inv, LossInv
<1>28. OrderInv'
  <2>1. \A i \in DOMAIN controlQ' : n + i \in DOMAIN controlQ /\ controlQ'[i] = controlQ[n + i] /\ i \in Nat
    <3>1. DOMAIN controlQ' = 1..Len(controlQ') /\ DOMAIN controlQ = 1..Len(controlQ) /\ Len(controlQ) \in Nat
      BY <1>3, <1>5
    <3> QED  BY <1>4, <1>5, <3>1
  <2>2. \A i, j \in DOMAIN controlQ' :
          controlQ'[i][2] = "end" /\ controlQ'[j][1] = controlQ'[i][1] => j <= i
    <3> SUFFICES ASSUME NEW i \in DOMAIN controlQ', NEW j \in DOMAIN controlQ', controlQ'[i][2] = "end",
                        controlQ'[j][1] = controlQ'[i][1]
                 PROVE  j <= i
      OBVIOUS
    <3>1. n + j <= n + i  BY <2>1 DEF Inv, OrderInv
    <3> QED  BY <1>4, <2>1, <3>1
  <2>3. ASSUME NEW c \in deferred'
        PROVE  c \in own /\ <<c, "end">> \in issued /\ \A i \in DOMAIN controlQ' : controlQ'[i][1] # c
    <3>1. CASE c \in deferred
      BY <2>1, <3>1 DEF Inv, OrderInv
    <3>2. CASE c \notin deferred
      <4>1. PICK j \in 1..n : c = controlQ[j][1] /\ controlQ[j][2] = "end"
        BY <1>1, <2>3, <3>2 DEF BatchOf, Defers
      <4>2. c \in own /\ controlQ[j] \in issued /\ controlQ[j] \in Record
        BY <1>9, <4>1 DEF Inv, KindsInv, IssuedInv, Queued, TypeOK
      <4>3. controlQ[j] = <<c, "end">>
        BY <4>1, <4>2 DEF Record
      <4>4. ASSUME NEW i \in DOMAIN controlQ', controlQ'[i][1] = c PROVE FALSE
        <5>1. n + i \in DOMAIN controlQ /\ controlQ[n + i][1] = controlQ[j][1] /\ j \in DOMAIN controlQ
          BY <1>9, <2>1, <4>1, <4>4
        <5>2. n + i <= j  BY <4>1, <5>1 DEF Inv, OrderInv
        <5>3. i \in Nat /\ i > 0  BY <1>5, <4>4
        <5> QED  BY <1>4, <5>2, <5>3
      <4> QED  BY <4>2, <4>3, <4>4
    <3> QED  BY <3>1, <3>2
  <2> QED  BY <1>2, <2>2, <2>3 DEF OrderInv
<1>29. KeptInv'
  <2> SUFFICES ASSUME NEW c \in own, NEW r \in Of(c), r[2] # "end" PROVE Somewhere(r)'
    BY <1>2 DEF KeptInv, Of
  <2>1. Somewhere(r)  BY DEF Inv, KeptInv
  <2>2. r \in Queued => r \in Queued' \cup rows
    BY <1>2, <1>21, <1>22 DEF Queued, Elements
  <2>3. meta.rows = {} /\ meta.lost = {}
    BY <1>16
  <2> QED  BY <1>2, <1>15, <1>19, <2>1, <2>2, <2>3 DEF Somewhere
<1>30. BatchInv'
  <2> SUFFICES ASSUME NEW c \in Conns, <<c, "end">> \in rows, NEW r \in Of(c)
               PROVE  r \in db \cup told \cup rows \cup lost
    BY <1>2, <1>19 DEF BatchInv, Of
  <2>1. r \in issued /\ r \in Record /\ r[1] = c
    BY DEF Of, Inv, TypeOK
  <2>2. CASE r[2] = "end"
    <3>1. r = <<c, "end">>  BY <2>1, <2>2 DEF Record
    <3> QED  BY <3>1
  <2>3. CASE r[2] # "end"
    <3>1. <<c, "end">> \in first
      <4>1. <<c, "end">> \notin Elements(metadataQ)
        BY DEF Inv, KindsInv
      <4> QED  BY <1>1, <1>6, <4>1 DEF BatchOf
    <3>2. \/ c \in ready
          \/ \E j \in 1..n : controlQ[j] = <<c, "end">> /\ ~Defers(<<c, "end">>)
      BY <1>7, <3>1
    <3>3. c \in own /\ ~ConnectionPending(c)
      <4>1. CASE c \in ready
        BY <1>8, <4>1
      <4>2. CASE \E j \in 1..n : controlQ[j] = <<c, "end">> /\ ~Defers(<<c, "end">>)
        <5>1. PICK j \in 1..n : controlQ[j] = <<c, "end">> /\ ~Defers(<<c, "end">>)  BY <4>2
        <5>2. <<c, "end">> \in Elements(controlQ)  BY <1>9, <5>1
        <5> QED  BY <5>1, <5>2 DEF Inv, KindsInv, Defers
      <4> QED  BY <3>2, <4>1, <4>2
    <3>4. Somewhere(r)
      BY <2>3, <3>3 DEF Inv, KeptInv
    <3>5. r \notin Elements(quoteQ) \cup writing \cup Elements(metadataQ)
      BY <2>1, <3>3 DEF ConnectionPending
    <3>6. r \in Elements(controlQ) => r \in rows
      <4> SUFFICES ASSUME r \in Elements(controlQ) PROVE r \in rows
        OBVIOUS
      <4>1. PICK i \in 1..Len(controlQ) : r = controlQ[i]  BY <1>3, InElements
      <4>2. i \in DOMAIN controlQ  BY <1>3
      <4>3. c \notin ready
        BY <1>8, <2>1, <4>1, <4>2 DEF Inv, OrderInv
      <4>4. PICK j \in 1..n : controlQ[j] = <<c, "end">>  BY <3>2, <4>3
      <4>5. i <= j  BY <1>9, <2>1, <4>1, <4>2, <4>4 DEF Inv, OrderInv
      <4>6. i \in 1..n /\ ~Defers(controlQ[i])
        BY <1>4, <2>3, <4>1, <4>5 DEF Defers
      <4> QED  BY <1>1, <4>1, <4>6 DEF BatchOf
    <3>7. r \in Lost => r \in lost
      <4>1. ASSUME NEW k \in DOMAIN losses, r \in losses[k] PROVE r \in lost
        <5>1. k[1] = c  BY <2>1, <4>1 DEF Inv, LossInv
        <5>2. k \in L  BY <1>11, <5>1
        <5> QED  BY <1>14, <4>1, <5>2
      <4>2. ASSUME r \in overflow PROVE r \in lost
        <5>1. \E e \in rows : e[2] = "end"  BY <3>1, <1>1 DEF BatchOf
        <5>2. shared = overflow  BY <1>1, <5>1 DEF BatchOf
        <5> QED  BY <1>14, <4>2, <5>2
      <4> QED  BY <4>1, <4>2 DEF Lost, Counted, CountedBy
    <3>8. meta.rows = {} /\ meta.lost = {}
      BY <1>16
    <3> QED  BY <3>4, <3>5, <3>6, <3>7, <3>8 DEF Somewhere, Queued
  <2> QED  BY <2>2, <2>3
<1>31. EndTellsAll'
  BY <1>2 DEF Inv, EndTellsAll, Of
<1> QED  BY <1>23, <1>24, <1>25, <1>26, <1>27, <1>28, <1>29, <1>30, <1>31 DEF Inv

----------------------------------------------------------------------------
(* Every end tells all. *)

LEMMA InitInv == Init => Inv
<1> SUFFICES ASSUME Init PROVE Inv
  OBVIOUS
<1>1. /\ phase = "up" /\ own = {} /\ issued = {} /\ db = {} /\ told = {} /\ spent = 0
      /\ metadataQ = <<>> /\ controlQ = <<>> /\ quoteQ = <<>>
      /\ losses = <<>> /\ overflow = {} /\ lossDue = TRUE /\ deferred = {} /\ live = <<>>
      /\ pauseReason = Unknown /\ writing = {}
      /\ meta = [does |-> "sessions", rows |-> {}, lost |-> {}, cursor |-> 0]
  BY DEF Init, Recovery, Idle
<1>2. Elements(metadataQ) = {} /\ Elements(controlQ) = {} /\ Elements(quoteQ) = {} /\ DOMAIN losses = {}
  BY <1>1 DEF Elements
<1>3. Queued = {} /\ Lost = {} /\ Started = {}
  <2>1. Queued = {}  BY <1>1, <1>2 DEF Queued
  <2>2. Lost = {}  BY <1>1, <1>2 DEF Lost, Counted, CountedBy
  <2> QED  BY <1>1, <2>1, <2>2 DEF Started
<1>4. QueuesType
  BY <1>1, EvidenceAssumption DEF QueuesType
<1>5. LossType
  <2>1. Cardinality(DOMAIN losses) <= MaxLossScopes  BY <1>2, FS_EmptySet, EvidenceAssumption
  <2> QED  BY <1>1, <1>2, <2>1 DEF LossType
<1>6. WorkType
  BY <1>1 DEF WorkType
<1>7. TypeOK
  BY <1>1, <1>4, <1>5, <1>6, EvidenceAssumption DEF TypeOK
<1>8. IssuedInv
  BY <1>1, <1>3, FS_EmptySet DEF IssuedInv
<1>9. KindsInv /\ LossInv
  BY <1>1, <1>2, FS_EmptySet DEF KindsInv, LossInv
<1>10. HandInv /\ OrderInv
  BY <1>1 DEF HandInv, OrderInv
<1>11. KeptInv /\ BatchInv /\ EndTellsAll
  BY <1>1 DEF KeptInv, BatchInv, EndTellsAll
<1> QED  BY <1>7, <1>8, <1>9, <1>10, <1>11 DEF Inv

LEMMA NextInv == Inv /\ [Next]_vars => Inv'
<1> SUFFICES ASSUME Inv, [Next]_vars PROVE Inv'
  OBVIOUS
<1>1. phase \in {"up", "closing", "down"} /\ lossDue \in BOOLEAN /\ pauseReason \in {Unknown, AtCap, ""}
      /\ spent \in 0..MaxFaults
  BY DEF Inv, TypeOK
<1>2. CASE UNCHANGED vars
  BY <1>1, <1>2, FrameKeeps DEF vars, volatile
<1>3. ASSUME NEW c \in Conns, StartSession(c) PROVE Inv'
  BY <1>3, StartSessionKeeps
<1>4. ASSUME NEW c \in Conns, SampleOnce(c) PROVE Inv'
  BY <1>4, SampleOnceKeeps
<1>5. ASSUME NEW c \in Conns, TickSizeChange(c) PROVE Inv'
  BY <1>5, TickSizeChangeKeeps
<1>6. ASSUME NEW c \in Conns, CloseSession(c) PROVE Inv'
  BY <1>6, CloseSessionKeeps
<1>7. CASE PollMarketOnce
  BY <1>7, PollMarketOnceKeeps
<1>8. CASE CheckSize
  <2>1. spent' \in 0..MaxFaults
    <3>1. Fault \/ spent' = spent  BY <1>8 DEF CheckSize
    <3> QED  BY <1>1, <3>1, FaultCounts DEF Inv
  <2>2. pauseReason' \in {Unknown, AtCap, ""}  BY <1>8 DEF CheckSize
  <2> QED  BY <1>1, <1>8, <2>1, <2>2, FrameKeeps DEF CheckSize
<1>9. CASE CheckSizeFails
  <2>1. spent' \in 0..MaxFaults  BY <1>9, FaultCounts DEF Inv, CheckSizeFails
  <2> QED  BY <1>1, <1>9, <2>1, FrameKeeps DEF CheckSizeFails
<1>10. CASE QuoteWorker
  BY <1>10, TakeQuotesKeeps, QuotesWrittenKeeps DEF QuoteWorker
<1>11. CASE MetadataWorker
  BY <1>11, ScanSessionsKeeps, ScanOrphansKeeps, FinishRecoveredKeeps, MetadataBatchKeeps,
     PersistMetadataKeeps DEF MetadataWorker
<1>12. CASE LossTimer
  BY <1>1, <1>12, FrameKeeps DEF LossTimer
<1>13. CASE Close
  <2>1. spent' \in 0..MaxFaults  BY <1>13, FaultCounts DEF Inv, Close
  <2> QED  BY <1>1, <1>13, <2>1, FrameKeeps DEF Close, volatile
<1>14. CASE Exit
  BY <1>1, <1>14, GoneKeeps DEF Exit
<1>15. CASE Crash
  <2>1. spent' \in 0..MaxFaults  BY <1>15, FaultCounts DEF Inv, Crash
  <2> QED  BY <1>15, <2>1, GoneKeeps DEF Crash
<1>16. CASE Restart
  BY <1>1, <1>16, FrameKeeps DEF Restart, volatile
<1> QED
  BY <1>2, <1>3, <1>4, <1>5, <1>6, <1>7, <1>8, <1>9, <1>10, <1>11, <1>12, <1>13, <1>14, <1>15, <1>16 DEF Next

\* A durable end of a session is the last word on it (EndTellsAll), for any sessions, limits of the
\* queues and batches, and any number of failed writes, crashes and restarts.
THEOREM EndsTellAll == Spec => [](TypeOK /\ EndTellsAll)
<1>1. Inv => TypeOK /\ EndTellsAll
  BY DEF Inv
<1> QED  BY InitInv, NextInv, <1>1, PTL DEF Spec

----------------------------------------------------------------------------
(* Recovery spares the sessions of its own process. *)

\* A sequence without repetitions is no longer than the set it draws from.
LEMMA DistinctLength ==
  ASSUME NEW S, IsFiniteSet(S), NEW q, q \in Seq(S), \A i, j \in 1..Len(q) : q[i] = q[j] => i = j
  PROVE  Len(q) <= Cardinality(S)
<1>1. q \in Injection(1..Len(q), S)
  BY DEF Injection, IsInjective
<1>2. Cardinality(1..Len(q)) = Len(q)
  BY FS_Interval
<1> QED  BY <1>1, <1>2, FS_Injection

LEMMA TrackLive ==
  ASSUME LiveInv, live \in Seq(Conns), NEW c \in Conns, Track(c), own \subseteq own', c \in own'
  PROVE  /\ LiveInv'
         /\ own' \subseteq Conns /\ IsFiniteSet(own') /\ Cardinality(own') <= LiveMax =>
              Elements(live') = Elements(live) \cup {c}
<1> DEFINE used == MovedToEnd(live, c)
<1>1. /\ used \in Seq(Conns) /\ Len(used) \in Nat /\ Len(used) > 0
      /\ \A i, j \in 1..Len(used) : used[i] = used[j] => i = j
      /\ Elements(used) = Elements(live) \cup {c}
  <2>1. \A i, j \in 1..Len(live) : live[i] = live[j] => i = j
    BY DEF LiveInv
  <2>2. /\ used \in Seq(Conns) /\ Len(used) > 0
        /\ \A i, j \in 1..Len(used) : used[i] = used[j] => i = j
        /\ Elements(used) = Elements(live) \cup {c}
    BY <2>1, MovedElements
  <2> QED  BY <2>2
<1>2. live' = IF Len(used) > LiveMax THEN Tail(used) ELSE used
  BY DEF Track
<1> HIDE DEF used
<1>3. Elements(used) \subseteq own'
  BY <1>1 DEF LiveInv
<1>4. CASE Len(used) > LiveMax
  <2>1. /\ live' \in Seq(Conns) /\ Len(live') = Len(used) - 1
        /\ \A i \in 1..Len(live') : live'[i] = used[i + 1]
    <3>1. used # <<>> /\ live' = Tail(used)  BY <1>1, <1>2, <1>4
    <3> QED  BY <1>1, <3>1
  <2>2. \A i \in 1..Len(live') : i + 1 \in 1..Len(used)
    BY <1>1, <2>1
  <2>3. Elements(live') \subseteq own'
    <3> SUFFICES ASSUME NEW x \in Elements(live') PROVE x \in own'
      OBVIOUS
    <3>1. PICK i \in 1..Len(live') : x = live'[i]  BY <2>1, InElements
    <3>2. x = used[i + 1] /\ i + 1 \in 1..Len(used)  BY <2>1, <2>2, <3>1
    <3> QED  BY <1>1, <1>3, <3>2, InElements
  <2>4. \A i, j \in 1..Len(live') : live'[i] = live'[j] => i = j
    BY <1>1, <2>1, <2>2
  <2>5. LiveInv'
    BY <2>1, <2>3, <2>4 DEF LiveInv
  <2>6. ASSUME own' \subseteq Conns, IsFiniteSet(own'), Cardinality(own') <= LiveMax PROVE FALSE
    <3>1. used \in Seq(own')
      <4>1. \A i \in 1..Len(used) : used[i] \in own'  BY <1>1, <1>3, InElements
      <4> QED  BY <1>1, <4>1
    <3>2. Len(used) <= Cardinality(own')
      BY <1>1, <2>6, <3>1, DistinctLength
    <3>3. Cardinality(own') \in Nat
      BY <2>6, FS_CardinalityType
    <3> QED  BY <1>1, <1>4, <2>6, <3>2, <3>3, EvidenceAssumption
  <2> QED  BY <2>5, <2>6
<1>5. CASE ~(Len(used) > LiveMax)
  <2>1. live' = used  BY <1>2, <1>5
  <2>2. LiveInv'  BY <1>1, <1>3, <2>1 DEF LiveInv
  <2> QED  BY <1>1, <2>1, <2>2
<1> QED  BY <1>4, <1>5

\* No more connections are started before recovery is over than the process remembers.
FewBeforeRecovery == Recovering => Cardinality(own) <= LiveMax

LiveAndSpare == LiveInv /\ SpareInv

\* A connection of this process that is used, in a step that writes nothing.
LEMMA UseSpares ==
  ASSUME Inv, Inv', LiveAndSpare, FewBeforeRecovery', NEW c \in Conns, Track(c),
         own' = own \cup {c}, c \in own \/ c \notin Started, UNCHANGED <<meta, db>>
  PROVE  LiveAndSpare'
<1>1. live \in Seq(Conns)
  BY DEF Inv, TypeOK, QueuesType
<1>2. LiveInv'
  BY <1>1, TrackLive DEF LiveAndSpare
<1>3. own' \subseteq Conns /\ IsFiniteSet(own')
  <2>1. own' \subseteq Conns /\ own' \subseteq Started' /\ IsFiniteSet(Started')
    BY DEF Inv, TypeOK, IssuedInv
  <2> QED  BY <2>1, FS_Subset
<1>4. Recovering' = Recovering
  BY DEF Recovering
<1>5. Recovering => Elements(live') = Elements(live) \cup {c}
  <2> SUFFICES ASSUME Recovering PROVE Elements(live') = Elements(live) \cup {c}
    OBVIOUS
  <2>1. Cardinality(own') <= LiveMax
    BY <1>4 DEF FewBeforeRecovery
  <2> QED  BY <1>1, <1>3, <2>1, TrackLive DEF LiveAndSpare
<1>6. c \notin own => <<c, "unclean">> \notin db \cup meta.rows /\ <<c, "start">> \notin db
  <2> SUFFICES ASSUME c \notin own PROVE <<c, "unclean">> \notin db \cup meta.rows /\ <<c, "start">> \notin db
    OBVIOUS
  <2>1. <<c, "start">> \notin issued /\ <<c, "unclean">> \notin issued
    BY QuotesAreNames DEF Started, Inv, TypeOK, Record, Kinds, Control
  <2>2. <<c, "unclean">> \notin Unclean(Started) /\ <<c, "start">> \notin Unclean(Started)
    BY DEF Unclean
  <2> QED  BY <2>1, <2>2 DEF Inv, IssuedInv
<1>7. SpareInv'
  BY <1>4, <1>5, <1>6 DEF LiveAndSpare, SpareInv
<1> QED  BY <1>2, <1>7 DEF LiveAndSpare

\* A step of the metadata worker: what it adds for recovery is of no connection of this process.
LEMMA WorkSpares ==
  ASSUME LiveAndSpare, UNCHANGED <<own, live>>,
         \A c \in own : <<c, "unclean">> \notin db' \cup meta'.rows,
         Recovering' => Recovering /\ \A c \in own : <<c, "start">> \notin db'
  PROVE  LiveAndSpare'
<1>1. LiveInv'
  BY DEF LiveAndSpare, LiveInv, Elements
<1>2. SpareInv'
  BY DEF LiveAndSpare, SpareInv, Elements
<1> QED  BY <1>1, <1>2 DEF LiveAndSpare

LEMMA NotUnclean ==
  ASSUME TypeOK, NEW c
  PROVE  <<c, "unclean">> \notin issued
BY QuotesAreNames DEF TypeOK, Record, Kinds, Control

LEMMA ScansSpare ==
  ASSUME Inv, LiveAndSpare, ScanSessions \/ ScanOrphans
  PROVE  LiveAndSpare'
<1>1. UNCHANGED <<own, live, db>> /\ Recovering
  BY DEF ScanSessions, ScanOrphans, MetaRest, Recovering
<1>2. \A c \in own : /\ <<c, "unclean">> \notin db \cup meta.rows /\ <<c, "start">> \notin db
                     /\ c \in Elements(live)
  BY <1>1 DEF LiveAndSpare, SpareInv
<1>3. \A c \in own : <<c, "unclean">> \notin meta'.rows
  <2>1. CASE ScanSessions
    <3>1. PICK S \in SUBSET Unended :
            meta' = IF S = {} THEN [meta EXCEPT !.does = "orphans"]
                    ELSE [meta EXCEPT !.does = "finishing", !.rows = Unclean(S)]
      BY <2>1 DEF ScanSessions
    <3>2. \A c \in own : <<c, "unclean">> \notin Unclean(S)
      BY <1>2 DEF Unended, Unclean
    <3>3. PICK m \in [does : {"idle", "sessions", "orphans", "finishing", "writing"},
                      rows : SUBSET Rows, lost : SUBSET Record, cursor : Conns \cup {0}] : m = meta
      BY DEF Inv, TypeOK, WorkType
    <3>4. meta'.rows \in {m.rows, Unclean(S)}
      <4>1. meta' \in {[m EXCEPT !.does = "orphans"], [m EXCEPT !.does = "finishing", !.rows = Unclean(S)]}
        BY <3>1, <3>3
      <4> QED  BY <4>1
    <3> QED  BY <1>2, <3>2, <3>3, <3>4
  <2>2. CASE ScanOrphans
    <3> DEFINE candidates == {c \in Conns : c > meta.cursor /\ \E q \in Quotes : <<c, q>> \in db}
               page == {c \in candidates : Cardinality({d \in candidates : d < c}) < PageSize}
               orphaned == {c \in page : Orphan(c)}
    <3>1. \/ meta' = Idle
          \/ \E last \in page :
               meta' = [does |-> IF orphaned = {} THEN "orphans" ELSE "finishing",
                        rows |-> Unclean(orphaned), lost |-> {}, cursor |-> last]
      BY <2>2 DEF ScanOrphans
    <3>2. \A c \in own : <<c, "unclean">> \notin Unclean(orphaned)
      BY <1>2 DEF Orphan, Unclean
    <3> HIDE DEF orphaned, page
    <3>3. meta'.rows \in {{}, Unclean(orphaned)}
      BY <3>1 DEF Idle
    <3> QED  BY <3>2, <3>3
  <2> QED  BY <2>1, <2>2
<1> QED  BY <1>1, <1>2, <1>3, WorkSpares

LEMMA RecoveredSpare ==
  ASSUME Inv, LiveAndSpare, FinishRecovered \/ RecoveryFails
  PROVE  LiveAndSpare'
<1>1. /\ UNCHANGED <<own, live>> /\ Recovering
      /\ db' \in {db, db \cup Accepted(meta.rows)}
      /\ \/ meta' = [meta EXCEPT !.rows = {}, !.does = IF meta.cursor = 0 THEN "sessions" ELSE "orphans"]
         \/ meta' = Recovery
  BY DEF FinishRecovered, RecoveryFails, MetaRest, Recovering
<1>2. \A c \in own : <<c, "unclean">> \notin db \cup meta.rows /\ <<c, "start">> \notin db
  BY <1>1 DEF LiveAndSpare, SpareInv
<1>3. meta.rows \subseteq Unclean(Started)
  BY <1>1 DEF Inv, HandInv, Recovering
<1>4. \A c \in own : <<c, "unclean">> \notin db' /\ <<c, "start">> \notin db'
  <2>1. \A r \in meta.rows : r[2] = "unclean"  BY <1>3 DEF Unclean
  <2>2. \A r \in db' : r \in db \/ r \in meta.rows  BY <1>1 DEF Accepted
  <2> QED  BY <1>2, <2>1, <2>2
<1>5. meta'.rows = {}
  <2>1. PICK m \in [does : {"idle", "sessions", "orphans", "finishing", "writing"},
                    rows : SUBSET Rows, lost : SUBSET Record, cursor : Conns \cup {0}] : m = meta
    BY DEF Inv, TypeOK, WorkType
  <2>2. CASE meta' = Recovery
    BY <2>2 DEF Recovery, Idle
  <2>3. CASE meta' = [meta EXCEPT !.rows = {}, !.does = IF meta.cursor = 0 THEN "sessions" ELSE "orphans"]
    <3>1. PICK does : meta' = [m EXCEPT !.rows = {}, !.does = does]  BY <2>1, <2>3
    <3> QED  BY <3>1
  <2> QED  BY <1>1, <2>2, <2>3
<1> QED  BY <1>1, <1>4, <1>5, WorkSpares

LEMMA WritesSpare ==
  ASSUME Inv, LiveAndSpare, MetadataBatch \/ PersistMetadata \/ PersistMetadataFails
  PROVE  LiveAndSpare'
<1>1. UNCHANGED <<own, live>> /\ db' \subseteq db \cup meta.rows
  BY DEF MetadataBatch, PersistMetadata, PersistMetadataFails, MetaRest, Accepted
<1>2. \A c \in own : <<c, "unclean">> \notin db \cup meta.rows
  BY DEF LiveAndSpare, SpareInv
<1>3. ~Recovering' /\ \A c \in own : <<c, "unclean">> \notin meta'.rows
  <2>1. CASE MetadataBatch
    <3>1. Inv'  BY <2>1, MetadataBatchKeeps
    <3>2. PICK rows, lost : meta' = IF rows = {} /\ lost = {} THEN meta
                 ELSE [meta EXCEPT !.does = "writing", !.rows = rows, !.lost = lost]
      <4>1. PICK ready, n, m, first, rows, L, shared, lost :
              BatchOf(ready, n, m, first, rows, L, shared, lost)
        BY <2>1, BatchParts
      <4> QED  BY <4>1 DEF BatchOf
    <3>3. PICK old \in [does : {"idle", "sessions", "orphans", "finishing", "writing"},
                        rows : SUBSET Rows, lost : SUBSET Record, cursor : Conns \cup {0}] :
            old = meta /\ old.does = "idle" /\ old.rows = {}
      BY <2>1 DEF Inv, TypeOK, WorkType, HandInv, MetadataBatch
    <3>4. meta' = old \/ meta' = [old EXCEPT !.does = "writing", !.rows = rows, !.lost = lost]
      BY <3>2, <3>3
    <3>5. (meta'.does = "idle" /\ meta'.rows = {}) \/ meta'.does = "writing"
      BY <3>3, <3>4
    <3>6. meta'.does = "writing" => meta'.rows \subseteq issued'
      BY <3>1 DEF Inv, HandInv
    <3>7. issued' = issued  BY <2>1 DEF MetadataBatch, MetaRest
    <3>8. \A c \in own : <<c, "unclean">> \notin issued'  BY <3>7, NotUnclean DEF Inv
    <3>9. \A c \in own : <<c, "unclean">> \notin meta'.rows  BY <3>5, <3>6, <3>8
    <3>10. ~Recovering'  BY <3>5 DEF Recovering
    <3> QED  BY <3>9, <3>10
  <2>2. CASE PersistMetadata
    BY <2>2 DEF PersistMetadata, Idle, Recovering
  <2>3. CASE PersistMetadataFails
    <3>1. meta' = meta /\ meta.does = "writing"
      BY <2>3 DEF PersistMetadataFails
    <3> QED  BY <1>2, <3>1 DEF Recovering
  <2> QED  BY <2>1, <2>2, <2>3
<1> QED  BY <1>1, <1>2, <1>3, WorkSpares

LEMMA QuotesSpare ==
  ASSUME Inv, LiveAndSpare, QuoteWorker
  PROVE  LiveAndSpare'
<1>1. UNCHANGED <<own, live, meta>> /\ db' \subseteq db \cup writing
  BY DEF QuoteWorker, TakeQuotes, PersistQuotes, PersistQuotesFails, QuoteRest
<1>2. \A r \in writing : r[2] \in Quotes
  BY DEF Inv, KindsInv
<1>3. \A c \in own : <<c, "unclean">> \notin writing /\ <<c, "start">> \notin writing
  BY <1>2, QuotesAreNames DEF Control
<1> QED  BY <1>1, <1>3, WorkSpares DEF LiveAndSpare, SpareInv, Recovering

LEMMA NextSpares ==
  ASSUME Inv, Inv', LiveAndSpare, FewBeforeRecovery', [Next]_vars
  PROVE  LiveAndSpare'
<1>1. ASSUME UNCHANGED <<own, live, meta, db>> PROVE LiveAndSpare'
  BY <1>1, WorkSpares DEF LiveAndSpare, SpareInv, Recovering
<1>2. CASE UNCHANGED vars
  BY <1>1, <1>2 DEF vars, volatile, queues
<1>3. ASSUME NEW c \in Conns, StartSession(c) PROVE LiveAndSpare'
  BY <1>3, UseSpares DEF StartSession, Rest, Started
<1>4. ASSUME NEW c \in Conns, SampleOnce(c) \/ TickSizeChange(c) \/ CloseSession(c) PROVE LiveAndSpare'
  <2>1. c \in own /\ Track(c) /\ UNCHANGED <<own, meta, db>>
    BY <1>4 DEF SampleOnce, TickSizeChange, CloseSession, Open, Rest
  <2>2. own' = own \cup {c}
    BY <2>1
  <2> QED  BY <2>1, <2>2, UseSpares
<1>5. CASE PollMarketOnce \/ CheckSize \/ CheckSizeFails \/ LossTimer \/ Close \/ Restart
  BY <1>1, <1>5 DEF PollMarketOnce, CheckSize, CheckSizeFails, LossTimer, Close, Restart, Rest, volatile, queues
<1>6. CASE QuoteWorker
  BY <1>6, QuotesSpare
<1>7. CASE MetadataWorker
  BY <1>7, ScansSpare, RecoveredSpare, WritesSpare DEF MetadataWorker
<1>8. CASE Exit \/ Crash
  <2>1. own' = {} /\ live' = <<>>
    BY <1>8 DEF Exit, Crash, Gone
  <2> QED  BY <2>1 DEF LiveAndSpare, LiveInv, SpareInv, Elements
<1> QED
  BY <1>2, <1>3, <1>4, <1>5, <1>6, <1>7, <1>8 DEF Next

LEMMA InitSpares == Init => LiveAndSpare
BY DEF Init, LiveAndSpare, LiveInv, SpareInv, Elements

\* An end, a session's own or recovery's, is written only when it is true (EndsAreTrue).  What recovery
\* spares are the connections that the process remembers, so that the theorem is about processes that
\* start no more than LiveMax of them before recovery is over.
THEOREM OnlyTrueEnds == Spec /\ []FewBeforeRecovery => []EndsAreTrue
<1>1. Inv /\ LiveAndSpare => EndsAreTrue
  <2> SUFFICES ASSUME Inv, LiveAndSpare, NEW c \in Conns, Open(c) PROVE ~Ended(c, db)
    BY DEF Inv, EndsAreTrue, RecoverySparesLive
  <2>1. c \in own /\ <<c, "end">> \notin issued
    BY DEF Open
  <2>2. <<c, "unclean">> \notin db
    BY <2>1 DEF LiveAndSpare, SpareInv
  <2>3. <<c, "end">> \notin db
    BY <2>1 DEF Inv, IssuedInv, Unclean
  <2> QED  BY <2>2, <2>3 DEF Ended
<1>2. Inv /\ Inv' /\ LiveAndSpare /\ FewBeforeRecovery' /\ [Next]_vars => LiveAndSpare'
  BY NextSpares
<1> QED  BY InitInv, NextInv, InitSpares, <1>1, <1>2, PTL DEF Spec
=============================================================================
