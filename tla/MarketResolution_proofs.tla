------------------------ MODULE MarketResolution_proofs ------------------------
(***************************************************************************)
(* Theorems about MarketResolution, for any markets, any of them legacy,   *)
(* live or broken, any batch and backoff, and any number of faults.        *)
(***************************************************************************)
EXTENDS MarketResolution, FiniteSetTheorems, TLAPS

----------------------------------------------------------------------------
(* The inductive invariant. *)

\* A due row as it was read, and the answer on its way to the table.
PageRow == [m : Markets, exp : {Old, Current}, tries : 0..MaxBackoff]

PageInv ==
  /\ at \in {"sleeping", "scanning", "down"} => page = <<>>
  /\ at = "filling" => page \in Seq(Markets)
  /\ at = "checking" => page \in Seq(PageRow) /\ page # <<>>
  /\ hand # None => at = "checking" /\ hand.m = Head(page).m

\* What may be written of m: it is of the rule in force, and what is marked as validated is the
\* complete official result.
Sound(m, x) ==
  /\ x.exp = Current
  /\ x.val => IsComplete(x) /\ x.win = Official[m]

HandInv == hand # None /\ hand.ans # None =>
  /\ Sound(hand.m, hand.ans)
  /\ hand.ans.next = None \/ hand.ans.next >= 1

ResultInv == \A m \in Markets : Validated(m) => Complete(m) /\ row[m].win = Official[m]

Inv == TypeOK /\ PageInv /\ HandInv /\ ResultInv

----------------------------------------------------------------------------
(* The numbers and the fields. *)

LEMMA Numbers ==
  /\ MaxBackoff \in Nat /\ MaxBackoff > 0 /\ Batch \in Nat /\ Batch > 0
  /\ CallMax = 1 /\ Oldest = 2 /\ Overdue = -2
BY MarketsAssumption DEF CallMax, Oldest, Overdue

LEMMA Extremes ==
  ASSUME NEW a \in Int, NEW b \in Int
  PROVE  /\ Larger(a, b) \in {a, b} /\ Larger(a, b) >= a /\ Larger(a, b) >= b
         /\ Smaller(a, b) \in {a, b} /\ Smaller(a, b) <= a /\ Smaller(a, b) <= b
BY DEF Larger, Smaller

LEMMA RowFields ==
  ASSUME NEW r \in Row
  PROVE  /\ r.st \in {"pending", "resolved"} /\ r.price \in 0..2 /\ r.win \in Winners \cup {None}
         /\ r.rule \in {Old, Current, None} /\ r.next \in (-2..MaxBackoff) \cup {None}
         /\ r.tries \in 0..MaxBackoff /\ r.age \in 0..2 /\ r # None
BY NoneIsNoRow DEF Row, Overdue, Oldest, CallMax

LEMMA AnswerFields ==
  ASSUME NEW x \in Answer
  PROVE  /\ x.st \in {"pending", "resolved"} /\ x.price \in 0..2 /\ x.win \in Winners \cup {None}
         /\ x.val \in BOOLEAN /\ x.exp \in {Old, Current}
         /\ x.next \in (-2..MaxBackoff) \cup {None} /\ x.tries \in 0..MaxBackoff /\ x.age \in 0..1
BY DEF Answer, Overdue, CallMax

LEMMA LaterRange ==
  ASSUME NEW r \in Row, NEW x \in Answer PROVE Later(r, x) \in -2..MaxBackoff
<1>1. /\ r.age \in 0..2 /\ x.age \in 0..1 /\ x.next \in (-2..MaxBackoff) \cup {None}
      /\ MaxBackoff \in Nat
  BY RowFields, AnswerFields, Numbers
<1>2. Smaller(r.age, x.age) \in 0..1
  BY <1>1 DEF Smaller
<1>3. CASE x.next = None
  BY <1>1, <1>2, <1>3 DEF Later
<1>4. CASE x.next # None
  <2>1. Larger(x.next, -Smaller(r.age, x.age)) \in -2..MaxBackoff
    BY <1>1, <1>2, <1>4 DEF Larger
  <2> QED
    BY <2>1, <1>4 DEF Later
<1> QED
  BY <1>3, <1>4

LEMMA NextRange ==
  ASSUME NEW r \in Row, NEW x \in Answer PROVE NextCheck(r, x) \in (-2..MaxBackoff) \cup {None}
BY LaterRange, RowFields DEF NextCheck

----------------------------------------------------------------------------
(* The statements of db.py on a row. *)

\* What a write does to a row: it learns and forgets nothing.
Learns(r, s) ==
  /\ s.price >= r.price
  /\ r.st = "resolved" => s.st = "resolved"
  /\ r.rule = Current => s.win = r.win /\ s.rule = Current

Whole(m, r) == r.rule = Current => r.st = "resolved" /\ r.price = 2 /\ r.win = Official[m]

\* An answer for a row that exists; a validated row is not touched by what is not validated.
LEMMA MergedLearns ==
  ASSUME NEW m \in Markets, NEW r \in Row, NEW x \in Answer, Whole(m, r), Sound(m, x)
  PROVE  Merged(r, x) \in Row /\ Learns(r, Merged(r, x)) /\ Whole(m, Merged(r, x))
<1>1. /\ r.st \in {"pending", "resolved"} /\ r.price \in 0..2 /\ r.win \in Winners \cup {None}
      /\ r.rule \in {Old, Current, None} /\ r.tries \in 0..MaxBackoff /\ r.age \in 0..2
  BY RowFields
<1>2. /\ x.st \in {"pending", "resolved"} /\ x.price \in 0..2 /\ x.win \in Winners \cup {None}
      /\ x.val \in BOOLEAN /\ x.exp = Current /\ x.tries \in 0..MaxBackoff /\ x.age \in 0..1
      /\ x.val => x.st = "resolved" /\ x.price = 2 /\ x.win = Official[m]
  BY AnswerFields DEF Sound, IsComplete
<1> DEFINE replaces == MustValidate(r, x) /\ x.val
           keeps == ~replaces /\ (MustValidate(r, x) \/ r.st = "resolved")
           st == IF keeps THEN r.st ELSE x.st
           win == IF keeps THEN r.win ELSE x.win
           price == CASE replaces -> x.price
                      [] MustValidate(r, x) /\ ~x.val -> r.price
                      [] OTHER -> Larger(r.price, x.price)
           of == IF x.val THEN x.exp ELSE r.rule
           next == NextCheck(r, x)
           tries == Larger(r.tries, x.tries)
           age == Smaller(r.age, x.age)
<1>3. Merged(r, x) = [st |-> st, win |-> win, price |-> price, rule |-> of, next |-> next,
                      tries |-> tries, age |-> age]
  BY DEF Merged
<1>4. MustValidate(r, x) <=> r.rule # Current
  BY <1>2 DEF MustValidate
<1>5. st \in {"pending", "resolved"} /\ win \in Winners \cup {None}
  BY <1>1, <1>2
<1>6. /\ price \in 0..2 /\ price >= r.price
      /\ replaces => price = 2
  BY <1>1, <1>2 DEF Larger
<1>7. of \in {Old, Current, None} /\ tries \in 0..MaxBackoff /\ age \in 0..2
  BY <1>1, <1>2, Numbers DEF Larger, Smaller
<1>8. next \in (-2..MaxBackoff) \cup {None}
  BY NextRange
<1>9. r.st = "resolved" => st = "resolved"
  BY <1>1, <1>2
<1>10. r.rule = Current => win = r.win /\ of = Current
  BY <1>2, <1>4 DEF Whole
<1>11. of = Current => st = "resolved" /\ price = 2 /\ win = Official[m]
  <2>1. CASE r.rule = Current
    <3>1. r.st = "resolved" /\ r.price = 2 /\ r.win = Official[m] /\ ~replaces /\ keeps
      BY <2>1, <1>4 DEF Whole
    <3> QED
      BY <3>1, <1>6
  <2>2. CASE r.rule # Current
    BY <2>2, <1>2, <1>4, <1>6
  <2> QED
    BY <2>1, <2>2
<1> HIDE DEF replaces, keeps, st, win, price, of, next, tries, age
<1>12. Merged(r, x) \in Row
  <2>1. /\ st \in {"pending", "resolved"} /\ price \in 0..2 /\ win \in Winners \cup {None}
        /\ of \in {Old, Current, None} /\ next \in (Overdue..MaxBackoff) \cup {None}
        /\ tries \in 0..MaxBackoff /\ age \in 0..Oldest
    BY <1>5, <1>6, <1>7, <1>8, Numbers
  <2> QED
    BY <2>1, <1>3 DEF Row
<1>13. /\ Merged(r, x).st = st /\ Merged(r, x).price = price /\ Merged(r, x).win = win
       /\ Merged(r, x).rule = of
  BY <1>3
<1> QED
  BY <1>6, <1>9, <1>10, <1>11, <1>12, <1>13 DEF Learns, Whole

LEMMA InsertedSound ==
  ASSUME NEW m \in Markets, NEW x \in Answer, ~x.val \/ Sound(m, x)
  PROVE  Inserted(x) \in Row /\ Whole(m, Inserted(x))
<1>1. /\ x.st \in {"pending", "resolved"} /\ x.price \in 0..2 /\ x.win \in Winners \cup {None}
      /\ x.val \in BOOLEAN /\ x.exp \in {Old, Current} /\ x.tries \in 0..MaxBackoff /\ x.age \in 0..1
      /\ x.next \in (-2..MaxBackoff) \cup {None} /\ x.age \in 0..2
  BY AnswerFields
<1> DEFINE of == IF x.val THEN x.exp ELSE None
<1>2. of \in {Old, Current, None}
  BY <1>1
<1>3. Inserted(x) = [st |-> x.st, win |-> x.win, price |-> x.price, rule |-> of, next |-> x.next,
                     tries |-> x.tries, age |-> x.age]
  BY DEF Inserted
<1>4. of = Current => x.val
  BY NoneIsNoRow
<1> HIDE DEF of
<1>5. Inserted(x) \in Row
  <2>1. x.next \in (Overdue..MaxBackoff) \cup {None} /\ x.age \in 0..Oldest
    BY <1>1, Numbers
  <2> QED
    BY <2>1, <1>1, <1>2, <1>3 DEF Row
<1>6. Whole(m, Inserted(x))
  BY <1>3, <1>4 DEF Whole, Sound, IsComplete
<1> QED
  BY <1>5, <1>6

\* What every step does to the rows.
Rows == /\ row' \in [Markets -> Row \cup {None}]
        /\ \A m \in Markets : row'[m] # None => Whole(m, row'[m])
        /\ \A m \in Markets : row[m] # None => row'[m] # None /\ Learns(row[m], row'[m])

LEMMA InvRows ==
  ASSUME Inv PROVE /\ row \in [Markets -> Row \cup {None}]
                   /\ \A m \in Markets : row[m] # None => row[m] \in Row /\ Whole(m, row[m])
BY DEF Inv, TypeOK, ResultInv, Validated, Complete, Whole

LEMMA RowsKeep == ASSUME Rows PROVE ResultInv'
BY DEF Rows, ResultInv, Validated, Complete, Whole

\* One row changes.
LEMMA OneRow ==
  ASSUME Inv, NEW m \in Markets, NEW s \in Row, row' = [row EXCEPT ![m] = s], Whole(m, s),
         row[m] # None => Learns(row[m], s)
  PROVE  Rows
<1>1. /\ row \in [Markets -> Row \cup {None}] /\ row' \in [Markets -> Row \cup {None}]
      /\ \A n \in Markets : row'[n] = IF n = m THEN s ELSE row[n]
  BY InvRows
<1>2. ASSUME NEW n \in Markets, row[n] # None PROVE row[n] \in Row /\ Whole(n, row[n])
  BY <1>2, InvRows
<1>3. s # None
  BY RowFields
<1>4. \A r \in Row : Learns(r, r)
  BY RowFields DEF Learns
<1> QED
  BY <1>1, <1>2, <1>3, <1>4 DEF Rows

LEMMA NoRow == ASSUME Inv, row' = row PROVE Rows
<1>1. \A r \in Row : Learns(r, r)
  BY RowFields DEF Learns
<1> QED
  BY <1>1, InvRows DEF Rows

LEMMA UpsertLearns ==
  ASSUME Inv, NEW m \in Markets, NEW x \in Answer, Sound(m, x), Upsert(m, x) PROVE Rows
<1>1. CASE row[m] = None
  <2>1. row' = [row EXCEPT ![m] = Inserted(x)]
    BY <1>1 DEF Upsert
  <2> QED
    BY <2>1, <1>1, InsertedSound, OneRow
<1>2. CASE row[m] # None
  <2>1. row' = [row EXCEPT ![m] = Merged(row[m], x)]
    BY <1>2 DEF Upsert
  <2>2. row[m] \in Row /\ Whole(m, row[m])
    BY <1>2, InvRows
  <2> QED
    BY <2>1, <2>2, MergedLearns, OneRow
<1> QED
  BY <1>1, <1>2

\* A retry changes when a row is checked, and nothing else of it.
LEMMA RescheduleLearns ==
  ASSUME Inv, NEW m \in Markets, NEW x \in Answer, ~x.val, Reschedule(m, x) PROVE Rows
<1>1. CASE row[m] = None
  <2>1. row' = [row EXCEPT ![m] = Inserted(x)]
    BY <1>1 DEF Reschedule
  <2> QED
    BY <2>1, <1>1, InsertedSound, OneRow
<1>2. CASE row[m] # None
  <2> DEFINE r == row[m]
             next == CASE Unvalidated(m) -> Later(r, x)
                       [] ~Unvalidated(m) /\ Complete(m) -> None
                       [] OTHER -> IF x.age > r.age THEN r.next ELSE Later(r, x)
             s == Rescheduled(m, x)
  <2>1. row' = [row EXCEPT ![m] = s]
    BY <1>2 DEF Reschedule
  <2>2. r \in Row /\ Whole(m, r)
    BY <1>2, InvRows
  <2>3. next \in (Overdue..MaxBackoff) \cup {None}
    BY <2>2, LaterRange, RowFields, Numbers
  <2>4. Smaller(r.age, x.age) \in 0..Oldest /\ Larger(r.tries, x.tries) \in 0..MaxBackoff
    BY <2>2, RowFields, AnswerFields, Numbers DEF Smaller, Larger
  <2>5. s = [r EXCEPT !.age = Smaller(r.age, x.age), !.tries = Larger(r.tries, x.tries),
                      !.next = next]
    BY DEF Rescheduled
  <2> HIDE DEF next, r, s
  <2>6. s \in Row /\ s.st = r.st /\ s.price = r.price /\ s.win = r.win /\ s.rule = r.rule
    BY <2>2, <2>3, <2>4, <2>5 DEF Row
  <2>7. Whole(m, s) /\ Learns(r, s)
    BY <2>2, <2>6, RowFields DEF Whole, Learns
  <2> QED
    BY <2>1, <2>6, <2>7, OneRow DEF r
<1> QED
  BY <1>1, <1>2

----------------------------------------------------------------------------
(* The venue, the collector and time. *)

LEMMA Spends == ASSUME Inv, Fault \/ spent' = spent PROVE spent' \in 0..MaxFaults
<1>1. spent \in 0..MaxFaults /\ MaxFaults \in Nat
  BY MarketsAssumption DEF Inv, TypeOK
<1> QED
  BY <1>1 DEF Fault

\* What a step does that is none of the reconciler's.
LEMMA Outside ==
  ASSUME Inv, UNCHANGED <<at, wait, page, cursor, scanIn>>, hand' = hand, TypeOK', Rows
  PROVE  Inv'
BY RowsKeep DEF Inv, PageInv, HandInv, Sound, IsComplete

LEMMA VenueKeeps == ASSUME Inv, Venue PROVE Inv' /\ Rows
<1>1. PICK m \in Markets : Ends(m) \/ Decides(m) \/ Prices(m)
  BY DEF Venue
<1>2. /\ UNCHANGED <<at, wait, page, cursor, scanIn>> /\ hand' = hand /\ row' = row /\ rule' = rule
      /\ ws' = ws /\ heard' = heard /\ spent' = spent
  BY <1>1 DEF Ends, Decides, Prices, reconciler
<1>3. ended' \subseteq Markets
  BY <1>1 DEF Ends, Decides, Prices, Inv, TypeOK
<1>4. venue' \in [Markets -> [win : BOOLEAN, price : 1..2]]
  <2>1. venue \in [Markets -> [win : BOOLEAN, price : 1..2]]
    BY DEF Inv, TypeOK
  <2>2. \/ venue' = venue \/ venue' = [venue EXCEPT ![m].win = TRUE]
        \/ venue' = [venue EXCEPT ![m].price = 2]
    BY <1>1 DEF Ends, Decides, Prices
  <2>3. TRUE \in BOOLEAN /\ 2 \in 1..2
    OBVIOUS
  <2> QED
    BY <2>1, <2>2, <2>3
<1>5. Rows
  BY <1>2, NoRow
<1>6. TypeOK'
  BY <1>2, <1>3, <1>4 DEF Inv, TypeOK
<1> QED
  BY <1>2, <1>5, <1>6, Outside

\* What the socket told of a winner is no result until it is validated.
LEMMA SocketAnswer ==
  ASSUME Inv, NEW m \in Markets, ws[m] # None
  PROVE  Told2Answer(m) \in Answer /\ Sound(m, Told2Answer(m))
<1>1. ws[m].win \in Winners /\ ws[m].age \in 0..1
  BY DEF Inv, TypeOK, CallMax
<1>2. 1 - ws[m].age \in Overdue..MaxBackoff /\ ws[m].age \in 0..CallMax /\ 1 \in 0..MaxBackoff
  BY <1>1, Numbers
<1> QED
  BY <1>1, <1>2 DEF Told2Answer, Answer, Sound

LEMMA CollectKeeps == ASSUME Inv, Collect PROVE Inv' /\ Rows
<1>1. PICK m \in Markets : Discovered(m) \/ Told(m) \/ WsStored(m) \/ WsSkipped(m)
  BY DEF Collect
<1>2. /\ UNCHANGED <<at, wait, page, cursor, scanIn>> /\ hand' = hand
      /\ ended' = ended /\ venue' = venue
  BY <1>1 DEF Discovered, Told, WsStored, WsSkipped, reconciler
<1>3. Rows
  <2>1. CASE WsStored(m)
    BY <2>1, SocketAnswer, UpsertLearns DEF WsStored
  <2>2. CASE ~WsStored(m)
    BY <2>2, <1>1, NoRow DEF Discovered, Told, WsSkipped
  <2> QED
    BY <2>1, <2>2
<1>4. TypeOK'
  <2>1. rule' \in [Markets -> {Old, Current, None}] /\ heard' \subseteq Markets
    BY <1>1 DEF Discovered, Told, WsStored, WsSkipped, Inv, TypeOK
  <2>2. spent' \in 0..MaxFaults
    BY <1>1, Spends DEF Discovered, Told, WsStored, WsSkipped
  <2>3. ws' \in [Markets -> [win : Winners, age : 0..CallMax] \cup {None}]
    <3>1. \A w \in Winners : [win |-> w, age |-> 0] \in [win : Winners, age : 0..CallMax]
      BY Numbers
    <3> QED
      BY <3>1, <1>1 DEF Discovered, Told, WsStored, WsSkipped, Inv, TypeOK
  <2> QED
    BY <2>1, <2>3, <2>2, <1>2, <1>3 DEF Inv, TypeOK, Rows
<1> QED
  BY <1>2, <1>3, <1>4, Outside

\* Time makes rows older and overdue, and nothing else of them.
LEMMA TickKeeps == ASSUME Inv, Tick PROVE Inv' /\ Rows
<1>1. /\ UNCHANGED <<rule, ended, venue, heard, at, page, cursor, spent>>
      /\ at = "checking" => hand # None /\ hand.age < CallMax
      /\ \A m \in Markets : ws[m] # None => ws[m].age < CallMax
      /\ wait' = Larger(0, wait - 1) /\ scanIn' = Larger(0, scanIn - 1)
      /\ hand' = IF hand = None THEN None ELSE [hand EXCEPT !.age = hand.age + 1]
  BY DEF Tick
<1> DEFINE older(m) == [row[m] EXCEPT !.age = Smaller(Oldest, row[m].age + 1),
                          !.next = IF row[m].next = None THEN None ELSE Larger(Overdue, row[m].next - 1)]
           grown(m) == [ws[m] EXCEPT !.age = ws[m].age + 1]
<1>2. row' = [m \in Markets |-> IF row[m] = None THEN None ELSE older(m)]
  BY DEF Tick
<1>3. ws' = [m \in Markets |-> IF ws[m] = None THEN None ELSE grown(m)]
  BY DEF Tick
<1>4. ASSUME NEW m \in Markets, row[m] # None
      PROVE  older(m) \in Row /\ Whole(m, older(m)) /\ Learns(row[m], older(m))
  <2>1. PICK r \in Row : r = row[m] /\ Whole(m, r)
    BY <1>4, InvRows
  <2>2. PICK age, next : /\ age = Smaller(Oldest, r.age + 1)
                         /\ next = IF r.next = None THEN None ELSE Larger(Overdue, r.next - 1)
    OBVIOUS
  <2>3. age \in 0..Oldest
    BY <2>2, RowFields, Numbers DEF Smaller
  <2>4. next \in (Overdue..MaxBackoff) \cup {None}
    BY <2>2, RowFields, Numbers DEF Larger
  <2>5. older(m) = [r EXCEPT !.age = age, !.next = next]
    BY <2>1, <2>2
  <2> HIDE DEF older
  <2>6. /\ older(m) \in Row /\ older(m).st = r.st /\ older(m).price = r.price
        /\ older(m).win = r.win /\ older(m).rule = r.rule
    BY <2>3, <2>4, <2>5 DEF Row
  <2> QED
    BY <2>1, <2>6, RowFields DEF Whole, Learns
<1>5. ASSUME NEW m \in Markets, ws[m] # None PROVE grown(m) \in [win : Winners, age : 0..CallMax]
  <2>1. ws[m] \in [win : Winners, age : 0..CallMax] /\ ws[m].age < CallMax
    BY <1>1, <1>5 DEF Inv, TypeOK
  <2>2. ws[m].age + 1 \in 0..CallMax
    BY <2>1, Numbers
  <2> QED
    BY <2>1, <2>2
<1> HIDE DEF older, grown
<1>6. Rows
  <2>1. \A m \in Markets : older(m) # None \/ row[m] = None
    BY <1>4, RowFields
  <2> QED
    BY <2>1, <1>2, <1>4 DEF Rows
<1>7. hand # None => /\ hand' \in [m : Markets, ans : Answer \cup {None}, age : 0..CallMax]
                     /\ hand'.m = hand.m /\ hand'.ans = hand.ans
  <2> SUFFICES ASSUME hand # None
               PROVE  /\ hand' \in [m : Markets, ans : Answer \cup {None}, age : 0..CallMax]
                      /\ hand'.m = hand.m /\ hand'.ans = hand.ans
    OBVIOUS
  <2>1. hand \in [m : Markets, ans : Answer \cup {None}, age : 0..CallMax] /\ hand.age < CallMax
    BY <1>1 DEF Inv, TypeOK, PageInv
  <2>2. hand.age + 1 \in 0..CallMax
    BY <2>1, Numbers
  <2> QED
    BY <2>1, <2>2, <1>1
<1>8. hand = None => hand' = None
  BY <1>1
<1>9. TypeOK'
  <2>1. ws' \in [Markets -> [win : Winners, age : 0..CallMax] \cup {None}]
    BY <1>3, <1>5
  <2>2. wait' \in 0..1 /\ scanIn' \in 0..3
    BY <1>1 DEF Larger, Inv, TypeOK
  <2> QED
    BY <2>1, <2>2, <1>1, <1>6, <1>7, <1>8 DEF Inv, TypeOK, Rows
<1>10. PageInv'
  BY <1>1, <1>7, <1>8 DEF Inv, PageInv
<1>11. HandInv'
  BY <1>7, <1>8 DEF Inv, HandInv, Sound, IsComplete
<1> QED
  BY <1>6, <1>9, <1>10, <1>11, RowsKeep DEF Inv

----------------------------------------------------------------------------
(* The reconciler. *)

\* The beginning of an ordered page.
LEMMA FirstOf ==
  ASSUME NEW S, IsFiniteSet(S), NEW s \in [1..Cardinality(S) -> S]
  PROVE  First(s, Batch) \in Seq(S)
<1>1. Cardinality(S) \in Nat
  BY FS_CardinalityType
<1>2. s \in Seq(S) /\ Len(s) = Cardinality(S)
  BY <1>1
<1>3. Smaller(Batch, Len(s)) \in 0..Len(s)
  BY <1>1, <1>2, Numbers DEF Smaller
<1> QED
  BY <1>2, <1>3 DEF First

\* The windows to fill and the due rows are ended markets, of which there are finitely many.
LEMMA PagesAreMarkets ==
  ASSUME Inv
  PROVE  /\ IsFiniteSet(Missing) /\ Missing \subseteq Markets
         /\ IsFiniteSet(Due) /\ Due \subseteq Markets
         /\ \A m \in Due : rule[m] \in {Old, Current}
<1>1. Missing \subseteq Markets /\ Due \subseteq Markets /\ \A m \in Due : rule[m] \in {Old, Current}
  BY DEF Inv, TypeOK, Missing, Due
<1> QED
  BY <1>1, MarketsAssumption, FS_Subset

\* A step that only moves the reconciler.
LEMMA MoveKeeps ==
  ASSUME Inv, World, row' = row, UNCHANGED hand, Fault \/ spent' = spent,
         rule' \in [Markets -> {Old, Current, None}],
         at' \in {"sleeping", "filling", "scanning", "checking", "down"}, wait' \in 0..1,
         cursor' \in Markets \cup {None}, scanIn' \in 0..3, PageInv'
  PROVE  Inv' /\ Rows
<1>1. Rows
  BY NoRow
<1>2. spent' \in 0..MaxFaults
  BY Spends
<1>3. TypeOK'
  BY <1>2 DEF Inv, TypeOK, World
<1>4. HandInv'
  BY DEF Inv, HandInv, Sound, IsComplete
<1> QED
  BY <1>1, <1>3, <1>4, RowsKeep DEF Inv

LEMMA WakesKeeps == ASSUME Inv, Wakes PROVE Inv' /\ Rows
<1>1. World /\ UNCHANGED <<row, rule, wait, page, hand, cursor, scanIn, spent>>
      /\ at = "sleeping" /\ at' \in {"filling", "scanning"}
  BY DEF Wakes
<1>2. page = <<>> /\ <<>> \in Seq(Markets)
  BY <1>1 DEF Inv, PageInv
<1>3. PageInv'
  BY <1>1, <1>2 DEF Inv, PageInv
<1> QED
  BY <1>1, <1>3, MoveKeeps DEF Inv, TypeOK

LEMMA ReadsPageKeeps == ASSUME Inv, ReadsPage PROVE Inv' /\ Rows
<1>1. /\ at = "filling" /\ World /\ UNCHANGED <<rule, row, wait, hand, spent>>
      /\ \E s \in Sorted(Missing, LAMBDA a, b : a < b) :
           LET p == First(s, Batch) IN
             /\ page' = p
             /\ cursor' = IF p = <<>> THEN None ELSE p[Len(p)]
             /\ scanIn' = IF p = <<>> THEN 2 ELSE 1
             /\ at' = IF p = <<>> THEN "scanning" ELSE at
  BY DEF ReadsPage
<1>2. PICK s \in [1..Cardinality(Missing) -> Missing] :
        /\ page' = First(s, Batch)
        /\ cursor' = IF page' = <<>> THEN None ELSE page'[Len(page')]
        /\ scanIn' = IF page' = <<>> THEN 2 ELSE 1
        /\ at' = IF page' = <<>> THEN "scanning" ELSE at
  BY <1>1 DEF Sorted
<1>3. page' \in Seq(Missing)
  BY <1>2, FirstOf, PagesAreMarkets
<1>4. page' \in Seq(Markets) /\ cursor' \in Markets \cup {None}
  <2>1. Missing \subseteq Markets
    BY PagesAreMarkets
  <2>2. page' \in Seq(Markets)
    BY <2>1, <1>3
  <2>3. page' # <<>> => page'[Len(page')] \in Markets
    BY <2>2
  <2> QED
    BY <2>2, <2>3, <1>2
<1>5. hand = None
  BY <1>1 DEF Inv, PageInv
<1>6. PageInv'
  BY <1>1, <1>2, <1>4, <1>5 DEF PageInv
<1>7. scanIn' \in 0..3 /\ at' \in {"filling", "scanning"}
  <2>1. scanIn' \in {1, 2}
    BY <1>2
  <2>2. at' \in {"filling", "scanning"}
    BY <1>1, <1>2
  <2> QED
    BY <2>1, <2>2
<1> QED
  BY <1>1, <1>4, <1>6, <1>7, MoveKeeps DEF Inv, TypeOK

LEMMA PageFailsKeeps == ASSUME Inv, PageFails \/ ScanFails PROVE Inv' /\ Rows
<1>1. /\ World /\ UNCHANGED <<rule, row, page, hand>> /\ Fault
      /\ at' \in {"scanning", "sleeping"} /\ wait' \in {wait, 1} /\ scanIn' \in {scanIn, 2}
      /\ cursor' \in {cursor, None} /\ page = <<>> /\ hand = None
  BY DEF PageFails, ScanFails, Inv, PageInv
<1>2. PageInv'
  BY <1>1 DEF PageInv
<1> QED
  BY <1>1, <1>2, MoveKeeps DEF Inv, TypeOK

LEMMA FillsKeeps == ASSUME Inv, Fills PROVE Inv' /\ Rows
<1>1. /\ at = "filling" /\ page # <<>> /\ page' = Tail(page) /\ World
      /\ UNCHANGED <<row, wait, hand, cursor, scanIn>>
      /\ at' = IF page' = <<>> THEN "scanning" ELSE at
      /\ rule' = rule \/ rule' = [rule EXCEPT ![Head(page)] = Current]
      /\ Fault \/ spent' = spent
  BY DEF Fills
<1>2. page \in Seq(Markets) /\ hand = None
  BY <1>1 DEF Inv, PageInv
<1>3. page' \in Seq(Markets)
  BY <1>1, <1>2
<1>4. rule' \in [Markets -> {Old, Current, None}]
  BY <1>1 DEF Inv, TypeOK
<1>5. PageInv'
  BY <1>1, <1>2, <1>3 DEF PageInv
<1> QED
  BY <1>1, <1>4, <1>5, MoveKeeps DEF Inv, TypeOK

LEMMA ScansKeeps == ASSUME Inv, Scans PROVE Inv' /\ Rows
<1>1. /\ at = "scanning" /\ World /\ UNCHANGED <<rule, row, hand, cursor, scanIn, spent>>
  BY DEF Scans
<1>2. PICK s \in [1..Cardinality(Due) -> Due] :
        /\ page' = [i \in DOMAIN First(s, Batch) |->
                     [m |-> First(s, Batch)[i], exp |-> rule[First(s, Batch)[i]],
                      tries |-> IF row[First(s, Batch)[i]] = None THEN 0
                                ELSE row[First(s, Batch)[i]].tries]]
        /\ at' = IF First(s, Batch) = <<>> THEN "sleeping" ELSE "checking"
        /\ wait' = IF First(s, Batch) = <<>> THEN 1 ELSE wait
  BY DEF Scans, Sorted
<1> DEFINE p == First(s, Batch)
<1>3. p \in Seq(Due) /\ Len(p) \in Nat /\ DOMAIN p = 1..Len(p)
  BY FirstOf, PagesAreMarkets
<1> HIDE DEF p
<1>4. ASSUME NEW m \in Due
      PROVE  [m |-> m, exp |-> rule[m], tries |-> IF row[m] = None THEN 0 ELSE row[m].tries] \in PageRow
  <2>1. m \in Markets /\ rule[m] \in {Old, Current}
    BY PagesAreMarkets
  <2>2. 0 \in 0..MaxBackoff /\ (row[m] # None => row[m].tries \in 0..MaxBackoff)
    BY <2>1, InvRows, RowFields, Numbers
  <2> QED
    BY <2>1, <2>2 DEF PageRow
<1>5. page' \in [1..Len(p) -> PageRow]
  <2>1. \A i \in 1..Len(p) : p[i] \in Due
    BY <1>3
  <2> QED
    BY <2>1, <1>2, <1>3, <1>4 DEF p
<1>6. page' \in Seq(PageRow) /\ Len(page') = Len(p)
  BY <1>3, <1>5
<1>7. p = <<>> <=> page' = <<>>
  BY <1>3, <1>6
<1>8. hand = None
  BY <1>1 DEF Inv, PageInv
<1>9. at' = (IF p = <<>> THEN "sleeping" ELSE "checking") /\ wait' = IF p = <<>> THEN 1 ELSE wait
  BY <1>2 DEF p
<1>10. PageInv'
  BY <1>1, <1>6, <1>7, <1>8, <1>9 DEF PageInv
<1> QED
  BY <1>1, <1>9, <1>10, MoveKeeps DEF Inv, TypeOK

\* The row whose turn it is.
LEMMA HeadRow ==
  ASSUME Inv, at = "checking"
  PROVE  /\ page \in Seq(PageRow) /\ page # <<>> /\ Head(page) \in PageRow
         /\ Head(page).m \in Markets /\ Head(page).exp \in {Old, Current}
         /\ Head(page).tries \in 0..MaxBackoff
         /\ Attempt(Head(page)) \in 1..MaxBackoff
         /\ Backoff(Attempt(Head(page))) \in 1..MaxBackoff
<1>1. page \in Seq(PageRow) /\ page # <<>>
  BY DEF Inv, PageInv
<1>2. PICK p \in PageRow : p = Head(page)
  BY <1>1
<1>3. p.m \in Markets /\ p.exp \in {Old, Current} /\ p.tries \in 0..MaxBackoff
  BY DEF PageRow
<1>4. Attempt(p) \in 1..MaxBackoff
  BY <1>3, Numbers DEF Attempt, Smaller
<1>5. Backoff(Attempt(p)) \in 1..MaxBackoff
  <2>1. Attempt(p) - 1 \in Nat
    BY <1>4
  <2>2. PICK e : e = 2 ^ (Attempt(p) - 1)
    OBVIOUS
  <2>3. e \in Int
    BY <2>1, <2>2
  <2>4. Larger(1, Smaller(MaxBackoff, e)) \in 1..MaxBackoff
    BY <2>3, Numbers DEF Larger, Smaller
  <2> QED
    BY <2>2, <2>4 DEF Backoff
<1> QED
  BY <1>1, <1>2, <1>3, <1>4, <1>5

\* An answer is validated only if it tells the whole result, which is the venue's.
LEMMA CheckedSound ==
  ASSUME Inv, at = "checking", Found(Head(page)), SameRule(Head(page)),
         NEW st \in {"pending", "resolved"}, NEW price \in 0..2
  PROVE  LET x == Checked(Head(page), Parsed(Head(page), st, price)) IN
           /\ x \in Answer /\ x.age = 0 /\ Sound(Head(page).m, x)
           /\ x.next = None \/ x.next >= 1
<1>1. PICK p : p = Head(page)
  OBVIOUS
<1>2. /\ p.m \in Markets /\ p.exp = Current /\ Attempt(p) \in 1..MaxBackoff
      /\ Backoff(Attempt(p)) \in 1..MaxBackoff
  BY <1>1, HeadRow DEF SameRule
<1>3. PICK win \in Winners \cup {None} :
        win = (IF st = "resolved" THEN Official[p.m] ELSE None)
  BY <1>2, MarketsAssumption
<1>4. PICK val \in BOOLEAN : val = (st = "resolved" /\ price = 2)
  OBVIOUS
<1>5. PICK next : next = IF val THEN None ELSE Backoff(Attempt(p))
  OBVIOUS
<1>6. next \in (Overdue..MaxBackoff) \cup {None} /\ (next = None \/ next >= 1)
  BY <1>2, <1>5, Numbers
<1>7. PICK tries \in 0..MaxBackoff : tries = Attempt(p)
  BY <1>2, Numbers
<1>8. Checked(p, Parsed(p, st, price)) =
        [st |-> st, price |-> price, win |-> win, val |-> val, exp |-> p.exp, next |-> next,
         tries |-> tries, age |-> 0]
  BY <1>3, <1>4, <1>5, <1>7 DEF Checked, Parsed, IsComplete
<1>9. 0 \in 0..CallMax
  BY Numbers
<1>10. PICK x : x = Checked(p, Parsed(p, st, price))
  OBVIOUS
<1>11. x \in Answer /\ x.age = 0 /\ x.next = next /\ x.exp = Current
  BY <1>2, <1>6, <1>8, <1>9, <1>10 DEF Answer
<1>12. Sound(p.m, x)
  <2>1. x.val = val /\ x.st = st /\ x.price = price /\ x.win = win
    BY <1>8, <1>10
  <2>2. val => st = "resolved" /\ price = 2
    BY <1>4
  <2> QED
    BY <2>1, <2>2, <1>3, <1>11 DEF Sound, IsComplete
<1> QED
  BY <1>1, <1>6, <1>10, <1>11, <1>12

LEMMA FetchKeeps == ASSUME Inv, Fetched \/ FetchFails PROVE Inv' /\ Rows
<1>1. /\ at = "checking" /\ page # <<>> /\ World /\ UNCHANGED <<rule, row, at, wait, page, cursor, scanIn>>
      /\ Fault \/ spent' = spent
  BY DEF Fetched, FetchFails
<1>2. Rows /\ spent' \in 0..MaxFaults
  BY <1>1, NoRow, Spends
<1>3. PICK ans : /\ hand' = [m |-> Head(page).m, age |-> 0, ans |-> ans]
                 /\ ans # None => /\ ans \in Answer /\ Sound(Head(page).m, ans)
                                  /\ ans.next = None \/ ans.next >= 1
  <2>1. CASE Fetched
    <3>1. PICK st \in {"pending", "resolved"}, price \in 0..2 :
            /\ Found(Head(page)) /\ SameRule(Head(page))
            /\ hand' = [m |-> Head(page).m, age |-> 0, ans |-> Checked(Head(page), Parsed(Head(page), st, price))]
      BY <2>1 DEF Fetched
    <3> QED
      BY <3>1, <1>1, CheckedSound
  <2>2. CASE FetchFails
    BY <2>2 DEF FetchFails
  <2> QED
    BY <2>1, <2>2
<1>4. /\ hand' \in [m : Markets, ans : Answer \cup {None}, age : 0..CallMax]
      /\ hand'.m = Head(page).m /\ hand'.ans = ans
  <2>1. Head(page).m \in Markets /\ 0 \in 0..CallMax /\ ans \in Answer \cup {None}
    BY <1>1, <1>3, HeadRow, Numbers
  <2> QED
    BY <2>1, <1>3
<1>5. TypeOK'
  BY <1>1, <1>2, <1>4 DEF Inv, TypeOK, World
<1>6. PageInv'
  BY <1>1, <1>4 DEF Inv, PageInv
<1>7. HandInv'
  BY <1>3, <1>4 DEF HandInv, Sound, IsComplete
<1> QED
  BY <1>2, <1>5, <1>6, <1>7, RowsKeep DEF Inv

\* What reaches the table.
LEMMA AgedSound ==
  ASSUME Inv, hand # None, NEW x \in Answer, x.next = None \/ x.next >= 1
  PROVE  /\ Aged(x) \in Answer /\ Aged(x).val = x.val
         /\ Sound(hand.m, x) => Sound(hand.m, Aged(x))
<1>1. hand.age \in 0..CallMax /\ x.next \in (Overdue..MaxBackoff) \cup {None} /\ MaxBackoff \in Nat
  BY Numbers DEF Inv, TypeOK, Answer
<1>2. PICK next : next = IF x.next = None THEN None ELSE x.next - hand.age
  OBVIOUS
<1>3. next \in (Overdue..MaxBackoff) \cup {None}
  BY <1>1, <1>2, Numbers
<1>4. Aged(x) = [x EXCEPT !.age = hand.age, !.next = next]
  BY <1>2 DEF Aged
<1>5. /\ Aged(x) \in Answer /\ Aged(x).val = x.val /\ Aged(x).exp = x.exp /\ Aged(x).st = x.st
      /\ Aged(x).price = x.price /\ Aged(x).win = x.win
  BY <1>1, <1>3, <1>4 DEF Answer
<1> QED
  BY <1>5 DEF Sound, IsComplete

LEMMA RetryAnswer ==
  ASSUME Inv, at = "checking"
  PROVE  /\ Retry(Head(page)) \in Answer /\ Retry(Head(page)).next >= 1 /\ ~Retry(Head(page)).val
<1>1. PICK p : p = Head(page)
  OBVIOUS
<1>2. /\ p.exp \in {Old, Current} /\ Attempt(p) \in 0..MaxBackoff
      /\ Backoff(Attempt(p)) \in Overdue..MaxBackoff /\ Backoff(Attempt(p)) >= 1 /\ 0 \in 0..CallMax
  BY <1>1, HeadRow, Numbers
<1>3. Retry(p) \in Answer /\ Retry(p).next >= 1 /\ ~Retry(p).val
  BY <1>2 DEF Retry, Answer
<1> QED
  BY <1>1, <1>3

\* The reconciler turns to the next row of its page.
LEMMA TurnKeeps ==
  ASSUME Inv, hand # None, Turns, World, Rows, UNCHANGED <<rule, cursor, scanIn>>,
         Fault \/ spent' = spent
  PROVE  Inv'
<1>1. at = "checking" /\ page \in Seq(PageRow) /\ page # <<>>
  BY DEF Inv, PageInv
<1>2. /\ page' = Tail(page) /\ hand' = None
      /\ at' = IF page' = <<>> THEN "sleeping" ELSE at
      /\ wait' = IF page' = <<>> THEN 1 ELSE wait
  BY DEF Turns
<1>3. page' \in Seq(PageRow)
  BY <1>1, <1>2
<1>4. spent' \in 0..MaxFaults
  BY Spends
<1>5. TypeOK'
  BY <1>1, <1>2, <1>4 DEF Inv, TypeOK, World, Rows
<1>6. PageInv'
  BY <1>1, <1>2, <1>3 DEF PageInv
<1>7. HandInv'
  BY <1>2 DEF HandInv
<1> QED
  BY <1>5, <1>6, <1>7, RowsKeep DEF Inv

LEMMA WriteKeeps == ASSUME Inv, Writes \/ WriteFails PROVE Inv' /\ Rows
<1>1. /\ hand # None /\ Turns /\ World /\ UNCHANGED <<rule, cursor, scanIn>>
      /\ Fault \/ spent' = spent
  BY DEF Writes, WriteFails
<1>2. at = "checking" /\ hand.m \in Markets
  BY <1>1 DEF Inv, PageInv, TypeOK
<1>3. CASE Writes
  <2>1. CASE hand.ans # None
    <3>1. hand.ans \in Answer /\ Sound(hand.m, hand.ans) /\ (hand.ans.next = None \/ hand.ans.next >= 1)
      BY <2>1, <1>1 DEF Inv, TypeOK, HandInv
    <3>2. Aged(hand.ans) \in Answer /\ Sound(hand.m, Aged(hand.ans))
      BY <3>1, <1>1, AgedSound
    <3>3. Upsert(hand.m, Aged(hand.ans))
      BY <2>1, <1>3 DEF Writes
    <3> QED
      BY <3>2, <3>3, <1>1, <1>2, UpsertLearns, TurnKeeps
  <2>2. CASE hand.ans = None
    <3>1. Aged(Retry(Head(page))) \in Answer /\ ~Aged(Retry(Head(page))).val
      BY <1>1, <1>2, RetryAnswer, AgedSound
    <3>2. Reschedule(hand.m, Aged(Retry(Head(page))))
      BY <2>2, <1>3 DEF Writes
    <3> QED
      BY <3>1, <3>2, <1>1, <1>2, RescheduleLearns, TurnKeeps
  <2> QED
    BY <2>1, <2>2
<1>4. CASE WriteFails
  BY <1>1, <1>4, NoRow, TurnKeeps DEF WriteFails
<1> QED
  BY <1>3, <1>4

\* Crash and restart: nothing of the reconciler is left, and nothing of the rows is lost.
LEMMA CrashKeeps == ASSUME Inv, Crash \/ Restart PROVE Inv' /\ Rows
<1>1. CASE Crash
  <2>1. /\ at' = "down" /\ wait' = 0 /\ page' = <<>> /\ hand' = None /\ cursor' = None /\ scanIn' = 0
        /\ ws' = [m \in Markets |-> None] /\ UNCHANGED <<rule, row, ended, venue, heard>> /\ Fault
    BY <1>1 DEF Crash
  <2>2. Rows /\ spent' \in 0..MaxFaults
    BY <2>1, NoRow, Spends
  <2>3. TypeOK'
    BY <2>1, <2>2 DEF Inv, TypeOK
  <2> QED
    BY <2>1, <2>2, <2>3, RowsKeep DEF Inv, PageInv, HandInv
<1>2. CASE Restart
  <2>1. /\ at = "down" /\ at' = "sleeping"
        /\ World /\ UNCHANGED <<rule, row, wait, page, hand, cursor, scanIn, spent>>
    BY <1>2 DEF Restart
  <2>2. PageInv'
    BY <2>1 DEF Inv, PageInv
  <2> QED
    BY <2>1, <2>2, MoveKeeps DEF Inv, TypeOK
<1> QED
  BY <1>1, <1>2

----------------------------------------------------------------------------
(* The theorems. *)

LEMMA InitInv == Init => Inv
<1> SUFFICES ASSUME Init PROVE Inv
  OBVIOUS
<1>1. /\ Legacy \subseteq Markets /\ 1 \in 0..MaxBackoff /\ 2 \in 0..Oldest /\ 0 \in 0..MaxFaults
      /\ \A m \in Markets : Official[m] \in Winners
  BY MarketsAssumption, Numbers
<1>2. ASSUME NEW m \in Markets
      PROVE  LET r == [LegacyRow EXCEPT !.win = Official[m]] IN r \in Row /\ r.rule = Old
  <2>1. Official[m] \in Winners /\ Oldest \in 0..Oldest
    BY <1>1, Numbers
  <2> QED
    BY <2>1, <1>1 DEF LegacyRow, Row
<1>3. row \in [Markets -> Row \cup {None}]
  BY <1>2 DEF Init
<1>4. venue \in [Markets -> [win : BOOLEAN, price : 1..2]]
  <2>1. venue = [m \in Markets |-> [win |-> m \in Legacy, price |-> IF m \in Legacy THEN 2 ELSE 1]]
    BY DEF Init
  <2>2. \A m \in Markets : (m \in Legacy) \in BOOLEAN /\ (IF m \in Legacy THEN 2 ELSE 1) \in 1..2
    OBVIOUS
  <2> QED
    BY <2>1, <2>2
<1>5. TypeOK
  BY <1>1, <1>3, <1>4 DEF Init, TypeOK
<1>6. \A m \in Markets : row[m] # None => row[m].rule # Current
  <2>1. Old # Current
    BY DEF Old, Current
  <2> QED
    BY <2>1, <1>2 DEF Init
<1> QED
  BY <1>5, <1>6 DEF Init, Inv, PageInv, HandInv, ResultInv, Validated

LEMMA NextKeeps == ASSUME Inv, [Next]_vars PROVE Inv' /\ Rows
<1>1. CASE Reconcile
  BY <1>1, WakesKeeps, ReadsPageKeeps, PageFailsKeeps, FillsKeeps, ScansKeeps, FetchKeeps, WriteKeeps
  DEF Reconcile
<1>2. CASE UNCHANGED vars
  BY <1>2, NoRow, Outside DEF vars, reconciler, Inv, TypeOK
<1> QED
  BY <1>1, <1>2, VenueKeeps, CollectKeeps, TickKeeps, CrashKeeps DEF Next

\* A row marked with the rule in force holds the complete official result, whatever the socket, a
\* late or partial answer, a retry or a crash wrote to it, and in whichever order.
THEOREM OfficialResultStands == Spec => []OfficialStands
<1>1. Inv => OfficialStands
  BY DEF Inv, OfficialStands, ResultInv
<1>2. Inv /\ [Next]_vars => Inv'
  BY NextKeeps
<1> QED
  BY <1>1, <1>2, InitInv, PTL DEF Spec

\* No write takes back what a row has learned, and none replaces a validated winner.
THEOREM NothingIsUnlearned == Spec => NothingUnlearned
<1> DEFINE Kept == \A m \in Markets : row[m] # None =>
                     /\ row'[m] # None /\ row'[m].price >= row[m].price
                     /\ row[m].st = "resolved" => row'[m].st = "resolved"
                     /\ Validated(m) => row'[m].win = row[m].win /\ row'[m].rule = Current
<1>1. Inv /\ [Next]_vars => Kept
  BY NextKeeps DEF Rows, Learns, Validated
<1>2. Inv /\ [Next]_vars => Inv'
  BY NextKeeps
<1> QED
  BY <1>1, <1>2, InitInv, PTL DEF Spec, NothingUnlearned
=============================================================================
