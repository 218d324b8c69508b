-------------------------- MODULE MarketResolution --------------------------
(***************************************************************************)
(* How a market of five minutes gets its official result: the collector    *)
(* stores the market and what its socket tells of the winner, while the    *)
(* reconciler pages through ended markets, repairs the ones whose identity *)
(* is missing or of an older rule, and asks Gamma and CLOB for the result  *)
(* until a complete one has been validated against the market's rule.      *)
(*                                                                         *)
(* Markets are numbered by time.  All times are relative to the present:   *)
(* of a row, next is the ticks until next_check_ms and age those since     *)
(* last_checked_ms, both cut off where the code can no longer tell them    *)
(* apart.  The fetch of a market and its write are two steps of the        *)
(* reconciler; the socket's write may come between them.                   *)
(***************************************************************************)
EXTENDS Integers, Sequences, FiniteSets

CONSTANTS
  Markets,     \* a range of integers
  Legacy,      \* markets stored and resolved under an older rule
  Live,        \* markets that have not ended yet
  Broken,      \* markets of which no answer can ever be used
  Batch,       \* POLYMARKET_RESOLUTION_BATCH_SIZE
  MaxBackoff,  \* POLYMARKET_RESOLUTION_MAX_BACKOFF_SECONDS; the poll interval is one tick
  Winners, Official,     \* possible winners, and the one of each market
  None,
  MaxFaults    \* bound on faults and crashes together

ASSUME MarketsAssumption ==
  /\ Markets \subseteq Nat /\ IsFiniteSet(Markets) /\ Legacy \cup Live \cup Broken \subseteq Markets
  /\ Batch \in Nat \ {0} /\ MaxBackoff \in Nat \ {0} /\ MaxFaults \in Nat
  /\ Official \in [Markets -> Winners] /\ None \notin Winners

VARIABLES
  rule,      \* settlement_rule_version of each market's row, or None without a row
  row,       \* polymarket_btc_5m_resolutions
  ended,     \* markets whose window is over
  venue,     \* what Gamma and CLOB can tell: the winner, and the level of prices
  ws,        \* a winner the socket told and that is being written, or None
  heard,     \* markets whose socket has told a winner
  at,        \* where the reconciler is
  wait,      \* ticks that it still sleeps
  page,      \* the rest of its page: of windows to fill, or of due rows as they were read
  hand,      \* the answer that is being written, or None
  cursor,    \* backfill_cursor_ms, or None
  scanIn,    \* ticks until next_backfill_scan_ms
  spent      \* faults and crashes

reconciler == <<at, wait, page, hand, cursor, scanIn>>
vars == <<rule, row, ended, venue, ws, heard, reconciler, spent>>

Current == "current"      \* the settlement rule in force
Old     == "old"
CallMax == 1              \* a call or a write ends within a tick
Oldest  == CallMax + 1    \* ages beyond that of any write in progress
Overdue == -2             \* how long a row has been due no longer matters

\* Prices: none, the open one, or both.
Row == [st : {"pending", "resolved"}, price : 0..2, win : Winners \cup {None},
        rule : {Old, Current, None}, next : (Overdue..MaxBackoff) \cup {None},
        tries : 0..MaxBackoff, age : 0..Oldest]

Answer == [st : {"pending", "resolved"}, price : 0..2, win : Winners \cup {None},
           val : BOOLEAN, exp : {Old, Current}, next : (Overdue..MaxBackoff) \cup {None},
           tries : 0..MaxBackoff, age : 0..CallMax]

ASSUME NoneIsNoRow == None \notin Row \cup {Old, Current}

TypeOK ==
  /\ rule \in [Markets -> {Old, Current, None}] /\ row \in [Markets -> Row \cup {None}]
  /\ ended \subseteq Markets /\ venue \in [Markets -> [win : BOOLEAN, price : 1..2]]
  /\ ws \in [Markets -> [win : Winners, age : 0..CallMax] \cup {None}] /\ heard \subseteq Markets
  /\ at \in {"sleeping", "filling", "scanning", "checking", "down"} /\ wait \in 0..1
  /\ hand \in {None} \cup [m : Markets, ans : Answer \cup {None}, age : 0..CallMax]
  /\ cursor \in Markets \cup {None} /\ scanIn \in 0..3
  /\ spent \in 0..MaxFaults

LegacyRow == [st |-> "resolved", price |-> 2, win |-> None, rule |-> Old, next |-> None,
              tries |-> 1, age |-> Oldest]

Init ==
  /\ rule = [m \in Markets |-> IF m \in Legacy THEN Old ELSE None]
  /\ row = [m \in Markets |-> IF m \in Legacy THEN [LegacyRow EXCEPT !.win = Official[m]] ELSE None]
  /\ ended = Markets \ Live
  /\ venue = [m \in Markets |-> [win |-> m \in Legacy, price |-> IF m \in Legacy THEN 2 ELSE 1]]
  /\ ws = [m \in Markets |-> None] /\ heard = {}
  /\ at = "sleeping" /\ wait = 0 /\ page = <<>> /\ hand = None /\ cursor = None /\ scanIn = 0
  /\ spent = 0

Larger(a, b) == IF a > b THEN a ELSE b
Smaller(a, b) == IF a < b THEN a ELSE b

Fault == spent < MaxFaults /\ spent' = spent + 1
----------------------------------------------------------------------------
(* The statements of db.py on a row. *)

\* A row without the marker of the market's rule takes a result only with that marker.
\* Mutant: it takes any result.
AnyResult(r, x) == FALSE
MustValidate(r, x) == r.rule # x.exp

\* GREATEST of the next check and both checks, which is not before the present by more than Overdue.
Later(r, x) == IF x.next = None THEN -Smaller(r.age, x.age)
                                ELSE Larger(x.next, -Smaller(r.age, x.age))

NextCheck(r, x) ==
  CASE MustValidate(r, x) /\ ~x.val -> Later(r, x)
    [] ~(MustValidate(r, x) /\ ~x.val) /\ "resolved" \in {r.st, x.st} /\ Larger(r.price, x.price) = 2 -> None
    [] OTHER -> IF x.age > r.age THEN r.next ELSE IF x.next = None THEN None ELSE Later(r, x)

Inserted(x) ==
  [st |-> x.st, win |-> x.win, price |-> x.price, rule |-> IF x.val THEN x.exp ELSE None,
   next |-> x.next, tries |-> x.tries, age |-> x.age]

\* Mutant: the last write wins.
MergedLast(r, x) == Inserted(x)
Merged(r, x) ==
  LET replaces == MustValidate(r, x) /\ x.val
      keeps == ~replaces /\ (MustValidate(r, x) \/ r.st = "resolved")
  IN [st |-> IF keeps THEN r.st ELSE x.st, win |-> IF keeps THEN r.win ELSE x.win,
      price |-> CASE replaces -> x.price
                  [] MustValidate(r, x) /\ ~x.val -> r.price
                  [] OTHER -> Larger(r.price, x.price),
      rule |-> IF x.val THEN x.exp ELSE r.rule, next |-> NextCheck(r, x),
      tries |-> Larger(r.tries, x.tries), age |-> Smaller(r.age, x.age)]

\* upsert_polymarket_btc_5m_resolution.
Upsert(m, x) == row' = [row EXCEPT ![m] = IF @ = None THEN Inserted(x) ELSE Merged(@, x)]

Unvalidated(m) == row[m].rule # rule[m]
Complete(m) == row[m].st = "resolved" /\ row[m].price = 2

\* The row of a market whose next check is put off.
Rescheduled(m, x) ==
  [row[m] EXCEPT
    !.age = Smaller(row[m].age, x.age), !.tries = Larger(row[m].tries, x.tries),
    !.next = CASE Unvalidated(m) -> Later(row[m], x)
               [] ~Unvalidated(m) /\ Complete(m) -> None
               [] OTHER -> IF x.age > row[m].age THEN row[m].next ELSE Later(row[m], x)]

\* schedule_polymarket_resolution_retry.
Reschedule(m, x) ==
  row' = [row EXCEPT ![m] = IF @ = None THEN Inserted(x) ELSE Rescheduled(m, x)]
----------------------------------------------------------------------------
(* The venue and the collector. *)

Ends(m) ==
  /\ m \notin ended /\ ended' = ended \cup {m}
  /\ UNCHANGED <<rule, row, venue, ws, heard, reconciler, spent>>

\* The winner and the final price become known some time after the end, in either order.
Decides(m) ==
  /\ m \in ended /\ ~venue[m].win /\ venue' = [venue EXCEPT ![m].win = TRUE]
  /\ UNCHANGED <<rule, row, ended, ws, heard, reconciler, spent>>
Prices(m) ==
  /\ m \in ended /\ venue[m].price = 1 /\ venue' = [venue EXCEPT ![m].price = 2]
  /\ UNCHANGED <<rule, row, ended, ws, heard, reconciler, spent>>

\* The collector discovers a market whose window is still open.
Discovered(m) ==
  /\ m \notin ended /\ m \notin Broken /\ rule' = [rule EXCEPT ![m] = Current]
  /\ UNCHANGED <<row, ended, venue, ws, heard, reconciler, spent>>

\* market_resolved on the socket of a market that was discovered live; it may be corrected later.
Told(m) ==
  /\ m \in Live /\ rule[m] = Current /\ m \notin heard /\ heard' = heard \cup {m}
  /\ \E w \in Winners : ws' = [ws EXCEPT ![m] = [win |-> w, age |-> 0]]
  /\ UNCHANGED <<rule, row, ended, venue, reconciler, spent>>

\* persist_websocket_resolution.
Told2Answer(m) ==
  [st |-> "resolved", price |-> 0, win |-> ws[m].win, val |-> FALSE, exp |-> Current,
   next |-> 1 - ws[m].age, tries |-> 1, age |-> ws[m].age]

WsStored(m) ==
  /\ ws[m] # None /\ Upsert(m, Told2Answer(m)) /\ ws' = [ws EXCEPT ![m] = None]
  /\ UNCHANGED <<rule, ended, venue, heard, reconciler, spent>>

\* The write fails, or the collector is cancelled: the message is not kept.
WsSkipped(m) ==
  /\ ws[m] # None /\ Fault /\ ws' = [ws EXCEPT ![m] = None]
  /\ UNCHANGED <<rule, row, ended, venue, heard, reconciler>>
----------------------------------------------------------------------------
(* The reconciler: _resolution_reconciler_session. *)

World == UNCHANGED <<ended, venue, ws, heard>>
First(s, n) == SubSeq(s, 1, Smaller(n, Len(s)))

\* The members of S in an order in which no later one comes strictly before an earlier one.
Sorted(S, before(_, _)) ==
  {s \in [1..Cardinality(S) -> S] :
     \A i, j \in 1..Cardinality(S) : i < j => s[i] # s[j] /\ ~before(s[j], s[i])}

Wakes ==
  /\ at = "sleeping" /\ wait = 0 /\ at' = IF scanIn = 0 THEN "filling" ELSE "scanning"
  /\ World /\ UNCHANGED <<rule, row, wait, page, hand, cursor, scanIn, spent>>

\* fetch_missing_polymarket_market_windows: ended windows without the canonical identity.
\* Mutant: every page starts at the oldest window.
MissingFromOldest == {m \in ended : rule[m] # Current}
Missing == {m \in ended : rule[m] # Current /\ (cursor = None \/ m > cursor)}

\* The page is read, and the cursor moves to its end; an empty page wraps.
ReadsPage ==
  /\ at = "filling" /\ page = <<>>
  /\ \E s \in Sorted(Missing, LAMBDA a, b : a < b) :
       LET p == First(s, Batch) IN
         /\ page' = p
         /\ cursor' = IF p = <<>> THEN None ELSE p[Len(p)]
         /\ scanIn' = IF p = <<>> THEN 2 ELSE 1
         /\ at' = IF p = <<>> THEN "scanning" ELSE at
  /\ World /\ UNCHANGED <<rule, row, wait, hand, spent>>

\* A scan that fails counts as an empty page.
PageFails ==
  /\ at = "filling" /\ page = <<>> /\ Fault
  /\ cursor' = None /\ scanIn' = 2 /\ at' = "scanning"
  /\ World /\ UNCHANGED <<rule, row, wait, page, hand>>

\* backfill_missing_polymarket_markets_once: the window is discovered and stored, or left for later.
Fills ==
  /\ at = "filling" /\ page # <<>> /\ page' = Tail(page)
  /\ at' = IF Tail(page) = <<>> THEN "scanning" ELSE at
  /\ \/ Head(page) \notin Broken /\ rule' = [rule EXCEPT ![Head(page)] = Current] /\ UNCHANGED spent
     \/ Head(page) \notin Broken /\ Fault /\ UNCHANGED rule
     \/ Head(page) \in Broken /\ UNCHANGED <<rule, spent>>
  /\ World /\ UNCHANGED <<row, wait, hand, cursor, scanIn>>

\* fetch_due_polymarket_resolutions.
Due == {m \in ended :
  /\ rule[m] # None
  /\ row[m] = None \/ ~Complete(m) \/ Unvalidated(m)
  /\ row[m] = None \/ row[m].next = None \/ row[m].next <= 0}

\* Rows that were never tried or are due without a time first, then the longest overdue, then the newest.
DueBefore(a, b) ==
  LET key(m) == IF row[m] = None \/ row[m].next = None THEN Overdue - 1 ELSE row[m].next
  IN key(a) < key(b) \/ (key(a) = key(b) /\ a > b)

Scans ==
  /\ at = "scanning"
  /\ \E s \in Sorted(Due, DueBefore) :
       LET p == First(s, Batch) IN
         /\ page' = [i \in DOMAIN p |->
              [m |-> p[i], exp |-> rule[p[i]], tries |-> IF row[p[i]] = None THEN 0 ELSE row[p[i]].tries]]
         /\ at' = IF p = <<>> THEN "sleeping" ELSE "checking"
         /\ wait' = IF p = <<>> THEN 1 ELSE wait
  /\ World /\ UNCHANGED <<rule, row, hand, cursor, scanIn, spent>>

ScanFails ==
  /\ at = "scanning" /\ Fault /\ at' = "sleeping" /\ wait' = 1
  /\ World /\ UNCHANGED <<rule, row, page, hand, cursor, scanIn>>

\* resolution_retry_delay_ms, in ticks and at least one; attempts beyond MaxBackoff make no
\* difference to it.
Backoff(attempt) == Larger(1, Smaller(MaxBackoff, 2 ^ (attempt - 1)))
Attempt(p) == Smaller(MaxBackoff, p.tries + 1)

\* _find_gamma_resolution_market, and the rules that parse_polymarket_resolution compares.
Found(p) == p.m \notin Broken
SameRule(p) == p.exp = Current

\* The terminal result that CLOB or Gamma tell, if they do.
Terminal(m, st) == st = "resolved" => venue[m].win

\* parse_polymarket_resolution.
Parsed(p, st, price) ==
  [st |-> st, price |-> price, win |-> IF st = "resolved" THEN Official[p.m] ELSE None]
IsComplete(x) == x.st = "resolved" /\ x.price = 2

\* What the reconciler writes of it.
Checked(p, x) ==
  [st |-> x.st, price |-> x.price, win |-> x.win, val |-> IsComplete(x), exp |-> p.exp,
   next |-> IF IsComplete(x) THEN None ELSE Backoff(Attempt(p)), tries |-> Attempt(p), age |-> 0]

\* fetch_polymarket_resolution: what the venue tells by now, less what an unreachable CLOB or an
\* unknown price leaves out.
Fetched ==
  /\ at = "checking" /\ page # <<>> /\ hand = None
  /\ LET p == Head(page) IN
       /\ Found(p) /\ SameRule(p)
       /\ \E st \in {"pending", "resolved"}, price \in 0..2 :
            /\ Terminal(p.m, st) /\ price <= venue[p.m].price
            /\ IF (venue[p.m].win => st = "resolved") /\ price = venue[p.m].price
               THEN UNCHANGED spent ELSE Fault
            /\ hand' = [m |-> p.m, age |-> 0, ans |-> Checked(p, Parsed(p, st, price))]
  /\ World /\ UNCHANGED <<rule, row, at, wait, page, cursor, scanIn>>

\* No answer, or one that contradicts what is known of the market.
FetchFails ==
  /\ at = "checking" /\ page # <<>> /\ hand = None
  /\ IF Found(Head(page)) /\ SameRule(Head(page)) THEN Fault ELSE UNCHANGED spent
  /\ hand' = [m |-> Head(page).m, ans |-> None, age |-> 0]
  /\ World /\ UNCHANGED <<rule, row, at, wait, page, cursor, scanIn>>

\* The answer as it is when it reaches the table.
Aged(x) == [x EXCEPT !.age = hand.age, !.next = IF @ = None THEN None ELSE @ - hand.age]
Retry(p) == [st |-> "pending", price |-> 0, win |-> None, val |-> FALSE, exp |-> p.exp,
             next |-> Backoff(Attempt(p)), tries |-> Attempt(p), age |-> 0]

Turns == /\ page' = Tail(page) /\ hand' = None
         /\ at' = IF Tail(page) = <<>> THEN "sleeping" ELSE at
         /\ wait' = IF Tail(page) = <<>> THEN 1 ELSE wait

\* reconcile_polymarket_resolution_once: its write.
Writes ==
  /\ hand # None /\ Turns
  /\ IF hand.ans # None THEN Upsert(hand.m, Aged(hand.ans))
                        ELSE Reschedule(hand.m, Aged(Retry(Head(page))))
  /\ World /\ UNCHANGED <<rule, cursor, scanIn, spent>>

WriteFails ==
  /\ hand # None /\ Turns /\ Fault /\ World /\ UNCHANGED <<rule, row, cursor, scanIn>>

\* The process or its session ends anywhere; nothing of the reconciler outlives it.
Crash ==
  /\ at # "down" /\ Fault
  /\ at' = "down" /\ wait' = 0 /\ page' = <<>> /\ hand' = None /\ cursor' = None /\ scanIn' = 0
  /\ ws' = [m \in Markets |-> None] /\ UNCHANGED <<rule, row, ended, venue, heard>>

Restart ==
  /\ at = "down" /\ at' = "sleeping"
  /\ World /\ UNCHANGED <<rule, row, wait, page, hand, cursor, scanIn, spent>>

\* Time passes while the reconciler sleeps or a call lasts.
Tick ==
  /\ ~(at = "sleeping" /\ wait = 0) /\ at \notin {"filling", "scanning"}
  /\ at = "checking" => hand # None /\ hand.age < CallMax
  /\ \A m \in Markets : ws[m] # None => ws[m].age < CallMax
  /\ wait' = Larger(0, wait - 1) /\ scanIn' = Larger(0, scanIn - 1)
  /\ hand' = IF hand = None THEN None ELSE [hand EXCEPT !.age = @ + 1]
  /\ ws' = [m \in Markets |-> IF ws[m] = None THEN None ELSE [ws[m] EXCEPT !.age = @ + 1]]
  /\ row' = [m \in Markets |->
       IF row[m] = None THEN None
       ELSE [row[m] EXCEPT !.age = Smaller(Oldest, @ + 1),
                           !.next = IF @ = None THEN None ELSE Larger(Overdue, @ - 1)]]
  /\ UNCHANGED <<rule, ended, venue, heard, at, page, cursor, spent>>

Reconcile ==
  Wakes \/ ReadsPage \/ PageFails \/ Fills \/ Scans \/ ScanFails \/ Fetched \/ FetchFails
  \/ Writes \/ WriteFails
Collect == \E m \in Markets : Discovered(m) \/ Told(m) \/ WsStored(m) \/ WsSkipped(m)
Venue == \E m \in Markets : Ends(m) \/ Decides(m) \/ Prices(m)

Next == Reconcile \/ Collect \/ Venue \/ Crash \/ Restart \/ Tick

Spec == Init /\ [][Next]_vars

\* The tasks of the loop run, time passes, systemd restarts the service, and markets end and are
\* decided (each step of the venue happens once).  Nothing is assumed of discovery, of the socket, or of the broken markets.
Fairness ==
  /\ WF_vars(Reconcile) /\ WF_vars(Tick) /\ WF_vars(Restart)
  /\ WF_vars(\E m \in Markets : WsStored(m))
  /\ WF_vars(Venue)

FairSpec == Spec /\ Fairness
----------------------------------------------------------------------------
(* Properties. *)

Validated(m) == row[m] # None /\ row[m].rule = Current

\* A row that carries the marker of the rule in force holds the complete official result, in
\* whichever order the socket, a late or partial answer, a retry and a crash wrote to it
\* (upsert_polymarket_btc_5m_resolution, README 164).
OfficialStands ==
  /\ TypeOK
  /\ \A m \in Markets : Validated(m) => Complete(m) /\ row[m].win = Official[m]

\* A row never returns from resolved to pending, never loses a price, and a winner that is validated
\* is never replaced.
NothingUnlearned ==
  [][\A m \in Markets : row[m] # None =>
       /\ row'[m] # None /\ row'[m].price >= row[m].price
       /\ row[m].st = "resolved" => row'[m].st = "resolved"
       /\ Validated(m) => row'[m].win = row[m].win /\ row'[m].rule = Current]_vars

\* Every market that the venue can answer for ends up stored and validated, whatever is broken for
\* ever, retried before it or was resolved under an older rule: neither pages of windows nor pages
\* of due rows starve (README 171-173).
EachSettles == \A m \in Markets \ Broken : <>[](rule[m] = Current /\ Validated(m))
=============================================================================
