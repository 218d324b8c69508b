---------------------------- MODULE GhostStream ----------------------------
(***************************************************************************)
(* GhostStreamHub: one Redis subscription fanned out to SSE clients.       *)
(* Pub/Sub is no replay log, so every loss of it must end in an            *)
(* authoritative GET that starts after the subscription is acknowledged.   *)
(*                                                                         *)
(* Three tasks share one event loop: the connection, the pump that empties *)
(* the socket into a bounded queue, and the health task; clients wait in   *)
(* next().  Redis and the producer's commands, which a timeout may leave   *)
(* to be applied late and out of order, are external.  Wall and monotonic  *)
(* clocks are one clock here.                                              *)
(***************************************************************************)
EXTENDS Integers, Sequences, FiniteSets

CONSTANTS
  Clients,
  MaxClients,   \* max_clients
  BufferSize,   \* buffer_size: messages between the pump and the connection
  Life,         \* validity of a payload at its publication attempt, and its PX
  Bodies,       \* payload bytes of one identity; a second one is a producer fault
  Bad,          \* the bytes that do not parse
  None,
  Ack,          \* the server's acknowledgement of a subscription
  Absent, Waiting,   \* a GET that found nothing, or is not answered
  MaxNow, MaxIssues, MaxFaults   \* bounds: time, commands, faults

ASSUME StreamAssumption ==
  /\ BufferSize \in Nat \ {0} /\ MaxClients \in Nat \ {0} /\ Life \in Nat
  /\ MaxNow \in Nat /\ MaxIssues \in Nat /\ MaxFaults \in Nat
  /\ Bad \notin Bodies

VARIABLES
  now,
  issued,      \* number of commands sent by the producers
  current,     \* the producer's run and decision
  cmds,        \* PUBLISH_LUA commands not yet run by Redis
  key,         \* GHOST_KEY, with the expiry of its PX
  link,        \* the server's side of the subscription
  pipe,        \* what the server has sent to the subscriber
  faults,      \* faults so far
  conn,        \* where the connection task is
  get,         \* its GET/PTTL: when it began, what Redis answered
  failed,      \* the pump has ended with an exception
  queue,       \* between the pump and the connection
  needsAuth,   \* _needs_authoritative
  prod,        \* _producer_run, _sequence, _raw and _deadline
  conflicted,  \* _conflicted_identity
  gen,         \* generation
  snapshot,    \* _snapshot
  last,        \* history: the last payload shown of the run in prod, and its generation
  open,        \* _clients
  pend,        \* each client's queue of one update
  prevGen,     \* previous_generation of each response
  out,         \* history: the forecast in each client's last frame
  lastRun,     \* history: the producer run each client saw last
  told         \* history: it has been told to resync since

redis   == <<current, issued, cmds, key>>
socket  == <<link, pipe>>
hub     == <<needsAuth, prod, conflicted>>
readers == <<open, prevGen, out, lastRun, told>>
shown   == <<snapshot, last, pend>>
vars    == <<now, redis, socket, faults, conn, get, failed, queue, hub, gen, shown, readers>>

Payload  == [run : Nat, id : Nat, body : Bodies \cup {Bad}, until : Nat]
Read     == [p : Payload, deadline : Nat]
Update   == [read : Read \cup {None}, gen : Nat, resync : BOOLEAN]
Answer   == {Absent, Waiting} \cup [p : Payload, ttl : Nat]
Followed == [run : Nat, id : Nat, body : Bodies, deadline : Nat]
Held     == [p : Payload, until : Nat]
Told     == [read : Read, gen : Nat]

\* The names stand for nothing that is a value of the state.
ASSUME StreamNames ==
  /\ Ack \notin Payload
  /\ Absent # Waiting /\ {Absent, Waiting} \cap [p : Payload, ttl : Nat] = {}
  /\ None \notin Nat \cup Read \cup Update \cup Followed \cup Held \cup Told
  /\ None \notin [run : Nat, id : Nat]

TypeOK ==
  /\ now \in 0..MaxNow /\ issued \in 0..MaxIssues /\ faults \in 0..MaxFaults
  /\ current \in [run : Nat, id : Nat] /\ cmds \subseteq Payload
  /\ key \in Held \cup {None}
  /\ link \in {"none", "up", "lost"} /\ pipe \in Seq(Payload \cup {Ack})
  /\ conn \in {"subscribing", "reading", "listening", "closing", "down", "closed"}
  /\ get \in [start : 0..MaxNow, got : Answer]
  /\ failed \in BOOLEAN /\ queue \in Seq(Payload) /\ Len(queue) <= BufferSize
  /\ needsAuth \in BOOLEAN /\ conflicted \in [run : Nat, id : Nat] \cup {None}
  /\ prod \in Followed \cup {None}
  /\ gen \in Nat /\ snapshot \in Update /\ open \subseteq Clients
  /\ last \in Told \cup {None}
  /\ pend \in [Clients -> Update \cup {None}] /\ prevGen \in [Clients -> Nat \cup {None}]
  /\ out \in [Clients -> Read \cup {None}]
  /\ lastRun \in [Clients -> Nat] /\ told \in [Clients -> BOOLEAN]

NoRead == [start |-> 0, got |-> Absent]

Init ==
  /\ now = 0 /\ issued = 0 /\ faults = 0 /\ cmds = {} /\ key = None
  /\ current = [run |-> 1, id |-> 0]
  /\ link = "none" /\ pipe = <<>> /\ conn = "down" /\ get = NoRead
  /\ failed = FALSE /\ queue = <<>> /\ needsAuth = TRUE /\ prod = None /\ conflicted = None
  /\ gen = 0 /\ snapshot = [read |-> None, gen |-> 0, resync |-> TRUE]
  /\ open = {} /\ pend = [c \in Clients |-> None] /\ prevGen = pend /\ out = pend /\ last = None
  /\ lastRun = [c \in Clients |-> 0] /\ told = [c \in Clients |-> FALSE]

Lesser(a, b) == IF a < b THEN a ELSE b
Fresh(read)  == now < read.deadline
CanFail      == faults < MaxFaults /\ faults' = faults + 1
----------------------------------------------------------------------------
(* The producers and Redis. *)

\* What happens outside after the end of the hub is not followed.
Tick ==
  /\ conn # "closed" /\ now < MaxNow /\ now' = now + 1
  /\ UNCHANGED <<redis, socket, faults, conn, get, failed, queue, hub, gen, shown, readers>>

ProducerKeeps == conn # "closed" /\ UNCHANGED <<now, conn, get, failed, queue, hub, gen, shown, readers>>

\* A publication attempt: the next decision of the run, the first of a new run, or (a fault)
\* other bytes for the same decision.
Issue(next, body) ==
  /\ issued < MaxIssues /\ issued' = issued + 1
  /\ \/ /\ next = [current EXCEPT !.id = @ + 1] /\ UNCHANGED faults
     \/ /\ current.id > 0 /\ next = [run |-> current.run + 1, id |-> 1] /\ UNCHANGED faults
     \/ /\ current.id > 0 /\ next = current /\ CanFail
  /\ current' = next
  /\ cmds' = cmds \cup {[run |-> next.run, id |-> next.id, body |-> body, until |-> now + Life]}
  /\ UNCHANGED <<key, socket>> /\ ProducerKeeps

\* SET with PX, and PUBLISH, in one script.
Apply(p) ==
  /\ p \in cmds /\ cmds' = cmds \ {p}
  /\ key' = [p |-> p, until |-> now + Life]
  /\ pipe' = IF link = "up" THEN Append(pipe, p) ELSE pipe
  /\ UNCHANGED <<current, issued, link, faults>> /\ ProducerKeeps

\* The connection breaks, or becomes half-open: what is published now is lost.
Loses ==
  /\ link = "up" /\ CanFail /\ link' = "lost"
  /\ UNCHANGED <<redis, pipe>> /\ ProducerKeeps

\* redis-py reconnects and subscribes again inside a read; what the old socket still held
\* may have been read before.
Resubscribes ==
  /\ link = "lost" /\ link' = "up" /\ pipe' \in {<<Ack>>, Append(pipe, Ack)}
  /\ UNCHANGED <<redis, faults>> /\ ProducerKeeps
----------------------------------------------------------------------------
(* What the hub shows. *)

\* Mutant: a full queue keeps the update it has.
OfferKeepsOldest(update) ==
  pend' = [c \in Clients |-> IF c \in open /\ pend[c] = None THEN update ELSE pend[c]]

\* StreamClient._offer: each client's queue holds the latest update only.
Offer(update) == pend' = [c \in Clients |-> IF c \in open THEN update ELSE pend[c]]

\* _emit, when it was kept that was shown before.
EmitAfter(kept, read, resync, g) ==
  /\ snapshot' = [read |-> read, gen |-> g, resync |-> resync]
  /\ last' = IF read = None THEN kept ELSE [read |-> read, gen |-> g]
  /\ Offer([read |-> read, gen |-> g, resync |-> resync])

Emit(read, resync, g) == EmitAfter(last, read, resync, g)

Quiet == UNCHANGED shown

Identity(p) == [run |-> p.run, id |-> p.id]

SameRun(p) == prod # None /\ prod.run = p.run

\* The payload becomes the producer's current one; of the run before, nothing is remembered.
Adopt(p, deadline, resync, g) ==
  /\ gen' = g
  /\ prod' = [run |-> p.run, id |-> p.id, body |-> p.body, deadline |-> deadline]
  /\ needsAuth' = FALSE
  /\ EmitAfter(IF SameRun(p) THEN last ELSE None,
               IF now < deadline THEN [p |-> p, deadline |-> deadline] ELSE None, resync, g)

\* Another producer run is another generation of the stream.
NextGen == IF prod = None THEN gen ELSE gen + 1

\* Mutant: a message of any age is shown.
AcceptAnyAge(p, deadline, auth, resync) ==
  \/ /\ SameRun(p) /\ Adopt(p, deadline, resync, gen) /\ UNCHANGED conflicted
  \/ /\ ~SameRun(p) /\ conflicted' = None
     /\ Adopt(p, deadline, resync, NextGen)

\* _accept: p was read by GET (auth) or received as a message of the known run.
Accept(p, deadline, auth, resync) ==
  \/ /\ conflicted = Identity(p)
     /\ Emit(None, resync, gen) /\ UNCHANGED <<gen, hub>>
  \/ /\ conflicted # Identity(p) /\ SameRun(p) /\ p.id < prod.id
     /\ IF auth THEN Emit(None, resync, gen) ELSE Quiet
     /\ UNCHANGED <<gen, hub>>
  \/ /\ conflicted # Identity(p) /\ SameRun(p) /\ p.id = prod.id /\ p.body # prod.body
     /\ conflicted' = Identity(p) /\ Emit(None, resync, gen)
     /\ UNCHANGED <<gen, needsAuth, prod>>
  \/ /\ conflicted # Identity(p) /\ SameRun(p) /\ p.id = prod.id /\ p.body = prod.body
     /\ IF auth THEN Adopt(p, Lesser(deadline, prod.deadline), resync, gen)
                ELSE Quiet /\ UNCHANGED <<gen, needsAuth, prod>>
     /\ UNCHANGED conflicted
  \/ /\ conflicted # Identity(p) /\ SameRun(p) /\ p.id > prod.id
     /\ Adopt(p, deadline, resync, gen) /\ UNCHANGED conflicted
  \/ /\ conflicted # Identity(p) /\ ~SameRun(p)
     /\ conflicted' = None /\ Adopt(p, deadline, resync, NextGen)
----------------------------------------------------------------------------
(* The connection task. *)

ConnKeeps == UNCHANGED <<now, redis, readers>>
BeginRead == conn' = "reading" /\ get' = [start |-> now, got |-> Waiting]

\* _supervise: a new generation, and a subscription.
Connect ==
  /\ conn = "down" /\ conn' = "subscribing"
  /\ gen' = gen + 1 /\ Emit(None, TRUE, gen + 1)
  /\ UNCHANGED <<socket, faults, get, failed, queue, hub>> /\ ConnKeeps

Subscribes ==
  /\ conn = "subscribing" /\ link = "none" /\ link' = "up" /\ pipe' = <<>>
  /\ UNCHANGED <<faults, conn, get, failed, queue, hub, gen>> /\ Quiet /\ ConnKeeps

\* The acknowledgement is consumed, the pump starts, the GET is sent.
Acked ==
  /\ conn = "subscribing" /\ link # "none" /\ BeginRead
  /\ failed' = FALSE /\ queue' = <<>>
  /\ UNCHANGED <<socket, faults, hub, gen>> /\ Quiet /\ ConnKeeps

\* Redis runs GET and PTTL as one transaction.
Answers ==
  /\ conn = "reading" /\ get.got = Waiting
  /\ get' = [get EXCEPT !.got = IF key = None THEN Absent
                                ELSE IF now < key.until THEN [p |-> key.p, ttl |-> key.until - now]
                                ELSE Absent]
  /\ UNCHANGED <<socket, faults, conn, failed, queue, hub, gen>> /\ Quiet /\ ConnKeeps

\* An exception reaches _supervise, once the pump has ended and the socket is closed.
Raised ==
  /\ conn' = "closing" /\ link' = "none" /\ pipe' = <<>> /\ failed' = FALSE /\ queue' = <<>>
  /\ Quiet /\ UNCHANGED <<hub, gen>>

\* Mutant: an answer is used although the subscription broke meanwhile.
ReadUnfenced == conn = "reading" /\ get.got # Waiting

\* _authoritative returns: what it read predates no loss the pump has noticed.
ReadOK == conn = "reading" /\ get.got # Waiting /\ ~failed

Unusable == get.got # Absent => get.got.p.body = Bad

ReadAbsent ==
  /\ ReadOK /\ Unusable
  /\ conn' = "listening" /\ get' = NoRead /\ needsAuth' = TRUE /\ Emit(None, TRUE, gen)
  /\ UNCHANGED <<socket, faults, failed, queue, prod, conflicted, gen>> /\ ConnKeeps

\* PTTL was sampled during the request: its whole duration and one unit are deducted.
ReadDeadline ==
  LET left == get.got.ttl - (now - get.start) - 1 IN
  Lesser(get.got.p.until, now + IF left < 0 THEN 0 ELSE Lesser(Life, left))

ReadPresent ==
  /\ ReadOK /\ ~Unusable
  /\ conn' = "listening" /\ get' = NoRead
  /\ Accept(get.got.p, ReadDeadline, TRUE, TRUE)
  /\ UNCHANGED <<socket, faults, failed, queue>> /\ ConnKeeps

\* The GET fails or times out, the pump failed meanwhile, or its exception is next in the queue.
Breaks ==
  /\ \/ conn = "reading" /\ get.got # Waiting /\ failed /\ UNCHANGED faults
     \/ conn = "reading" /\ CanFail
     \/ conn = "subscribing" /\ CanFail
     \/ conn = "listening" /\ failed /\ UNCHANGED faults
  /\ Raised /\ get' = NoRead /\ ConnKeeps

Broken ==
  /\ conn = "closing" /\ conn' = "down" /\ Emit(None, TRUE, gen)
  /\ UNCHANGED <<socket, faults, get, failed, queue, hub, gen>> /\ ConnKeeps

\* The next message of the queue, as it was when the pump received it.
TakesBad ==
  /\ conn = "listening" /\ ~failed /\ queue # <<>> /\ Head(queue).body = Bad
  /\ queue' = Tail(queue) /\ Emit(None, FALSE, gen)
  /\ UNCHANGED <<socket, faults, conn, get, failed, hub, gen>> /\ ConnKeeps

Takes ==
  /\ conn = "listening" /\ ~failed /\ queue # <<>>
  /\ queue' = Tail(queue)
  /\ LET p == Head(queue) IN
     /\ p.body # Bad
     /\ IF needsAuth \/ ~SameRun(p)
          THEN BeginRead /\ Emit(None, TRUE, gen) /\ UNCHANGED <<hub, gen>>
          ELSE Accept(p, p.until, FALSE, FALSE) /\ UNCHANGED <<conn, get>>
  /\ UNCHANGED <<socket, faults, failed>> /\ ConnKeeps
----------------------------------------------------------------------------
(* The pump. *)

PumpRuns  == conn \in {"reading", "listening"} /\ ~failed
PumpKeeps == UNCHANGED <<faults, conn, get, prod, conflicted, gen>> /\ ConnKeeps

\* Its exception replaces what the queue holds.
PumpFails == failed' = TRUE /\ queue' = <<>>

\* Mutant: the queue is one longer than it may be.
PumpReceivesLong ==
  /\ PumpRuns /\ pipe # <<>> /\ Head(pipe) # Ack
  /\ pipe' = Tail(pipe)
  /\ IF Len(queue) > BufferSize
       THEN PumpFails
       ELSE queue' = Append(queue, Head(pipe)) /\ UNCHANGED failed
  /\ UNCHANGED <<link, needsAuth>> /\ Quiet /\ PumpKeeps

PumpReceives ==
  /\ PumpRuns /\ pipe # <<>> /\ Head(pipe) # Ack
  /\ pipe' = Tail(pipe)
  /\ IF Len(queue) = BufferSize
       THEN PumpFails
       ELSE queue' = Append(queue, Head(pipe)) /\ UNCHANGED failed
  /\ UNCHANGED <<link, needsAuth>> /\ Quiet /\ PumpKeeps

\* Mutant: a second acknowledgement is a message like any other.
PumpResubscribedIgnored ==
  /\ PumpRuns /\ pipe # <<>> /\ Head(pipe) = Ack /\ pipe' = Tail(pipe)
  /\ UNCHANGED <<link, needsAuth, failed, queue>> /\ Quiet /\ PumpKeeps

\* An acknowledgement nobody asked for: the library has reconnected.
PumpResubscribed ==
  /\ PumpRuns /\ pipe # <<>> /\ Head(pipe) = Ack /\ pipe' = Tail(pipe)
  /\ needsAuth' = TRUE /\ Emit(None, TRUE, gen) /\ PumpFails
  /\ UNCHANGED link /\ PumpKeeps

\* Mutant: no ping, so a half-open connection is never noticed.
PumpNoPing ==
  /\ PumpRuns /\ link = "none" /\ PumpFails
  /\ UNCHANGED <<socket, needsAuth>> /\ Quiet /\ PumpKeeps

\* A read error, or no reply to a ping.
PumpTimesOut ==
  /\ PumpRuns /\ link = "lost" /\ PumpFails
  /\ UNCHANGED <<socket, needsAuth>> /\ Quiet /\ PumpKeeps
----------------------------------------------------------------------------
(* The health task, the clients and the end of the hub. *)

HealthKeeps == UNCHANGED <<now, redis, socket, faults, get, failed, queue, hub, gen>>
HubKeeps    == HealthKeeps /\ UNCHANGED last

Stale == snapshot.read # None /\ ~Fresh(snapshot.read)

Expires ==
  /\ conn # "closed" /\ Stale /\ Emit(None, FALSE, gen)
  /\ UNCHANGED <<conn, readers>> /\ HealthKeeps

Heartbeat ==
  /\ conn # "closed" /\ ~Stale /\ Emit(snapshot.read, FALSE, gen)
  /\ UNCHANGED <<conn, readers>> /\ HealthKeeps

\* The snapshot after expire().
Shown == IF Stale THEN [read |-> None, gen |-> gen, resync |-> FALSE] ELSE snapshot

Register(c) ==
  /\ conn # "closed" /\ c \notin open /\ Cardinality(open) < MaxClients
  /\ open' = open \cup {c} /\ snapshot' = Shown
  /\ pend' = [d \in Clients |-> IF d = c \/ (Stale /\ d \in open) THEN Shown ELSE pend[d]]
  /\ UNCHANGED <<conn, prevGen, out, lastRun, told>> /\ HubKeeps

\* The frame of an update: resync is repeated when the generation has changed.
Frame(c, u, flag) ==
  /\ out' = [out EXCEPT ![c] = u.read]
  /\ prevGen' = [prevGen EXCEPT ![c] = u.gen]
  /\ lastRun' = [lastRun EXCEPT ![c] = IF u.read = None THEN @ ELSE u.read.p.run]
  /\ told' = [told EXCEPT ![c] = flag \/ (@ /\ (u.read = None \/ u.read.p.run # lastRun[c]))]

\* Mutant: only the update's own flag is sent.
DeliverOwnFlag(c) ==
  /\ c \in open /\ pend[c] # None
  /\ snapshot' = Shown
  /\ pend' = [d \in Clients |-> IF d = c THEN None ELSE IF Stale /\ d \in open THEN Shown ELSE pend[d]]
  /\ Frame(c, Shown, Shown.resync)
  /\ UNCHANGED <<conn, open>> /\ HubKeeps

\* Mutant: expiry is not checked again after the wait.
DeliverUnchecked(c) ==
  /\ c \in open /\ pend[c] # None
  /\ pend' = [pend EXCEPT ![c] = None]
  /\ Frame(c, pend[c], pend[c].resync \/ prevGen[c] # pend[c].gen)
  /\ UNCHANGED <<conn, open, snapshot>> /\ HubKeeps

\* next() and stream_frame: the update is taken, expiry is checked again, and an update that
\* has gone stale is replaced by the snapshot that expire() has just emitted.
Deliver(c) ==
  /\ c \in open /\ pend[c] # None
  /\ snapshot' = Shown
  /\ pend' = [d \in Clients |-> IF d = c THEN None ELSE IF Stale /\ d \in open THEN Shown ELSE pend[d]]
  /\ LET u == IF pend[c].read # None /\ ~Fresh(pend[c].read) THEN Shown ELSE pend[c] IN
       Frame(c, u, u.resync \/ prevGen[c] # u.gen)
  /\ UNCHANGED <<conn, open>> /\ HubKeeps

\* The response ends with its client: nothing of it is kept.
Forgotten(gone) ==
  /\ open' = open \ gone
  /\ pend' = [c \in Clients |-> IF c \in gone THEN None ELSE pend[c]]
  /\ prevGen' = [c \in Clients |-> IF c \in gone THEN None ELSE prevGen[c]]
  /\ out' = [c \in Clients |-> IF c \in gone THEN None ELSE out[c]]
  /\ lastRun' = [c \in Clients |-> IF c \in gone THEN 0 ELSE lastRun[c]]
  /\ told' = [c \in Clients |-> c \notin gone /\ told[c]]

\* The client disconnects, or a send takes too long.
Unregister(c) ==
  /\ c \in open /\ Forgotten({c})
  /\ UNCHANGED <<conn, snapshot>> /\ HubKeeps

\* close(): the tasks are cancelled, the clients released.
Close ==
  /\ conn # "closed" /\ conn' = "closed" /\ Forgotten(open)
  /\ link' = "none" /\ pipe' = <<>> /\ failed' = FALSE /\ queue' = <<>> /\ get' = NoRead
  /\ UNCHANGED <<now, redis, faults, hub, gen, snapshot, last>>
----------------------------------------------------------------------------
Producer == \/ Loses \/ Resubscribes \/ \E p \in cmds : Apply(p)
            \/ \E run \in {current.run, current.run + 1}, id \in {1, current.id, current.id + 1},
                  body \in Bodies \cup {Bad} : Issue([run |-> run, id |-> id], body)

Connection == \/ Connect \/ Subscribes \/ Acked \/ Answers \/ ReadAbsent \/ ReadPresent
              \/ Breaks \/ Broken \/ TakesBad \/ Takes
Pump    == PumpReceives \/ PumpResubscribed \/ PumpTimesOut
Readers == \E c \in Clients : Register(c) \/ Deliver(c) \/ Unregister(c)

Next == Tick \/ Producer \/ Connection \/ Pump \/ Expires \/ Heartbeat \/ Readers \/ Close

Spec == Init /\ [][Next]_vars

\* The tasks run; every await of the connection and of the pump has a timeout.
Fairness == WF_vars(Connection) /\ WF_vars(Pump)

FairSpec == Spec /\ Fairness
----------------------------------------------------------------------------
(* What must hold. *)

\* No frame carries a forecast past its validity, or past what was left of it in Redis when
\* it was read, however long the client's task slept between the queue and the send.
NeverStale ==
  [][\A c \in open \cap open' : (pend[c] # None /\ pend'[c] = None /\ out'[c] # None) =>
       now < out'[c].deadline /\ now < out'[c].p.until]_vars

\* The hub tells one story: within a generation one producer run; of the run it follows, and
\* as long as it follows no other, never an older decision than the one shown before, nor
\* other bytes for it, nor a later deadline.
OneStory ==
  [][(last # None /\ last' \notin {None, last}) =>
       LET old == last.read  new == last'.read IN
       /\ last'.gen = last.gen => new.p.run = old.p.run
       /\ new.p.run = old.p.run =>
            /\ new.p.id >= old.p.id
            /\ new.p.id = old.p.id => new.p.body = old.p.body /\ new.deadline <= old.deadline]_vars

\* Nothing published is missed: once the subscription is quiet, what is shown is not older
\* than what Redis holds.
NoLostUpdate ==
  (/\ conn = "listening" /\ ~failed /\ link = "up" /\ pipe = <<>> /\ queue = <<>>
   /\ snapshot.read # None) =>
    /\ key # None /\ key.p.run = snapshot.read.p.run /\ key.p.id <= snapshot.read.p.id
    /\ Identity(key.p) = Identity(snapshot.read.p) => key.p.body = snapshot.read.p.body

\* After a loss the pump has noticed, an answer that Redis gave before it shows nothing new.
FaultFence == failed => snapshot'.read \in {None, snapshot.read}

\* A slow client skips updates, never the last one: its queue holds the current snapshot, or
\* it has been sent what the snapshot shows.
ClientCurrent ==
  \A c \in open : IF pend[c] # None THEN pend[c] = snapshot
                  ELSE out[c] = snapshot.read

\* A client that is shown another producer's forecasts has been told to resync since it saw
\* the first one's, although the update that said so may have been skipped.
RestartTold ==
  \A c \in open : (lastRun[c] # 0 /\ lastRun'[c] \notin {0, lastRun[c]}) => told'[c]

\* No step of the hub passes an old connection's or an old producer's forecasts off as news.
SwitchesAreTold == [][FaultFence /\ RestartTold]_vars

\* Neither the hub nor a client ends up behind what was published.
NothingMissed == TypeOK /\ ClientCurrent /\ NoLostUpdate

\* A lost or half-open subscription, or one the library has replaced, is replaced by one
\* that was read after.
Restored ==
  (link = "lost") ~> (conn = "closed" \/ (conn = "listening" /\ link = "up" /\ ~failed))
=============================================================================
