------------------------ MODULE GhostStream_proofs ------------------------
(***************************************************************************)
(* Proofs about the SSE hub: that it tells one story, that a switch of the *)
(* producer is told, that nothing stale is sent, and that neither the hub  *)
(* nor a client ends up behind what was published.                         *)
(*                                                                         *)
(* Most actions change what the hub shows in one of a few ways; the lemmas *)
(* say which (Silence, Nothing, Repetition, News) and what each of them    *)
(* preserves, so that the invariants need not be proved action by action.  *)
(***************************************************************************)
EXTENDS GhostStream, TLAPS

Newest(s) == s[Len(s)]

\* What is shown is of the present generation, in its time, and the payload the hub follows.
SnapshotInv ==
  /\ snapshot.gen = gen
  /\ snapshot.read # None =>
       /\ snapshot.read.deadline <= snapshot.read.p.until
       /\ prod # None
       /\ prod = [run |-> snapshot.read.p.run, id |-> snapshot.read.p.id,
                  body |-> snapshot.read.p.body, deadline |-> snapshot.read.deadline]
       /\ last = [read |-> snapshot.read, gen |-> gen]

\* What was shown last is of the run the hub follows, and no newer than what it has adopted.
StoryInv ==
  last # None =>
    /\ prod # None /\ prod.run = last.read.p.run /\ last.read.p.id <= prod.id
    /\ last.gen <= gen
    /\ prod.id = last.read.p.id =>
         prod.body = last.read.p.body /\ prod.deadline <= last.read.deadline

\* A client's queue, and what it knows of the generation and of the run.
SlotInv(c) ==
  /\ c \in open => IF pend[c] # None THEN pend[c] = snapshot ELSE out[c] = snapshot.read
  /\ c \notin open => pend[c] = None /\ prevGen[c] = None /\ lastRun[c] = 0
RunInv(c) ==
  /\ prevGen[c] # None => prevGen[c] <= gen
  /\ (lastRun[c] # 0 /\ prevGen[c] = gen /\ ~told[c]) => prod # None /\ prod.run = lastRun[c]
ClientInv == \A c \in Clients : SlotInv(c) /\ RunInv(c)

\* While the subscription is whole, the newest message that was not heard yet is what Redis
\* holds, and so is the answer if there is none.
WireInv ==
  /\ conn \in {"subscribing", "closing", "down", "closed"} => queue = <<>> /\ ~failed
  /\ failed => queue = <<>>
  /\ link = "up" =>
       /\ (pipe # <<>> /\ Newest(pipe) # Ack) => key # None /\ key.p = Newest(pipe)
       /\ (pipe = <<>> /\ queue # <<>>) => key # None /\ key.p = Newest(queue)
       /\ (pipe = <<>> /\ queue = <<>> /\ ~failed /\ conn = "reading"
             /\ get.got \notin {Waiting, Absent}) => key # None /\ key.p = get.got.p

ShownInv == SnapshotInv /\ StoryInv
IInv     == TypeOK /\ ShownInv /\ ClientInv /\ WireInv /\ NoLostUpdate
----------------------------------------------------------------------------
(* The ways in which a step changes what is shown. *)

\* Nothing is shown, and the clients do nothing.
Silence == UNCHANGED <<snapshot, last, pend, prod, gen, readers>>

\* The hub says that it has nothing, perhaps in a new generation.
Nothing ==
  \E r \in BOOLEAN, g \in {gen, gen + 1} :
    Emit(None, r, g) /\ gen' = g /\ UNCHANGED <<prod, readers>>

\* It says again what it said.
Repetition == Emit(snapshot.read, FALSE, gen) /\ UNCHANGED <<gen, prod, readers>>

\* It adopts a payload: the same or a newer one of its run, or one of another run.
Adoptable(p, deadline, g) ==
  /\ deadline <= p.until
  /\ SameRun(p) => /\ g = gen /\ prod.id <= p.id
                   /\ prod.id = p.id => prod.body = p.body /\ deadline <= prod.deadline
  /\ ~SameRun(p) => g = NextGen
News ==
  \E p \in Payload, deadline \in Nat, r \in BOOLEAN, g \in Nat :
    p.body # Bad /\ Adoptable(p, deadline, g) /\ Adopt(p, deadline, r, g) /\ UNCHANGED readers

\* The hub does what the clients do not: one of these.
Hub == Silence \/ Nothing \/ Repetition \/ News

\* _accept does nothing, says nothing, or adopts.
LEMMA AcceptShape ==
  ASSUME TypeOK, NEW p \in Payload, p.body # Bad, NEW deadline \in Nat, deadline <= p.until,
         NEW auth \in BOOLEAN, NEW r \in BOOLEAN, Accept(p, deadline, auth, r), UNCHANGED readers
  PROVE  Hub
<1>1. gen \in Nat /\ NextGen \in Nat /\ (prod # None => prod \in Followed)
  BY DEF TypeOK, NextGen
<1>2. CASE Emit(None, r, gen) /\ UNCHANGED <<gen, hub>>
  BY <1>2, <1>1 DEF Hub, Nothing, hub
<1>3. CASE Quiet /\ UNCHANGED <<gen, hub>>
  BY <1>3 DEF Hub, Silence, Quiet, shown, hub
<1>4. CASE Emit(None, r, gen) /\ UNCHANGED <<gen, needsAuth, prod>>
  BY <1>4, <1>1 DEF Hub, Nothing
<1>5. CASE Quiet /\ UNCHANGED <<gen, needsAuth, prod>>
  BY <1>5 DEF Hub, Silence, Quiet, shown
<1>6. CASE SameRun(p) /\ p.id = prod.id /\ p.body = prod.body
            /\ Adopt(p, Lesser(deadline, prod.deadline), r, gen)
  <2>1. Lesser(deadline, prod.deadline) \in Nat /\ Lesser(deadline, prod.deadline) <= deadline
        /\ Lesser(deadline, prod.deadline) <= prod.deadline
    BY <1>1, <1>6 DEF Lesser, SameRun, Followed
  <2>2. Lesser(deadline, prod.deadline) <= p.until
    BY <2>1 DEF Payload
  <2>3. prod.id <= p.id
    BY <1>1, <1>6 DEF SameRun, Followed
  <2>4. Adoptable(p, Lesser(deadline, prod.deadline), gen)
    BY <1>6, <2>1, <2>2, <2>3 DEF Adoptable
  <2> QED BY <1>1, <1>6, <2>1, <2>4 DEF Hub, News
<1>7. CASE SameRun(p) /\ p.id > prod.id /\ Adopt(p, deadline, r, gen)
  <2>1. prod.id <= p.id /\ prod.id # p.id
    BY <1>1, <1>7 DEF SameRun, Followed, Payload
  <2>2. Adoptable(p, deadline, gen)
    BY <1>7, <2>1 DEF Adoptable
  <2> QED BY <1>1, <1>7, <2>2 DEF Hub, News
<1>8. CASE ~SameRun(p) /\ Adopt(p, deadline, r, NextGen)
  <2>1. Adoptable(p, deadline, NextGen)
    BY <1>8 DEF Adoptable
  <2> QED BY <1>1, <1>8, <2>1 DEF Hub, News
<1> QED BY <1>2, <1>3, <1>4, <1>5, <1>6, <1>7, <1>8 DEF Accept

\* The answer's deadline is never after the end of the payload's validity.
LEMMA ReadDeadlineBound ==
  ASSUME TypeOK, get.got \in [p : Payload, ttl : Nat]
  PROVE  ReadDeadline \in Nat /\ ReadDeadline <= get.got.p.until
<1>1. now \in Nat /\ get.start \in Nat /\ Life \in Nat
  BY StreamAssumption DEF TypeOK
<1>2. get.got.ttl \in Nat /\ get.got.p.until \in Nat
  BY DEF Payload
<1>3. PICK left \in Int : left = get.got.ttl - (now - get.start) - 1
  BY <1>1, <1>2
<1>4. ReadDeadline = Lesser(get.got.p.until, now + IF left < 0 THEN 0 ELSE Lesser(Life, left))
  BY <1>3 DEF ReadDeadline
<1> QED BY <1>1, <1>2, <1>3, <1>4 DEF Lesser

\* Every step of the tasks is of one of the four shapes.
LEMMA HubSteps ==
  ASSUME TypeOK, Tick \/ Producer \/ Connection \/ Pump \/ Expires \/ Heartbeat
  PROVE  Hub
<1>1. CASE Tick
  BY <1>1 DEF Tick, Hub, Silence, hub, shown
<1>2. CASE Producer
  BY <1>2 DEF Producer, Loses, Resubscribes, Apply, Issue, ProducerKeeps, Hub, Silence, hub, shown
<1>3. ASSUME Connection PROVE Hub
  <2>1. CASE Connect
    <3>1. Emit(None, TRUE, gen + 1) /\ gen' = gen + 1 /\ UNCHANGED <<prod, readers>>
      BY <2>1 DEF Connect, hub, ConnKeeps
    <3> QED BY <3>1 DEF Hub, Nothing
  <2>2. CASE Subscribes
    BY <2>2 DEF Subscribes, Hub, Silence, hub, shown, Quiet, ConnKeeps
  <2>3. CASE Acked
    BY <2>3 DEF Acked, Hub, Silence, hub, shown, Quiet, ConnKeeps
  <2>4. CASE Answers
    BY <2>4 DEF Answers, Hub, Silence, hub, shown, Quiet, ConnKeeps
  <2>5. CASE ReadAbsent
    BY <2>5 DEF ReadAbsent, Hub, Nothing, ConnKeeps
  <2>6. CASE ReadPresent
    <3>1. get.got \in [p : Payload, ttl : Nat] /\ get.got.p.body # Bad
      BY <2>6 DEF ReadPresent, ReadOK, Unusable, TypeOK, Answer
    <3>2. get.got.p \in Payload
      BY <3>1
    <3>3. Accept(get.got.p, ReadDeadline, TRUE, TRUE) /\ UNCHANGED readers
      BY <2>6 DEF ReadPresent, ConnKeeps
    <3> QED BY <3>1, <3>2, <3>3, ReadDeadlineBound, AcceptShape
  <2>7. CASE Breaks
    BY <2>7 DEF Breaks, Raised, Hub, Silence, hub, shown, Quiet, ConnKeeps
  <2>8. CASE Broken
    BY <2>8 DEF Broken, Hub, Nothing, hub, ConnKeeps
  <2>9. CASE TakesBad
    BY <2>9 DEF TakesBad, Hub, Nothing, hub, ConnKeeps
  <2>10. CASE Takes
    <3>1. Head(queue) \in Payload
      BY <2>10 DEF Takes, TypeOK
    <3>2. CASE Emit(None, TRUE, gen) /\ UNCHANGED <<hub, gen>>
      BY <3>2, <2>10 DEF Hub, Nothing, hub, Takes, ConnKeeps
    <3>3. CASE Accept(Head(queue), Head(queue).until, FALSE, FALSE)
      <4>1. Head(queue).until \in Nat /\ Head(queue).until <= Head(queue).until
        BY <3>1 DEF Payload
      <4>2. Head(queue).body # Bad /\ UNCHANGED readers
        BY <2>10 DEF Takes, ConnKeeps
      <4> QED BY <3>1, <3>3, <4>1, <4>2, AcceptShape
    <3> QED BY <2>10, <3>2, <3>3 DEF Takes
  <2> QED BY <1>3, <2>1, <2>2, <2>3, <2>4, <2>5, <2>6, <2>7, <2>8, <2>9, <2>10 DEF Connection
<1>4. CASE Pump
  <2>1. CASE PumpReceives
    BY <2>1 DEF PumpReceives, PumpKeeps, ConnKeeps, Hub, Silence, shown, Quiet
  <2>2. CASE PumpResubscribed
    BY <2>2 DEF PumpResubscribed, PumpKeeps, ConnKeeps, Hub, Nothing
  <2>3. CASE PumpTimesOut
    BY <2>3 DEF PumpTimesOut, PumpKeeps, ConnKeeps, Hub, Silence, shown, Quiet
  <2> QED BY <1>4, <2>1, <2>2, <2>3 DEF Pump
<1>5. CASE Expires
  BY <1>5 DEF Expires, HealthKeeps, Hub, Nothing, hub
<1>6. CASE Heartbeat
  BY <1>6 DEF Heartbeat, HealthKeeps, Hub, Repetition, hub
<1> QED BY <1>1, <1>2, <1>3, <1>4, <1>5, <1>6

----------------------------------------------------------------------------
(* Types. *)

\* What is shown, and to whom.
ShownType ==
  /\ prod \in Followed \cup {None} /\ gen \in Nat /\ snapshot \in Update
  /\ last \in Told \cup {None} /\ open \subseteq Clients
  /\ pend \in [Clients -> Update \cup {None}] /\ prevGen \in [Clients -> Nat \cup {None}]
  /\ out \in [Clients -> Read \cup {None}]
  /\ lastRun \in [Clients -> Nat] /\ told \in [Clients -> BOOLEAN]

\* Redis, the subscription and the tasks.
WireType ==
  /\ now \in 0..MaxNow /\ issued \in 0..MaxIssues /\ faults \in 0..MaxFaults
  /\ current \in [run : Nat, id : Nat] /\ cmds \subseteq Payload
  /\ key \in Held \cup {None}
  /\ link \in {"none", "up", "lost"} /\ pipe \in Seq(Payload \cup {Ack})
  /\ conn \in {"subscribing", "reading", "listening", "closing", "down", "closed"}
  /\ get \in [start : 0..MaxNow, got : Answer]
  /\ failed \in BOOLEAN /\ queue \in Seq(Payload) /\ Len(queue) <= BufferSize
  /\ needsAuth \in BOOLEAN /\ conflicted \in [run : Nat, id : Nat] \cup {None}

LEMMA TypeParts == TypeOK <=> ShownType /\ WireType
BY DEF TypeOK, ShownType, WireType

LEMMA EmitType ==
  ASSUME ShownType, NEW kept \in Told \cup {None}, NEW read \in Read \cup {None},
         NEW r \in BOOLEAN, NEW g \in Nat, EmitAfter(kept, read, r, g)
  PROVE  /\ snapshot' \in Update /\ last' \in Told \cup {None}
         /\ pend' \in [Clients -> Update \cup {None}]
<1>1. PICK u \in Update : u = [read |-> read, gen |-> g, resync |-> r]
  BY DEF Update
<1>2. snapshot' = u /\ pend' = [c \in Clients |-> IF c \in open THEN u ELSE pend[c]]
  BY <1>1 DEF EmitAfter, Offer
<1>3. read # None => [read |-> read, gen |-> g] \in Told
  BY DEF Told
<1>4. last' \in Told \cup {None}
  BY <1>3 DEF EmitAfter
<1> QED BY <1>1, <1>2, <1>4 DEF ShownType

\* The fields of what is adopted.
LEMMA AdoptType ==
  ASSUME ShownType, NEW p \in Payload, p.body # Bad, NEW deadline \in Nat, NEW r \in BOOLEAN,
         NEW g \in Nat, Adopt(p, deadline, r, g)
  PROVE  /\ prod' \in Followed /\ gen' \in Nat /\ snapshot' \in Update
         /\ last' \in Told \cup {None} /\ pend' \in [Clients -> Update \cup {None}]
<1>1. prod' \in Followed /\ gen' \in Nat
  BY DEF Adopt, Followed, Payload
<1>2. PICK read \in Read \cup {None} :
         read = IF now < deadline THEN [p |-> p, deadline |-> deadline] ELSE None
  BY DEF Read
<1>3. PICK kept \in Told \cup {None} : kept = IF SameRun(p) THEN last ELSE None
  BY DEF ShownType
<1>4. EmitAfter(kept, read, r, g)
  BY <1>2, <1>3 DEF Adopt
<1> QED BY <1>1, <1>4, EmitType

LEMMA HubShownType ==
  ASSUME ShownType, Hub
  PROVE  ShownType'
<1>1. CASE Silence
  BY <1>1 DEF Silence, ShownType, readers
<1>2. CASE Nothing
  <2>1. PICK r \in BOOLEAN, g \in {gen, gen + 1} :
           Emit(None, r, g) /\ gen' = g /\ UNCHANGED <<prod, readers>>
    BY <1>2 DEF Nothing
  <2>2. g \in Nat /\ last \in Told \cup {None}
    BY DEF ShownType
  <2>3. EmitAfter(last, None, r, g)
    BY <2>1 DEF Emit
  <2>4. snapshot' \in Update /\ last' \in Told \cup {None} /\ pend' \in [Clients -> Update \cup {None}]
    BY <2>2, <2>3, EmitType
  <2> QED BY <2>1, <2>2, <2>4 DEF ShownType, readers
<1>3. CASE Repetition
  <2>1. snapshot.read \in Read \cup {None} /\ gen \in Nat /\ last \in Told \cup {None}
    BY DEF ShownType, Update
  <2>2. EmitAfter(last, snapshot.read, FALSE, gen)
    BY <1>3 DEF Repetition, Emit
  <2>3. snapshot' \in Update /\ last' \in Told \cup {None} /\ pend' \in [Clients -> Update \cup {None}]
    BY <2>1, <2>2, EmitType
  <2> QED BY <1>3, <2>1, <2>3 DEF ShownType, readers, Repetition
<1>4. CASE News
  <2>1. PICK p \in Payload, deadline \in Nat, r \in BOOLEAN, g \in Nat :
           p.body # Bad /\ Adopt(p, deadline, r, g) /\ UNCHANGED readers
    BY <1>4 DEF News
  <2>2. /\ prod' \in Followed /\ gen' \in Nat /\ snapshot' \in Update
        /\ last' \in Told \cup {None} /\ pend' \in [Clients -> Update \cup {None}]
    BY <2>1, AdoptType
  <2> QED BY <2>1, <2>2 DEF ShownType, readers
<1> QED BY <1>1, <1>2, <1>3, <1>4 DEF Hub

\* What the clients and the end of the hub change.
LEMMA ReaderShownType ==
  ASSUME ShownType, Readers \/ Close
  PROVE  ShownType'
<1>1. Shown \in Update
  BY DEF Shown, ShownType, Update
<1>2. ASSUME NEW gone \in SUBSET Clients, Forgotten(gone), UNCHANGED <<hub, gen, snapshot, last>>
      PROVE  ShownType'
  <2>1. open' \subseteq Clients /\ pend' \in [Clients -> Update \cup {None}]
        /\ prevGen' \in [Clients -> Nat \cup {None}]
    BY <1>2 DEF Forgotten, ShownType
  <2>2. out' \in [Clients -> Read \cup {None}] /\ lastRun' \in [Clients -> Nat]
        /\ told' \in [Clients -> BOOLEAN]
    BY <1>2 DEF Forgotten, ShownType
  <2> QED BY <1>2, <2>1, <2>2 DEF ShownType, hub
<1>3. ASSUME NEW c \in Clients, Register(c) PROVE ShownType'
  <2>1. pend' \in [Clients -> Update \cup {None}] /\ snapshot' \in Update /\ open' \subseteq Clients
    BY <1>1, <1>3 DEF Register, ShownType
  <2> QED BY <1>3, <2>1 DEF Register, HubKeeps, HealthKeeps, ShownType, hub
<1>4. ASSUME NEW c \in Clients, Deliver(c) PROVE ShownType'
  <2>1. pend' \in [Clients -> Update \cup {None}] /\ snapshot' \in Update /\ pend[c] \in Update
    BY <1>1, <1>4 DEF Deliver, ShownType
  <2>2. PICK u \in Update : u = IF pend[c].read # None /\ ~Fresh(pend[c].read) THEN Shown ELSE pend[c]
    BY <1>1, <2>1
  <2>3. PICK flag \in BOOLEAN : flag = (u.resync \/ prevGen[c] # u.gen)
    OBVIOUS
  <2>4. Frame(c, u, flag)
    BY <1>4, <2>2, <2>3 DEF Deliver
  <2>5. u.read \in Read \cup {None} /\ u.gen \in Nat
    BY DEF Update
  <2>6. u.read # None => u.read.p.run \in Nat
    BY <2>5 DEF Read, Payload
  <2>7. out' \in [Clients -> Read \cup {None}] /\ prevGen' \in [Clients -> Nat \cup {None}]
        /\ lastRun' \in [Clients -> Nat]
    BY <2>4, <2>5, <2>6 DEF Frame, ShownType
  <2>8. told' \in [Clients -> BOOLEAN]
    BY <2>4 DEF Frame, ShownType
  <2> QED BY <1>4, <2>1, <2>7, <2>8 DEF Deliver, HubKeeps, HealthKeeps, ShownType, hub
<1>5. ASSUME NEW c \in Clients, Unregister(c) PROVE ShownType'
  BY <1>2, <1>5 DEF Unregister, HubKeeps, HealthKeeps
<1>6. ASSUME Close PROVE ShownType'
  BY <1>2, <1>6 DEF Close, ShownType
<1> QED BY <1>3, <1>4, <1>5, <1>6 DEF Readers

\* The pieces that several actions have in common.
LEMMA AcceptWireType ==
  ASSUME WireType, ShownType, NEW p \in Payload, p.body # Bad, NEW deadline, NEW auth \in BOOLEAN,
         NEW r \in BOOLEAN, Accept(p, deadline, auth, r)
  PROVE  needsAuth' \in BOOLEAN /\ conflicted' \in [run : Nat, id : Nat] \cup {None}
<1>1. Identity(p) \in [run : Nat, id : Nat]
  BY DEF Identity, Payload
<1>2. needsAuth' \in {needsAuth, FALSE} /\ conflicted' \in {conflicted, Identity(p), None}
  BY DEF Accept, Adopt, hub
<1> QED BY <1>1, <1>2 DEF WireType

LEMMA WireTypeStep ==
  ASSUME TypeOK, Next
  PROVE  WireType'
<1> USE TypeParts
<1>0. now \in Nat /\ Life \in Nat
  BY StreamAssumption DEF WireType
<1>1. CASE Tick
  <2>1. now' \in 0..MaxNow
    BY <1>1, StreamAssumption DEF Tick, WireType
  <2> QED BY <1>1, <2>1 DEF Tick, WireType, redis, socket, hub
<1>2. CASE Loses
  BY <1>2, StreamAssumption DEF Loses, CanFail, ProducerKeeps, WireType, redis, hub
<1>3. CASE Resubscribes
  <2>1. pipe' \in Seq(Payload \cup {Ack})
    <3>1. <<Ack>> \in Seq(Payload \cup {Ack}) /\ Append(pipe, Ack) \in Seq(Payload \cup {Ack})
      BY DEF WireType
    <3> QED BY <1>3, <3>1 DEF Resubscribes
  <2> QED BY <1>3, <2>1 DEF Resubscribes, ProducerKeeps, WireType, redis, hub
<1>4. ASSUME NEW p \in cmds, Apply(p) PROVE WireType'
  <2>1. p \in Payload /\ now + Life \in Nat
    BY <1>0 DEF WireType
  <2>2. key' \in Held
    BY <1>4, <2>1 DEF Apply, Held
  <2>3. pipe' \in Seq(Payload \cup {Ack})
    BY <1>4, <2>1 DEF Apply, WireType
  <2> QED BY <1>4, <2>2, <2>3 DEF Apply, ProducerKeeps, WireType, hub
<1>5. ASSUME NEW run \in {current.run, current.run + 1}, NEW id \in {1, current.id, current.id + 1},
             NEW body \in Bodies \cup {Bad}, Issue([run |-> run, id |-> id], body)
      PROVE  WireType'
  <2>1. run \in Nat /\ id \in Nat
    BY DEF WireType
  <2>2. [run |-> run, id |-> id, body |-> body, until |-> now + Life] \in Payload
    BY <1>0, <2>1 DEF Payload
  <2>3. cmds' \subseteq Payload /\ current' \in [run : Nat, id : Nat]
    BY <1>5, <2>1, <2>2 DEF Issue, WireType
  <2>4. issued' \in 0..MaxIssues /\ faults' \in 0..MaxFaults
    <3>1. issued' \in 0..MaxIssues
      <4>1. issued < MaxIssues /\ issued' = issued + 1
        BY <1>5 DEF Issue
      <4> QED BY <4>1, StreamAssumption DEF WireType
    <3>2. faults' = faults \/ (faults < MaxFaults /\ faults' = faults + 1)
      BY <1>5 DEF Issue, CanFail
    <3>3. faults' \in 0..MaxFaults
      BY <3>2, StreamAssumption DEF WireType
    <3> QED BY <3>1, <3>3
  <2> QED BY <1>5, <2>3, <2>4 DEF Issue, ProducerKeeps, WireType, hub, socket
<1>6. ASSUME Connection PROVE WireType'
  <2>1. CASE Connect
    BY <2>1 DEF Connect, ConnKeeps, WireType, redis, socket, hub
  <2>2. CASE Subscribes
    BY <2>2 DEF Subscribes, ConnKeeps, WireType, redis, socket, hub
  <2>3. CASE Acked
    <3>1. get' \in [start : 0..MaxNow, got : Answer] /\ Len(queue') <= BufferSize
          /\ queue' \in Seq(Payload)
      BY <2>3, StreamAssumption DEF Acked, BeginRead, WireType, Answer
    <3> QED BY <2>3, <3>1 DEF Acked, BeginRead, ConnKeeps, WireType, redis, socket, hub
  <2>4. CASE Answers
    <3>1. key # None => key.p \in Payload /\ key.until \in Nat
      BY DEF WireType, Held
    <3>2. PICK answer \in Answer :
             answer = IF key = None THEN Absent
                      ELSE IF now < key.until THEN [p |-> key.p, ttl |-> key.until - now] ELSE Absent
      <4>1. CASE key # None /\ now < key.until
        <5>1. key.until - now \in Nat
          BY <1>0, <3>1, <4>1
        <5>2. [p |-> key.p, ttl |-> key.until - now] \in Answer
          BY <3>1, <4>1, <5>1 DEF Answer
        <5> QED BY <4>1, <5>2
      <4>2. CASE ~(key # None /\ now < key.until)
        BY <4>2 DEF Answer
      <4> QED BY <4>1, <4>2
    <3>3. get' = [get EXCEPT !.got = answer]
      BY <2>4, <3>2 DEF Answers
    <3>4. get' \in [start : 0..MaxNow, got : Answer]
      BY <3>3 DEF WireType
    <3> QED BY <2>4, <3>4 DEF Answers, ConnKeeps, WireType, redis, socket, hub
  <2>5. NoRead \in [start : 0..MaxNow, got : Answer]
    BY StreamAssumption DEF NoRead, Answer
  <2>6. CASE ReadAbsent
    BY <2>6, <2>5 DEF ReadAbsent, ConnKeeps, WireType, redis, socket, hub
  <2>7. CASE ReadPresent
    <3>1. get.got \in [p : Payload, ttl : Nat] /\ get.got.p.body # Bad
      BY <2>7 DEF ReadPresent, ReadOK, Unusable, TypeOK, Answer
    <3>2. needsAuth' \in BOOLEAN /\ conflicted' \in [run : Nat, id : Nat] \cup {None}
      BY <3>1, <2>7, AcceptWireType DEF ReadPresent
    <3> QED BY <2>7, <2>5, <3>2 DEF ReadPresent, ConnKeeps, WireType, redis, socket
  <2>8. CASE Breaks
    <3>1. faults' \in 0..MaxFaults
      BY <2>8, StreamAssumption DEF Breaks, CanFail, WireType
    <3>2. queue' = <<>> /\ pipe' = <<>> /\ link' = "none" /\ conn' = "closing" /\ failed' = FALSE
          /\ get' = NoRead /\ UNCHANGED <<hub, now, redis>>
      BY <2>8 DEF Breaks, Raised, ConnKeeps
    <3>3. Len(<<>>) <= BufferSize
      BY StreamAssumption
    <3>4. <<>> \in Seq(Payload) /\ <<>> \in Seq(Payload \cup {Ack})
      OBVIOUS
    <3>5. UNCHANGED <<now, issued, current, cmds, key, needsAuth, conflicted>>
      BY <3>2 DEF redis, hub
    <3> QED BY <2>5, <3>1, <3>2, <3>3, <3>4, <3>5 DEF WireType
  <2>9. CASE Broken
    BY <2>9 DEF Broken, ConnKeeps, WireType, redis, socket, hub
  <2>10. ASSUME TakesBad \/ Takes PROVE WireType'
    <3>1. queue' = Tail(queue) /\ queue # <<>>
      BY <2>10 DEF Takes, TakesBad
    <3>2. queue' \in Seq(Payload) /\ Len(queue') <= BufferSize /\ Head(queue) \in Payload
      BY <3>1, StreamAssumption DEF WireType
    <3>3. CASE TakesBad
      BY <3>2, <3>3 DEF TakesBad, ConnKeeps, WireType, redis, socket, hub
    <3>4. ASSUME Takes PROVE WireType'
      <4>1. /\ conn' \in {conn, "reading"} /\ UNCHANGED <<socket, faults, failed, now, redis>>
        BY <3>4 DEF Takes, BeginRead, ConnKeeps
      <4>2. get' = get \/ get' = [start |-> now, got |-> Waiting]
        BY <3>4 DEF Takes, BeginRead
      <4>3. get' \in [start : 0..MaxNow, got : Answer]
        BY <4>2 DEF WireType, Answer
      <4>4. needsAuth' \in BOOLEAN /\ conflicted' \in [run : Nat, id : Nat] \cup {None}
        <5>1. CASE UNCHANGED <<hub, gen>>
          BY <5>1 DEF hub, WireType
        <5>2. CASE Accept(Head(queue), Head(queue).until, FALSE, FALSE)
          BY <3>2, <3>4, <5>2, AcceptWireType DEF Takes
        <5> QED BY <3>4, <5>1, <5>2 DEF Takes
      <4> QED BY <3>2, <4>1, <4>3, <4>4 DEF WireType, redis, socket
    <3> QED BY <2>10, <3>3, <3>4
  <2> QED BY <1>6, <2>1, <2>2, <2>3, <2>4, <2>6, <2>7, <2>8, <2>9, <2>10 DEF Connection
<1>7. ASSUME Pump PROVE WireType'
  <2>1. Len(<<>>) <= BufferSize
    BY StreamAssumption
  <2>2. CASE PumpReceives
    <3>1. pipe' \in Seq(Payload \cup {Ack}) /\ Head(pipe) \in Payload
      BY <2>2 DEF PumpReceives, WireType
    <3>2. queue' \in Seq(Payload) /\ Len(queue') <= BufferSize
      <4>1. CASE Len(queue) = BufferSize
        BY <2>2, <2>1, <4>1 DEF PumpReceives, PumpFails
      <4>2. CASE Len(queue) # BufferSize
        <5>1. queue' = Append(queue, Head(pipe))
          BY <2>2, <4>2 DEF PumpReceives
        <5>2. Len(queue) \in Nat /\ BufferSize \in Nat /\ Len(queue) < BufferSize
          BY <4>2, StreamAssumption DEF WireType
        <5> QED BY <3>1, <5>1, <5>2 DEF WireType
      <4> QED BY <4>1, <4>2
    <3>3. failed' \in BOOLEAN /\ UNCHANGED <<link, needsAuth>> /\ PumpKeeps
      BY <2>2 DEF PumpReceives, PumpFails, WireType
    <3> QED BY <3>1, <3>2, <3>3 DEF PumpKeeps, ConnKeeps, WireType, redis
  <2>3. CASE PumpResubscribed
    <3>1. pipe' \in Seq(Payload \cup {Ack})
      BY <2>3 DEF PumpResubscribed, WireType
    <3> QED BY <2>1, <2>3, <3>1 DEF PumpResubscribed, PumpFails, PumpKeeps, ConnKeeps, WireType, redis
  <2>4. CASE PumpTimesOut
    BY <2>1, <2>4 DEF PumpTimesOut, PumpFails, PumpKeeps, ConnKeeps, WireType, redis, socket
  <2> QED BY <1>7, <2>2, <2>3, <2>4 DEF Pump
<1>8. CASE Expires \/ Heartbeat
  BY <1>8 DEF Expires, Heartbeat, HealthKeeps, WireType, redis, socket, hub
<1>9. CASE Readers
  BY <1>9 DEF Readers, Register, Deliver, Unregister, HubKeeps, HealthKeeps, WireType, redis, socket, hub
<1>10. CASE Close
  <2>1. NoRead \in [start : 0..MaxNow, got : Answer] /\ Len(<<>>) <= BufferSize
    BY StreamAssumption DEF NoRead, Answer
  <2>2. <<>> \in Seq(Payload) /\ <<>> \in Seq(Payload \cup {Ack})
    OBVIOUS
  <2>3. /\ conn' = "closed" /\ link' = "none" /\ pipe' = <<>> /\ failed' = FALSE /\ queue' = <<>>
        /\ get' = NoRead /\ UNCHANGED <<now, issued, current, cmds, key, faults, needsAuth, conflicted>>
    BY <1>10 DEF Close, redis, hub
  <2> QED BY <2>1, <2>2, <2>3 DEF WireType
<1> QED BY <1>1, <1>2, <1>3, <1>4, <1>5, <1>6, <1>7, <1>8, <1>9, <1>10 DEF Next, Producer

LEMMA TypeStep ==
  ASSUME TypeOK, [Next]_vars
  PROVE  TypeOK'
<1>1. CASE Next
  <2>1. ShownType'
    BY <1>1, TypeParts, HubSteps, HubShownType, ReaderShownType DEF Next
  <2> QED BY <1>1, <2>1, TypeParts, WireTypeStep DEF TypeOK, ShownType, WireType
<1>2. CASE UNCHANGED vars
  BY <1>2 DEF vars, TypeOK, redis, socket, hub, readers, shown
<1> QED BY <1>1, <1>2

----------------------------------------------------------------------------
(* What is shown. *)

\* After a payload has been adopted, it is what the hub follows and perhaps shows.
LEMMA Adopted ==
  ASSUME ShownType, NEW p \in Payload, p.body # Bad, NEW deadline \in Nat, deadline <= p.until,
         NEW r \in BOOLEAN, NEW g \in Nat, Adopt(p, deadline, r, g)
  PROVE  /\ prod' # None /\ prod'.run = p.run /\ prod'.id = p.id /\ prod'.body = p.body
         /\ prod'.deadline = deadline /\ gen' = g /\ snapshot'.gen = g
         /\ \/ /\ snapshot'.read = None
               /\ last' = IF SameRun(p) THEN last ELSE None
            \/ /\ snapshot'.read = [p |-> p, deadline |-> deadline] /\ snapshot'.read # None
               /\ last' = [read |-> snapshot'.read, gen |-> g]
<1>1. PICK followed \in Followed :
        followed = [run |-> p.run, id |-> p.id, body |-> p.body, deadline |-> deadline]
  BY DEF Followed, Payload
<1>2. prod' = followed /\ followed # None
  BY <1>1, StreamNames DEF Adopt
<1>3. [p |-> p, deadline |-> deadline] \in Read /\ [p |-> p, deadline |-> deadline] # None
  BY StreamNames DEF Read
<1>4. CASE now < deadline
  BY <1>1, <1>2, <1>3, <1>4 DEF Adopt, EmitAfter
<1>5. CASE ~(now < deadline)
  BY <1>1, <1>2, <1>5 DEF Adopt, EmitAfter
<1> QED BY <1>4, <1>5

LEMMA HubShownInv ==
  ASSUME ShownType, ShownInv, Hub
  PROVE  ShownInv'
<1>1. CASE Silence
  BY <1>1 DEF Silence, ShownInv, SnapshotInv, StoryInv
<1>2. CASE Nothing
  <2>1. snapshot'.read = None /\ snapshot'.gen = gen' /\ last' = last /\ prod' = prod /\ gen' \in {gen, gen + 1}
    BY <1>2 DEF Nothing, Emit, EmitAfter
  <2>2. last # None => last.gen \in Nat
    BY DEF ShownType, Told
  <2>3. last # None => last.gen <= gen'
    BY <2>1, <2>2 DEF ShownType, ShownInv, StoryInv
  <2> QED BY <2>1, <2>3 DEF ShownInv, SnapshotInv, StoryInv
<1>3. CASE Repetition
  <2>1. snapshot'.read = snapshot.read /\ snapshot'.gen = gen /\ UNCHANGED <<prod, gen>>
        /\ last' = IF snapshot.read = None THEN last ELSE [read |-> snapshot.read, gen |-> gen]
    BY <1>3 DEF Repetition, Emit, EmitAfter
  <2>2. last' = last
    BY <2>1 DEF ShownInv, SnapshotInv
  <2> QED BY <2>1, <2>2 DEF ShownInv, SnapshotInv, StoryInv
<1>4. CASE News
  <2>1. PICK p \in Payload, deadline \in Nat, r \in BOOLEAN, g \in Nat :
           p.body # Bad /\ Adoptable(p, deadline, g) /\ Adopt(p, deadline, r, g) /\ UNCHANGED readers
    BY <1>4 DEF News
  <2>2. deadline <= p.until
    BY <2>1 DEF Adoptable
  <2>3. /\ prod' # None /\ prod'.run = p.run /\ prod'.id = p.id /\ prod'.body = p.body
        /\ prod'.deadline = deadline /\ gen' = g /\ snapshot'.gen = g
        /\ \/ /\ snapshot'.read = None
              /\ last' = IF SameRun(p) THEN last ELSE None
           \/ /\ snapshot'.read = [p |-> p, deadline |-> deadline] /\ snapshot'.read # None
              /\ last' = [read |-> snapshot'.read, gen |-> g]
    BY <2>1, <2>2, Adopted
  <2>4. SnapshotInv'
    <3>1. prod' = [run |-> p.run, id |-> p.id, body |-> p.body, deadline |-> deadline]
      BY <2>1 DEF Adopt
    <3> QED BY <2>2, <2>3, <3>1 DEF SnapshotInv
  <2>5. StoryInv'
    <3>1. CASE last' = [read |-> snapshot'.read, gen |-> g] /\ snapshot'.read = [p |-> p, deadline |-> deadline]
      <4>1. last'.read.p = p /\ last'.gen = g /\ last'.read.deadline = deadline
        BY <3>1
      <4>2. p.id <= p.id /\ g <= g /\ deadline <= deadline
        BY DEF Payload
      <4> QED BY <2>3, <4>1, <4>2 DEF StoryInv
    <3>2. ASSUME last' = last, last # None, SameRun(p) PROVE StoryInv'
      <4>1. PICK old \in Told : old = last
        BY <3>2 DEF ShownType
      <4>2. PICK mine \in Followed : mine = prod
        BY <3>2 DEF ShownType, SameRun
      <4>3. /\ mine.run = old.read.p.run /\ old.read.p.id <= mine.id /\ old.gen <= gen
            /\ mine.id = old.read.p.id => mine.body = old.read.p.body /\ mine.deadline <= old.read.deadline
        BY <3>2, <4>1, <4>2 DEF ShownInv, StoryInv
      <4>4. /\ mine.run = p.run /\ g = gen /\ mine.id <= p.id
            /\ mine.id = p.id => mine.body = p.body /\ deadline <= mine.deadline
        BY <2>1, <3>2, <4>2 DEF Adoptable, SameRun
      <4>5. /\ old.read.p.id \in Nat /\ mine.id \in Nat /\ p.id \in Nat
            /\ old.read.deadline \in Nat /\ mine.deadline \in Nat
        BY DEF Told, Read, Payload, Followed
      <4>6. /\ p.run = old.read.p.run /\ old.read.p.id <= p.id /\ old.gen <= g
            /\ p.id = old.read.p.id => p.body = old.read.p.body /\ deadline <= old.read.deadline
        BY <4>3, <4>4, <4>5
      <4> QED BY <2>3, <3>2, <4>1, <4>6 DEF StoryInv
    <3>3. CASE last' = None
      BY <3>3 DEF StoryInv
    <3> QED BY <2>3, <3>1, <3>2, <3>3
  <2> QED BY <2>4, <2>5 DEF ShownInv
<1> QED BY <1>1, <1>2, <1>3, <1>4 DEF Hub

\* What expire() leaves: what was shown, or nothing.
LEMMA ShownIs ==
  ASSUME SnapshotInv
  PROVE  /\ Shown.gen = gen /\ Shown.read \in {snapshot.read, None}
         /\ Shown.read # None => Shown = snapshot /\ Fresh(Shown.read)
         /\ ~Stale => Shown = snapshot
BY DEF Shown, Stale, SnapshotInv

LEMMA ReaderShownInv ==
  ASSUME ShownType, ShownInv, Readers \/ Close
  PROVE  ShownInv'
<1>1. UNCHANGED <<prod, gen, last>> /\ snapshot' \in {snapshot, Shown}
  BY DEF Readers, Close, Register, Deliver, Unregister, HubKeeps, HealthKeeps, hub
<1>2. SnapshotInv'
  BY <1>1, ShownIs DEF SnapshotInv, ShownInv
<1>3. StoryInv'
  BY <1>1 DEF StoryInv, ShownInv
<1> QED BY <1>2, <1>3 DEF ShownInv

----------------------------------------------------------------------------
(* The clients. *)

\* What is offered to every open client is what the hub shows.
LEMMA Offered ==
  ASSUME ShownType, ClientInv, NEW kept, NEW read \in Read \cup {None}, NEW r \in BOOLEAN,
         NEW g \in Nat, EmitAfter(kept, read, r, g), UNCHANGED readers, NEW c \in Clients
  PROVE  SlotInv(c)'
<1>1. PICK u \in Update : u = [read |-> read, gen |-> g, resync |-> r]
  BY DEF Update
<1>2. snapshot' = u /\ pend'[c] = (IF c \in open THEN u ELSE pend[c]) /\ u # None
  BY <1>1, StreamNames DEF EmitAfter, Offer
<1> QED BY <1>2 DEF SlotInv, ClientInv, readers

LEMMA HubClientInv ==
  ASSUME ShownType, ShownInv, ClientInv, Hub
  PROVE  ClientInv'
<1>1. SUFFICES ASSUME NEW c \in Clients PROVE SlotInv(c)' /\ RunInv(c)'
  BY DEF ClientInv
<1>2. gen \in Nat /\ (prevGen[c] # None => prevGen[c] \in Nat) /\ SlotInv(c) /\ RunInv(c)
      /\ snapshot.read \in Read \cup {None} /\ None \notin Nat
  BY StreamNames DEF ShownType, ClientInv, Update
<1>3. CASE Silence
  BY <1>2, <1>3 DEF Silence, SlotInv, RunInv, readers
<1>4. CASE Nothing
  <2>1. PICK r \in BOOLEAN, g \in {gen, gen + 1} :
           EmitAfter(last, None, r, g) /\ gen' = g /\ UNCHANGED <<prod, readers>>
    BY <1>4 DEF Nothing, Emit
  <2>2. SlotInv(c)'
    BY <1>2, <2>1, Offered
  <2>3. RunInv(c)'
    BY <1>2, <2>1 DEF RunInv, readers
  <2> QED BY <2>2, <2>3
<1>5. CASE Repetition
  <2>1. EmitAfter(last, snapshot.read, FALSE, gen) /\ UNCHANGED <<gen, prod, readers>>
    BY <1>5 DEF Repetition, Emit
  <2>2. SlotInv(c)'
    BY <1>2, <2>1, Offered
  <2>3. RunInv(c)'
    BY <1>2, <2>1 DEF RunInv, readers
  <2> QED BY <2>2, <2>3
<1>6. CASE News
  <2>1. PICK p \in Payload, deadline \in Nat, r \in BOOLEAN, g \in Nat :
           p.body # Bad /\ Adoptable(p, deadline, g) /\ Adopt(p, deadline, r, g) /\ UNCHANGED readers
    BY <1>6 DEF News
  <2>2. PICK read \in Read \cup {None} :
           read = IF now < deadline THEN [p |-> p, deadline |-> deadline] ELSE None
    BY DEF Read
  <2>3. EmitAfter(IF SameRun(p) THEN last ELSE None, read, r, g)
    BY <2>1, <2>2 DEF Adopt
  <2>4. SlotInv(c)'
    BY <2>1, <2>3, Offered
  <2>5. prod' # None /\ prod'.run = p.run /\ gen' = g
    <3>1. prod' \in Followed
      BY <2>1, AdoptType
    <3>2. prod'.run = p.run /\ gen' = g
      BY <2>1 DEF Adopt
    <3> QED BY <3>1, <3>2, StreamNames
  <2>6. CASE SameRun(p)
    <3>1. g = gen /\ prod # None /\ prod.run = p.run
      BY <2>1, <2>6 DEF Adoptable, SameRun
    <3> QED BY <1>2, <2>1, <2>4, <2>5, <3>1 DEF RunInv, readers
  <2>7. CASE ~SameRun(p)
    <3>1. g = IF prod = None THEN gen ELSE gen + 1
      BY <2>1, <2>7 DEF Adoptable, NextGen
    <3>2. gen <= g /\ (prod # None => gen < g)
      BY <1>2, <3>1
    <3> QED BY <1>2, <2>1, <2>4, <2>5, <3>1, <3>2 DEF RunInv, readers
  <2> QED BY <2>6, <2>7
<1> QED BY <1>3, <1>4, <1>5, <1>6 DEF Hub

\* What the response of a client does when it takes an update.
LEMMA DeliveredFrame ==
  ASSUME ShownType, ShownInv, ClientInv, NEW c \in Clients, Deliver(c)
  PROVE  \E u \in Update, flag \in BOOLEAN :
           /\ flag = (u.resync \/ prevGen[c] # u.gen) /\ Frame(c, u, flag)
           /\ u.gen = gen /\ u.read = Shown.read
           /\ u.read # None => u.read = snapshot.read /\ Fresh(u.read)
<1>1. pend[c] = snapshot /\ pend[c] # None /\ snapshot \in Update /\ Shown \in Update
  BY DEF Deliver, ClientInv, SlotInv, Shown, ShownType, Update
<1>2. PICK u \in Update : u = IF pend[c].read # None /\ ~Fresh(pend[c].read) THEN Shown ELSE pend[c]
  BY <1>1
<1>3. PICK flag \in BOOLEAN : flag = (u.resync \/ prevGen[c] # u.gen)
  OBVIOUS
<1>4. Frame(c, u, flag)
  BY <1>2, <1>3 DEF Deliver
<1>5. u = Shown
  BY <1>1, <1>2 DEF Shown, Stale
<1> QED BY <1>3, <1>4, <1>5, ShownIs DEF ShownInv, SnapshotInv

LEMMA ReaderClientInv ==
  ASSUME ShownType, ShownInv, ClientInv, Readers \/ Close
  PROVE  ClientInv'
<1>1. SUFFICES ASSUME NEW d \in Clients PROVE SlotInv(d)' /\ RunInv(d)'
  BY DEF ClientInv
<1>2. gen \in Nat /\ SlotInv(d) /\ RunInv(d) /\ None \notin Nat
  BY StreamNames DEF ShownType, ClientInv
<1>3. Shown \in Update /\ Shown # None /\ snapshot \in Update /\ snapshot # None
  <2>1. Shown \in Update /\ snapshot \in Update
    BY DEF Shown, ShownType, Update
  <2> QED BY <2>1, StreamNames
<1>4. UNCHANGED <<prod, gen>>
  BY DEF Readers, Close, Register, Deliver, Unregister, HubKeeps, HealthKeeps, hub
<1>5. ASSUME NEW gone \in SUBSET Clients, Forgotten(gone), UNCHANGED snapshot
      PROVE  SlotInv(d)' /\ RunInv(d)'
  <2>1. /\ open' = open \ gone
        /\ pend'[d] = IF d \in gone THEN None ELSE pend[d]
        /\ prevGen'[d] = IF d \in gone THEN None ELSE prevGen[d]
        /\ out'[d] = IF d \in gone THEN None ELSE out[d]
        /\ lastRun'[d] = IF d \in gone THEN 0 ELSE lastRun[d]
    BY <1>5 DEF Forgotten
  <2>2. d \notin gone => told'[d] = told[d]
    <3>1. told' = [c \in Clients |-> c \notin gone /\ told[c]]
      BY <1>5 DEF Forgotten
    <3>2. d \notin gone => told'[d] = (TRUE /\ told[d])
      BY <3>1, Zenon
    <3>3. told[d] \in BOOLEAN
      BY DEF ShownType
    <3> QED BY <3>2, <3>3
  <2>3. SlotInv(d)'
    BY <1>2, <1>5, <2>1 DEF SlotInv
  <2>4. RunInv(d)'
    BY <1>2, <1>4, <2>1, <2>2 DEF RunInv
  <2> QED BY <2>3, <2>4
<1>6. ASSUME NEW c \in Clients, Register(c) PROVE SlotInv(d)' /\ RunInv(d)'
  <2>1. /\ open' = open \cup {c} /\ snapshot' = Shown /\ UNCHANGED <<prevGen, out, lastRun, told>>
        /\ pend'[d] = IF d = c \/ (Stale /\ d \in open) THEN Shown ELSE pend[d]
    BY <1>6 DEF Register
  <2>2. SlotInv(d)'
    BY <1>2, <1>3, <2>1 DEF SlotInv, Shown
  <2>3. RunInv(d)'
    BY <1>2, <1>4, <2>1 DEF RunInv
  <2> QED BY <2>2, <2>3
<1>7. ASSUME NEW c \in Clients, Deliver(c) PROVE SlotInv(d)' /\ RunInv(d)'
  <2>1. PICK u \in Update, flag \in BOOLEAN :
          /\ flag = (u.resync \/ prevGen[c] # u.gen) /\ Frame(c, u, flag)
          /\ u.gen = gen /\ u.read = Shown.read
          /\ u.read # None => u.read = snapshot.read /\ Fresh(u.read)
    BY <1>7, DeliveredFrame
  <2>2. /\ c \in open /\ open' = open /\ snapshot' = Shown
        /\ pend'[d] = IF d = c THEN None ELSE IF Stale /\ d \in open THEN Shown ELSE pend[d]
    BY <1>7 DEF Deliver
  <2>3. CASE d # c
    <3>1. out'[d] = out[d] /\ prevGen'[d] = prevGen[d] /\ lastRun'[d] = lastRun[d] /\ told'[d] = told[d]
      BY <2>1, <2>3 DEF Frame, ShownType
    <3>2. SlotInv(d)'
      BY <1>2, <1>3, <2>2, <2>3, <3>1 DEF SlotInv, Shown
    <3>3. RunInv(d)'
      BY <1>2, <1>4, <3>1 DEF RunInv
    <3> QED BY <3>2, <3>3
  <2>4. CASE d = c
    <3>1. out'[d] = u.read /\ prevGen'[d] = gen
          /\ lastRun'[d] = IF u.read = None THEN lastRun[d] ELSE u.read.p.run
      BY <2>1, <2>4 DEF Frame, ShownType
    <3>2. told'[d] = (flag \/ (told[d] /\ (u.read = None \/ u.read.p.run # lastRun[d])))
      BY <2>1, <2>4 DEF Frame, ShownType
    <3>3. SlotInv(d)'
      BY <2>1, <2>2, <2>4, <3>1 DEF SlotInv
    <3>4. CASE u.read # None
      <4>1. prod # None /\ prod.run = u.read.p.run
        BY <2>1, <3>4 DEF ShownInv, SnapshotInv
      <4> QED BY <1>2, <1>4, <3>1, <3>3, <3>4, <4>1 DEF RunInv
    <3>5. CASE u.read = None
      <4>1. ~told'[d] => ~flag /\ ~told[d]
        BY <3>2, <3>5
      <4>2. ~told'[d] => prevGen[d] = gen /\ ~told[d]
        BY <2>1, <2>4, <4>1
      <4> QED BY <1>2, <1>4, <3>1, <3>3, <3>5, <4>2 DEF RunInv
    <3> QED BY <3>4, <3>5
  <2> QED BY <2>3, <2>4
<1>8. ASSUME NEW c \in Clients, Unregister(c) PROVE SlotInv(d)' /\ RunInv(d)'
  BY <1>5, <1>8 DEF Unregister
<1>9. ASSUME Close PROVE SlotInv(d)' /\ RunInv(d)'
  BY <1>5, <1>9 DEF Close, ShownType
<1> QED BY <1>6, <1>7, <1>8, <1>9 DEF Readers

----------------------------------------------------------------------------
(* What Redis holds and what has been heard of it. *)

WireVars == <<key, link, pipe, conn, get, failed, queue>>

\* The end of a sequence, when it grows, when it shrinks, and when it is one element.
LEMMA NewestFacts ==
  ASSUME NEW S, NEW s \in Seq(S)
  PROVE  /\ \A x : Append(s, x) # <<>> /\ Newest(Append(s, x)) = x
         /\ s # <<>> /\ Tail(s) # <<>> => Newest(Tail(s)) = Newest(s)
         /\ s # <<>> /\ Tail(s) = <<>> => Newest(s) = Head(s)
<1>1. \A x : Append(s, x) # <<>> /\ Newest(Append(s, x)) = x
  BY DEF Newest
<1>2. ASSUME s # <<>>, Tail(s) # <<>> PROVE Newest(Tail(s)) = Newest(s)
  <2>1. Len(s) \in Nat /\ Len(Tail(s)) = Len(s) - 1 /\ Len(Tail(s)) >= 1
    BY <1>2
  <2>2. Tail(s)[Len(Tail(s))] = s[Len(Tail(s)) + 1]
    BY <1>2, <2>1
  <2> QED BY <2>1, <2>2 DEF Newest
<1>3. ASSUME s # <<>>, Tail(s) = <<>> PROVE Newest(s) = Head(s)
  <2>1. Len(<<>>) = 0 /\ Len(s) \in Nat
    OBVIOUS
  <2>2. Len(Tail(s)) = Len(s) - 1
    BY <1>3
  <2>3. Len(Tail(s)) = 0
    BY <1>3, <2>1, Zenon
  <2>4. Len(s) = 1
    BY <2>1, <2>2, <2>3
  <2> QED BY <1>3, <2>4 DEF Newest
<1> QED BY <1>1, <1>2, <1>3

LEMMA WireInvStep ==
  ASSUME TypeOK, WireInv, Next
  PROVE  WireInv'
<1>0. pipe \in Seq(Payload \cup {Ack}) /\ queue \in Seq(Payload)
  BY DEF TypeOK
<1>1. ASSUME UNCHANGED WireVars PROVE WireInv'
  BY <1>1 DEF WireVars, WireInv
<1>2. CASE Tick
  BY <1>1, <1>2 DEF Tick, WireVars, redis, socket
<1>3. CASE Loses
  BY <1>3 DEF Loses, ProducerKeeps, WireInv
<1>4. CASE Resubscribes
  <2>1. pipe' # <<>> /\ Newest(pipe') = Ack
    <3>1. <<Ack>> # <<>> /\ Newest(<<Ack>>) = Ack
      BY DEF Newest
    <3>2. Append(pipe, Ack) # <<>> /\ Newest(Append(pipe, Ack)) = Ack
      BY <1>0, NewestFacts
    <3> QED BY <1>4, <3>1, <3>2 DEF Resubscribes
  <2> QED BY <1>4, <2>1 DEF Resubscribes, ProducerKeeps, WireInv
<1>5. ASSUME NEW p \in cmds, Apply(p) PROVE WireInv'
  <2>1. key' = [p |-> p, until |-> now + Life] /\ key' \in Held
    <3>1. p \in Payload /\ now + Life \in Nat
      BY StreamAssumption DEF TypeOK
    <3> QED BY <1>5, <3>1 DEF Apply, Held
  <2>2. key' # None /\ key'.p = p
    BY <2>1, StreamNames
  <2>3. UNCHANGED <<link, conn, get, failed, queue>>
    BY <1>5 DEF Apply, ProducerKeeps
  <2>4. link = "up" => pipe' # <<>> /\ Newest(pipe') = p
    BY <1>5, <1>0, NewestFacts DEF Apply
  <2> QED BY <2>2, <2>3, <2>4 DEF WireInv
<1>6. ASSUME NEW next, NEW body, Issue(next, body) PROVE WireInv'
  BY <1>1, <1>6 DEF Issue, ProducerKeeps, WireVars, socket
<1>7. ASSUME Connection PROVE WireInv'
  <2>1. CASE Connect
    BY <2>1 DEF Connect, ConnKeeps, WireInv, redis, socket
  <2>2. CASE Subscribes
    BY <2>2 DEF Subscribes, ConnKeeps, WireInv, redis
  <2>3. CASE Acked
    BY <2>3 DEF Acked, BeginRead, ConnKeeps, WireInv, redis, socket
  <2>4. CASE Answers
    <3>1. get' = [get EXCEPT !.got = IF key = None THEN Absent
                  ELSE IF now < key.until THEN [p |-> key.p, ttl |-> key.until - now] ELSE Absent]
      BY <2>4 DEF Answers
    <3>2. get'.got = IF key = None THEN Absent
                  ELSE IF now < key.until THEN [p |-> key.p, ttl |-> key.until - now] ELSE Absent
      BY <3>1 DEF TypeOK
    <3>3. get'.got # Absent => key # None /\ get'.got.p = key.p
      BY <3>2
    <3> QED BY <2>4, <3>3 DEF Answers, ConnKeeps, WireInv, redis, socket
  <2>5. CASE ReadAbsent
    BY <2>5 DEF ReadAbsent, ConnKeeps, WireInv, redis, socket
  <2>6. CASE ReadPresent
    BY <2>6 DEF ReadPresent, ConnKeeps, WireInv, redis, socket
  <2>7. CASE Breaks
    BY <2>7 DEF Breaks, Raised, WireInv
  <2>8. CASE Broken
    BY <2>8 DEF Broken, ConnKeeps, WireInv, redis, socket
  <2>9. ASSUME TakesBad \/ Takes PROVE WireInv'
    <3>1. /\ conn = "listening" /\ ~failed /\ queue # <<>> /\ queue' = Tail(queue)
          /\ UNCHANGED <<key, link, pipe, failed>>
          /\ \/ UNCHANGED <<conn, get>>
             \/ conn' = "reading" /\ get' = [start |-> now, got |-> Waiting]
      <4>1. CASE TakesBad
        BY <4>1 DEF TakesBad, ConnKeeps, redis, socket
      <4>2. CASE Takes
        BY <4>2 DEF Takes, BeginRead, ConnKeeps, redis, socket
      <4> QED BY <2>9, <4>1, <4>2
    <3>2. queue' # <<>> => Newest(queue') = Newest(queue)
      BY <1>0, <3>1, NewestFacts
    <3> QED BY <3>1, <3>2 DEF WireInv
  <2> QED BY <1>7, <2>1, <2>2, <2>3, <2>4, <2>5, <2>6, <2>7, <2>8, <2>9 DEF Connection
<1>8. ASSUME Pump PROVE WireInv'
  <2>1. CASE PumpReceives
    <3>1. /\ conn \in {"reading", "listening"} /\ ~failed /\ pipe # <<>> /\ Head(pipe) # Ack
          /\ pipe' = Tail(pipe) /\ UNCHANGED <<key, link, conn, get>>
      BY <2>1 DEF PumpReceives, PumpRuns, PumpKeeps, ConnKeeps, redis
    <3>2. pipe' # <<>> => Newest(pipe') = Newest(pipe)
      BY <1>0, <3>1, NewestFacts
    <3>3. CASE Len(queue) = BufferSize
      BY <2>1, <3>1, <3>2, <3>3 DEF PumpReceives, PumpFails, WireInv
    <3>4. CASE Len(queue) # BufferSize
      <4>1. queue' = Append(queue, Head(pipe)) /\ failed' = failed
        BY <2>1, <3>4 DEF PumpReceives
      <4>2. queue' # <<>> /\ Newest(queue') = Head(pipe)
        BY <1>0, <4>1, NewestFacts
      <4>3. pipe' = <<>> => Newest(pipe) = Head(pipe)
        BY <1>0, <3>1, NewestFacts
      <4> QED BY <3>1, <3>2, <4>1, <4>2, <4>3 DEF WireInv
    <3> QED BY <3>3, <3>4
  <2>2. CASE PumpResubscribed
    <3>1. /\ conn \in {"reading", "listening"} /\ pipe # <<>> /\ failed' /\ queue' = <<>>
          /\ pipe' = Tail(pipe) /\ UNCHANGED <<key, link, conn, get>>
      BY <2>2 DEF PumpResubscribed, PumpFails, PumpRuns, PumpKeeps, ConnKeeps, redis
    <3>2. pipe' # <<>> => Newest(pipe') = Newest(pipe)
      BY <1>0, <3>1, NewestFacts
    <3> QED BY <3>1, <3>2 DEF WireInv
  <2>3. CASE PumpTimesOut
    BY <2>3 DEF PumpTimesOut, PumpFails, PumpRuns, PumpKeeps, ConnKeeps, WireInv, redis, socket
  <2> QED BY <1>8, <2>1, <2>2, <2>3 DEF Pump
<1>9. CASE Expires \/ Heartbeat
  BY <1>1, <1>9 DEF Expires, Heartbeat, HealthKeeps, WireVars, redis, socket
<1>10. CASE Readers
  BY <1>1, <1>10 DEF Readers, Register, Deliver, Unregister, HubKeeps, HealthKeeps, WireVars, redis, socket
<1>11. CASE Close
  BY <1>11 DEF Close, WireInv
<1> QED BY <1>2, <1>3, <1>4, <1>5, <1>6, <1>7, <1>8, <1>9, <1>10, <1>11 DEF Next, Producer

\* Once the newest message, or the answer, has been accepted, what is shown is not older.
LEMMA AcceptedIsCurrent ==
  ASSUME ShownType, SnapshotInv, NEW p \in Payload, NEW deadline \in Nat,
         NEW auth \in BOOLEAN, NEW r, Accept(p, deadline, auth, r), snapshot'.read # None
  PROVE  /\ p.run = snapshot'.read.p.run /\ p.id <= snapshot'.read.p.id
         /\ p.id = snapshot'.read.p.id => p.body = snapshot'.read.p.body
<1>1. ASSUME NEW d, NEW g, Adopt(p, d, r, g) PROVE snapshot'.read.p = p
  <2>1. snapshot'.read = IF now < d THEN [p |-> p, deadline |-> d] ELSE None
    BY <1>1 DEF Adopt, EmitAfter
  <2> QED BY <2>1
<1>2. CASE snapshot'.read.p = p
  BY <1>2 DEF Payload
<1>3. ASSUME NEW g, Emit(None, r, g) PROVE FALSE
  <2>1. snapshot' = [read |-> None, gen |-> g, resync |-> r]
    BY <1>3 DEF Emit, EmitAfter
  <2> QED BY <2>1
<1>4. CASE Quiet /\ SameRun(p) /\ (p.id < prod.id \/ (p.id = prod.id /\ p.body = prod.body))
  <2>1. snapshot'.read = snapshot.read /\ snapshot.read # None
    BY <1>4 DEF Quiet, shown
  <2>2. /\ prod.run = snapshot.read.p.run /\ prod.id = snapshot.read.p.id
        /\ prod.body = snapshot.read.p.body
    BY <2>1 DEF SnapshotInv
  <2>3. prod.id \in Nat
    BY <1>4 DEF SameRun, ShownType, Followed
  <2> QED BY <1>4, <2>1, <2>2, <2>3 DEF SameRun, Payload
<1> QED BY <1>1, <1>2, <1>3, <1>4 DEF Accept

LEMMA NoLostUpdateStep ==
  ASSUME TypeOK, ShownInv, WireInv, NoLostUpdate, Next
  PROVE  NoLostUpdate'
<1>1. SUFFICES ASSUME conn' = "listening", ~failed', link' = "up", pipe' = <<>>, queue' = <<>>,
                      snapshot'.read # None
               PROVE  /\ key' # None /\ key'.p.run = snapshot'.read.p.run
                      /\ key'.p.id <= snapshot'.read.p.id
                      /\ key'.p.id = snapshot'.read.p.id => key'.p.body = snapshot'.read.p.body
  <2>1. (Identity(key.p) = Identity(snapshot.read.p) => key.p.id = snapshot.read.p.id)'
    BY DEF Identity
  <2> QED BY <2>1 DEF NoLostUpdate
<1>2. ASSUME UNCHANGED <<conn, failed, link, pipe, queue, key>>, snapshot'.read = snapshot.read
      PROVE  /\ key' # None /\ key'.p.run = snapshot'.read.p.run
             /\ key'.p.id <= snapshot'.read.p.id
             /\ key'.p.id = snapshot'.read.p.id => key'.p.body = snapshot'.read.p.body
  <2>1. /\ key # None /\ key.p.run = snapshot.read.p.run /\ key.p.id <= snapshot.read.p.id
        /\ Identity(key.p) = Identity(snapshot.read.p) => key.p.body = snapshot.read.p.body
    BY <1>1, <1>2 DEF NoLostUpdate
  <2>2. key.p.id = snapshot.read.p.id => Identity(key.p) = Identity(snapshot.read.p)
    BY <2>1 DEF Identity
  <2> QED BY <1>2, <2>1, <2>2
<1>3. CASE Tick
  BY <1>2, <1>3 DEF Tick, redis, socket, shown
<1>4. ASSUME NEW next, NEW body, Issue(next, body)
      PROVE  UNCHANGED <<conn, failed, link, pipe, queue, key>> /\ snapshot'.read = snapshot.read
  BY <1>4 DEF Issue, ProducerKeeps, socket, shown
<1>5. CASE Producer
  <2>1. ~Loses
    BY <1>1 DEF Loses
  <2>2. ~Resubscribes
    <3>1. Append(pipe, Ack) # <<>> /\ <<Ack>> # <<>>
      BY NewestFacts DEF TypeOK
    <3> QED BY <1>1, <3>1 DEF Resubscribes
  <2>3. ASSUME NEW p \in cmds, Apply(p) PROVE FALSE
    <3>1. Append(pipe, p) # <<>>
      BY NewestFacts DEF TypeOK
    <3> QED BY <1>1, <2>3, <3>1 DEF Apply
  <2> QED BY <1>2, <1>4, <1>5, <2>1, <2>2, <2>3 DEF Producer
<1>6. ASSUME NEW p \in Payload, key # None, key.p = p, key' = key,
             NEW deadline \in Nat, NEW auth \in BOOLEAN, NEW r, Accept(p, deadline, auth, r)
      PROVE  /\ key' # None /\ key'.p.run = snapshot'.read.p.run
             /\ key'.p.id <= snapshot'.read.p.id
             /\ key'.p.id = snapshot'.read.p.id => key'.p.body = snapshot'.read.p.body
  BY <1>1, <1>6, AcceptedIsCurrent, TypeParts DEF ShownInv
<1>7. ASSUME Connection
      PROVE  /\ key' # None /\ key'.p.run = snapshot'.read.p.run
             /\ key'.p.id <= snapshot'.read.p.id
             /\ key'.p.id = snapshot'.read.p.id => key'.p.body = snapshot'.read.p.body
  <2>1. ~(Connect \/ Subscribes \/ Acked \/ Answers \/ Breaks \/ Broken)
    BY <1>1 DEF Connect, Subscribes, Acked, BeginRead, Answers, Breaks, Raised, Broken
  <2>2. ~(ReadAbsent \/ TakesBad)
    BY <1>1 DEF ReadAbsent, TakesBad, Emit, EmitAfter
  <2>3. CASE ReadPresent
    <3>1. get.got \in [p : Payload, ttl : Nat] /\ get.got \notin {Waiting, Absent}
      BY <2>3 DEF ReadPresent, ReadOK, Unusable, TypeOK, Answer
    <3>2. /\ conn = "reading" /\ ~failed /\ UNCHANGED <<key, link, pipe, queue>>
          /\ Accept(get.got.p, ReadDeadline, TRUE, TRUE)
      BY <2>3 DEF ReadPresent, ReadOK, ConnKeeps, redis, socket
    <3>3. key # None /\ key.p = get.got.p
      BY <1>1, <3>1, <3>2 DEF WireInv
    <3>4. ReadDeadline \in Nat /\ get.got.p \in Payload
      BY <3>1, ReadDeadlineBound
    <3> QED BY <1>6, <3>2, <3>3, <3>4
  <2>4. CASE Takes
    <3>1. /\ conn = "listening" /\ queue # <<>> /\ Tail(queue) = <<>> /\ link = "up" /\ pipe = <<>>
          /\ key' = key
      BY <1>1, <2>4 DEF Takes, ConnKeeps, redis, socket
    <3>2. key # None /\ key.p = Head(queue) /\ Head(queue) \in Payload
      <4>1. queue \in Seq(Payload)
        BY DEF TypeOK
      <4>2. Newest(queue) = Head(queue) /\ Head(queue) \in Payload
        BY <3>1, <4>1, NewestFacts
      <4> QED BY <3>1, <4>2 DEF WireInv
    <3>3. Accept(Head(queue), Head(queue).until, FALSE, FALSE)
      BY <1>1, <2>4 DEF Takes, BeginRead
    <3>4. Head(queue).until \in Nat
      BY <3>2 DEF Payload
    <3> QED BY <1>6, <3>1, <3>2, <3>3, <3>4
  <2> QED BY <1>7, <2>1, <2>2, <2>3, <2>4 DEF Connection
<1>8. ~Pump
  <2>1. ~PumpReceives
    <3>1. queue \in Seq(Payload)
      BY DEF TypeOK
    <3>2. Append(queue, Head(pipe)) # <<>>
      BY <3>1, NewestFacts
    <3> QED BY <1>1, <3>2 DEF PumpReceives, PumpFails
  <2> QED BY <1>1, <2>1 DEF Pump, PumpResubscribed, PumpTimesOut, PumpFails
<1>9. CASE Expires \/ Heartbeat
  <2>1. snapshot'.read = snapshot.read
    BY <1>1, <1>9 DEF Expires, Heartbeat, Emit, EmitAfter
  <2>2. UNCHANGED <<conn, failed, link, pipe, queue, key>>
    BY <1>9 DEF Expires, Heartbeat, HealthKeeps, redis, socket
  <2> QED BY <1>2, <2>1, <2>2
<1>10. CASE Readers
  <2>1. snapshot' \in {snapshot, Shown}
    BY <1>10 DEF Readers, Register, Deliver, Unregister
  <2>2. snapshot'.read = snapshot.read
    BY <1>1, <2>1, ShownIs DEF ShownInv
  <2>3. UNCHANGED <<conn, failed, link, pipe, queue, key>>
    BY <1>10 DEF Readers, Register, Deliver, Unregister, HubKeeps, HealthKeeps, redis, socket
  <2> QED BY <1>2, <2>2, <2>3
<1>11. ~Close
  BY <1>1 DEF Close
<1> QED BY <1>3, <1>5, <1>7, <1>8, <1>9, <1>10, <1>11 DEF Next

----------------------------------------------------------------------------
(* The invariant and what follows from it. *)

LEMMA InitInv == Init => IInv
<1> SUFFICES ASSUME Init PROVE IInv
  OBVIOUS
<1>1. [read |-> None, gen |-> 0, resync |-> TRUE] \in Update
  BY DEF Update
<1>2. NoRead \in [start : 0..MaxNow, got : Answer] /\ 0 \in 0..MaxNow /\ 0 \in 0..MaxIssues
      /\ 0 \in 0..MaxFaults
  BY StreamAssumption DEF NoRead, Answer
<1>3. <<>> \in Seq(Payload) /\ <<>> \in Seq(Payload \cup {Ack}) /\ Len(<<>>) <= BufferSize
  BY StreamAssumption
<1>4. ShownType
  BY <1>1 DEF Init, ShownType
<1>5. WireType
  BY <1>2, <1>3 DEF Init, WireType
<1>6. ShownInv /\ ClientInv /\ WireInv /\ NoLostUpdate
  BY DEF Init, ShownInv, SnapshotInv, StoryInv, ClientInv, SlotInv, RunInv, WireInv, NoLostUpdate
<1> QED BY <1>4, <1>5, <1>6, TypeParts DEF IInv

LEMMA ShownStep ==
  ASSUME TypeOK, ShownInv, ClientInv, Next
  PROVE  ShownInv' /\ ClientInv'
<1>1. ShownType
  BY TypeParts
<1>2. CASE Hub
  BY <1>1, <1>2, HubShownInv, HubClientInv
<1>3. CASE Readers \/ Close
  BY <1>1, <1>3, ReaderShownInv, ReaderClientInv
<1> QED BY <1>2, <1>3, HubSteps DEF Next

LEMMA InvStep == IInv /\ [Next]_vars => IInv'
<1> SUFFICES ASSUME IInv, [Next]_vars PROVE IInv'
  OBVIOUS
<1>1. TypeOK'
  BY TypeStep DEF IInv
<1>2. CASE Next
  BY <1>1, <1>2, ShownStep, WireInvStep, NoLostUpdateStep DEF IInv
<1>3. CASE UNCHANGED vars
  <2>1. UNCHANGED <<key, link, pipe, conn, get, failed, queue, snapshot, last, pend, prod, gen,
                    open, prevGen, out, lastRun, told>>
    BY <1>3 DEF vars, redis, socket, hub, readers, shown
  <2>2. ShownInv' /\ ClientInv'
    BY <2>1 DEF IInv, ShownInv, SnapshotInv, StoryInv, ClientInv, SlotInv, RunInv
  <2>3. WireInv' /\ NoLostUpdate'
    BY <2>1 DEF IInv, WireInv, NoLostUpdate
  <2> QED BY <1>1, <2>2, <2>3 DEF IInv
<1> QED BY <1>2, <1>3

LEMMA Invariant == Spec => []IInv
BY InitInv, InvStep, PTL DEF Spec

\* Every client has, or was sent, what the hub shows, and the hub, once its subscription is
\* quiet, shows nothing older than what Redis holds: for any number of clients, messages,
\* producer runs and losses (_emit, _offer, next, _pump, _connection, _accept).
THEOREM NothingIsMissed == Spec => []NothingMissed
<1>1. IInv => NothingMissed
  BY DEF IInv, ClientInv, SlotInv, ClientCurrent, NothingMissed, TypeOK
<1> QED BY <1>1, Invariant, PTL

\* A step that shows something new continues the story (_accept, _authoritative).
LEMMA StoryStep ==
  ASSUME IInv, Next, last # None, last' \notin {None, last}
  PROVE  LET old == last.read  new == last'.read IN
         /\ last'.gen = last.gen => new.p.run = old.p.run
         /\ new.p.run = old.p.run =>
              /\ new.p.id >= old.p.id
              /\ new.p.id = old.p.id => new.p.body = old.p.body /\ new.deadline <= old.deadline
<1>1. ShownType /\ SnapshotInv /\ StoryInv
  BY TypeParts DEF IInv, ShownInv
<1>2. ~(Readers \/ Close \/ Silence \/ Nothing)
  BY DEF Readers, Register, Deliver, Unregister, Close, HubKeeps, Silence, Nothing, Emit, EmitAfter
<1>3. ~Repetition
  <2>1. ASSUME Repetition PROVE last' = last
    <3>1. last' = IF snapshot.read = None THEN last ELSE [read |-> snapshot.read, gen |-> gen]
      BY <2>1 DEF Repetition, Emit, EmitAfter
    <3> QED BY <1>1, <3>1 DEF SnapshotInv
  <2> QED BY <2>1
<1>4. News
  BY <1>2, <1>3, HubSteps DEF Next, Hub, IInv
<1>5. PICK p \in Payload, deadline \in Nat, r \in BOOLEAN, g \in Nat :
         p.body # Bad /\ Adoptable(p, deadline, g) /\ Adopt(p, deadline, r, g) /\ UNCHANGED readers
  BY <1>4 DEF News
<1>6. last' = [read |-> [p |-> p, deadline |-> deadline], gen |-> g]
  <2>1. last' = IF now < deadline THEN [read |-> [p |-> p, deadline |-> deadline], gen |-> g]
                ELSE IF SameRun(p) THEN last ELSE None
    <3>1. [p |-> p, deadline |-> deadline] # None
      BY StreamNames DEF Read
    <3> QED BY <1>5, <3>1 DEF Adopt, EmitAfter
  <2> QED BY <2>1
<1>7. last'.read.p = p /\ last'.read.deadline = deadline /\ last'.gen = g
  BY <1>6
<1>8. PICK old \in Told, mine \in Followed : old = last /\ mine = prod
  BY <1>1 DEF ShownType, StoryInv
<1>9. /\ mine.run = old.read.p.run /\ old.read.p.id <= mine.id /\ old.gen <= gen
      /\ mine.id = old.read.p.id => mine.body = old.read.p.body /\ mine.deadline <= old.read.deadline
  BY <1>1, <1>8 DEF StoryInv
<1>10. /\ old.read.p.id \in Nat /\ mine.id \in Nat /\ p.id \in Nat /\ old.gen \in Nat /\ gen \in Nat
       /\ old.read.deadline \in Nat /\ mine.deadline \in Nat
  BY <1>1 DEF Told, Read, Payload, Followed, ShownType
<1>11. CASE SameRun(p)
  <2>1. /\ mine.run = p.run /\ mine.id <= p.id
        /\ mine.id = p.id => mine.body = p.body /\ deadline <= mine.deadline
    BY <1>5, <1>8, <1>11 DEF Adoptable, SameRun
  <2>2. /\ p.run = old.read.p.run /\ p.id >= old.read.p.id
        /\ p.id = old.read.p.id => p.body = old.read.p.body /\ deadline <= old.read.deadline
    BY <1>9, <1>10, <2>1
  <2> QED BY <1>7, <1>8, <2>2
<1>12. CASE ~SameRun(p)
  <2>1. prod # None /\ prod.run # p.run
    BY <1>1, <1>12 DEF StoryInv, SameRun
  <2>2. g = gen + 1
    BY <1>5, <1>12, <2>1 DEF Adoptable, NextGen
  <2>3. last'.gen # last.gen
    BY <1>7, <1>8, <1>9, <1>10, <2>2
  <2>4. last'.read.p.run # last.read.p.run
    BY <1>7, <1>8, <1>9, <2>1
  <2> QED BY <2>3, <2>4
<1> QED BY <1>11, <1>12

\* Within a generation the hub shows one producer run, and of the run it follows never an
\* older decision, other bytes or a later deadline, whatever arrives late, twice or out of
\* order (_accept, _authoritative).
THEOREM OneStoryIsTold == Spec => OneStory
<1>1. IInv /\ [Next]_vars =>
        [(last # None /\ last' \notin {None, last}) =>
           LET old == last.read  new == last'.read IN
           /\ last'.gen = last.gen => new.p.run = old.p.run
           /\ new.p.run = old.p.run =>
                /\ new.p.id >= old.p.id
                /\ new.p.id = old.p.id => new.p.body = old.p.body /\ new.deadline <= old.deadline]_vars
  BY StoryStep
<1> QED BY <1>1, Invariant, PTL DEF Spec, OneStory

\* A step of the hub leaves what is shown, or shows nothing, once the pump has failed.
LEMMA FenceStep ==
  ASSUME IInv, Next
  PROVE  FaultFence
<1> SUFFICES ASSUME failed PROVE snapshot'.read \in {None, snapshot.read}
  BY DEF FaultFence
<1>1. CASE Tick \/ Producer
  BY <1>1 DEF Tick, Producer, Loses, Resubscribes, Apply, Issue, ProducerKeeps, shown
<1>2. CASE Connection
  <2>1. ~(ReadAbsent \/ ReadPresent \/ TakesBad \/ Takes)
    BY DEF ReadAbsent, ReadPresent, ReadOK, TakesBad, Takes
  <2>2. CASE Connect
    BY <2>2 DEF Connect, Emit, EmitAfter
  <2>3. CASE Broken
    BY <2>3 DEF Broken, Emit, EmitAfter
  <2>4. CASE Subscribes \/ Acked \/ Answers \/ Breaks
    BY <2>4 DEF Subscribes, Acked, Answers, Breaks, Raised, Quiet, shown
  <2> QED BY <1>2, <2>1, <2>2, <2>3, <2>4 DEF Connection
<1>3. ~Pump
  BY DEF Pump, PumpReceives, PumpResubscribed, PumpTimesOut, PumpRuns
<1>4. CASE Expires \/ Heartbeat
  BY <1>4 DEF Expires, Heartbeat, Emit, EmitAfter
<1>5. CASE Readers \/ Close
  <2>1. snapshot' \in {snapshot, Shown}
    BY <1>5 DEF Readers, Register, Deliver, Unregister, Close
  <2> QED BY <2>1, ShownIs DEF IInv, ShownInv
<1> QED BY <1>1, <1>2, <1>3, <1>4, <1>5 DEF Next

\* A client that is shown another run knows of the generation before, or is told now.
LEMMA RestartStep ==
  ASSUME IInv, Next
  PROVE  RestartTold
<1>0. ShownType /\ ShownInv /\ ClientInv
  BY TypeParts DEF IInv
<1> SUFFICES ASSUME NEW d \in open, lastRun[d] # 0, lastRun'[d] \notin {0, lastRun[d]}
             PROVE  told'[d]
  BY DEF RestartTold
<1>1. d \in Clients /\ SlotInv(d) /\ RunInv(d)
  BY <1>0 DEF ShownType, ClientInv
<1>2. ~Hub
  <2>1. Hub => UNCHANGED readers
    BY DEF Hub, Silence, Nothing, Repetition, News
  <2> QED BY <2>1 DEF readers
<1>3. ASSUME NEW gone, Forgotten(gone) PROVE FALSE
  BY <1>1, <1>3 DEF Forgotten
<1>4. ~Close /\ \A c \in Clients : ~Unregister(c) /\ ~Register(c)
  BY <1>3 DEF Close, Unregister, Register
<1>5. PICK c \in Clients : Deliver(c)
  BY <1>2, <1>4, HubSteps DEF Next, Readers, IInv
<1>6. PICK u \in Update, flag \in BOOLEAN :
        /\ flag = (u.resync \/ prevGen[c] # u.gen) /\ Frame(c, u, flag)
        /\ u.gen = gen /\ u.read = Shown.read
        /\ u.read # None => u.read = snapshot.read /\ Fresh(u.read)
  BY <1>0, <1>5, DeliveredFrame
<1>7. d = c
  BY <1>0, <1>1, <1>6 DEF Frame, ShownType
<1>8. u.read # None /\ u.read.p.run # lastRun[c]
  BY <1>0, <1>1, <1>6, <1>7 DEF Frame, ShownType
<1>9. prod # None /\ prod.run # lastRun[c]
  BY <1>0, <1>6, <1>8 DEF ShownInv, SnapshotInv
<1>10. prevGen[c] # gen \/ told[c]
  BY <1>1, <1>7, <1>9 DEF RunInv
<1>11. flag \/ told[c]
  BY <1>6, <1>10
<1>12. told'[c] = (flag \/ (told[c] /\ (u.read = None \/ u.read.p.run # lastRun[c])))
  BY <1>0, <1>1, <1>6, <1>7 DEF Frame, ShownType
<1> QED BY <1>7, <1>8, <1>11, <1>12

\* Once the pump has noticed a loss, no older answer is shown, and a client that is shown
\* another producer's forecasts has been told to resync since, although any number of updates
\* may have been skipped in between (_authoritative, stream_frame).
THEOREM SwitchesAreAnnounced == Spec => SwitchesAreTold
<1>1. IInv /\ [Next]_vars => [FaultFence /\ RestartTold]_vars
  BY FenceStep, RestartStep
<1> QED BY <1>1, Invariant, PTL DEF Spec, SwitchesAreTold

\* Only a delivery empties an open client's queue, and what it sends is in its time.
LEMMA DeliveryStep ==
  ASSUME IInv, Next, NEW d \in open \cap open', pend[d] # None, pend'[d] = None, out'[d] # None
  PROVE  now < out'[d].deadline /\ now < out'[d].p.until
<1>0. ShownType /\ ShownInv /\ ClientInv /\ d \in Clients
  BY TypeParts DEF IInv, ShownType
<1>1. Shown # None
  <2>1. Shown \in Update
    BY <1>0 DEF Shown, ShownType, Update
  <2> QED BY <2>1, StreamNames
<1>2. ~Hub
  <2>1. ASSUME NEW kept, NEW read \in Read \cup {None}, NEW r \in BOOLEAN, NEW g \in Nat,
               EmitAfter(kept, read, r, g)
        PROVE  FALSE
    <3>1. [read |-> read, gen |-> g, resync |-> r] \in Update
      BY DEF Update
    <3> QED BY <1>0, <2>1, <3>1, StreamNames DEF EmitAfter, Offer
  <2>2. gen \in Nat /\ gen + 1 \in Nat /\ snapshot.read \in Read \cup {None}
    BY <1>0 DEF ShownType, Update
  <2>3. ~Silence
    BY DEF Silence
  <2>4. ~Nothing /\ ~Repetition
    BY <2>1, <2>2 DEF Nothing, Repetition, Emit
  <2>5. ASSUME News PROVE FALSE
    <3>1. PICK p \in Payload, deadline \in Nat, r \in BOOLEAN, g \in Nat : Adopt(p, deadline, r, g)
      BY <2>5 DEF News
    <3>2. PICK read \in Read \cup {None} :
             read = IF now < deadline THEN [p |-> p, deadline |-> deadline] ELSE None
      BY DEF Read
    <3>3. EmitAfter(IF SameRun(p) THEN last ELSE None, read, r, g)
      BY <3>1, <3>2 DEF Adopt
    <3> QED BY <2>1, <3>3
  <2> QED BY <2>3, <2>4, <2>5 DEF Hub
<1>3. ASSUME NEW gone, Forgotten(gone) PROVE FALSE
  BY <1>0, <1>3 DEF Forgotten
<1>4. ~Close /\ \A c \in Clients : ~Unregister(c) /\ ~Register(c)
  BY <1>0, <1>1, <1>3 DEF Close, Unregister, Register
<1>5. PICK c \in Clients : Deliver(c)
  BY <1>2, <1>4, HubSteps DEF Next, Readers, IInv
<1>6. PICK u \in Update, flag \in BOOLEAN :
        /\ Frame(c, u, flag) /\ u.read = Shown.read
        /\ u.read # None => u.read = snapshot.read /\ Fresh(u.read)
  BY <1>0, <1>5, DeliveredFrame
<1>7. d = c
  BY <1>0, <1>1, <1>5 DEF Deliver
<1>8. out'[d] = u.read
  BY <1>0, <1>6, <1>7 DEF Frame, ShownType
<1>9. u.read \in Read /\ u.read = snapshot.read /\ now < u.read.deadline
      /\ u.read.deadline <= u.read.p.until
  BY <1>0, <1>6, <1>8 DEF Update, Fresh, ShownInv, SnapshotInv
<1>10. u.read.deadline \in Nat /\ u.read.p.until \in Nat /\ now \in Nat
  BY <1>9 DEF Read, Payload, IInv, TypeOK
<1> QED BY <1>8, <1>9, <1>10

\* No frame carries a forecast past its validity, or past what was left of it in Redis when it
\* was read, however long an answer took or a client slept (_authoritative, expire, next).
THEOREM NothingStaleIsSent == Spec => NeverStale
<1>1. IInv /\ [Next]_vars =>
        [\A c \in open \cap open' : (pend[c] # None /\ pend'[c] = None /\ out'[c] # None) =>
           now < out'[c].deadline /\ now < out'[c].p.until]_vars
  BY DeliveryStep
<1> QED BY <1>1, Invariant, PTL DEF Spec, NeverStale
=============================================================================
