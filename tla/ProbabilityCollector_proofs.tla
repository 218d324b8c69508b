--------------------- MODULE ProbabilityCollector_proofs ---------------------
(***************************************************************************)
(* Theorems about ProbabilityCollector, for any length of the window, any  *)
(* limits of the calls and any number of ticks and faults.                 *)
(***************************************************************************)
EXTENDS ProbabilityCollector, TLAPS

----------------------------------------------------------------------------
(* The inductive invariant. *)

\* Where the loop has no task at all, and which tasks it has elsewhere.
Lone == {"starting", "finding", "pausing", "rejoining", "down"}

LoopInv ==
  /\ loop \in Lone => cur = NoTask /\ nxt = NoTask
  /\ loop \in {"watching", "preloading"} => cur # NoTask /\ nxt = NoTask
  /\ loop = "preloading" => target = tasks[cur].win + 1
  /\ loop = "awaiting" => cur # NoTask /\ nxt # NoTask
  /\ loop \in {"dropNext", "leaveNext"} => cur = NoTask

\* The slots that are taken are those of the present and the next task, of two markets.
TakenInv == \A s \in Slots : tasks[s].st # "free" <=> s \in {cur, nxt}
ApartInv == cur # NoTask /\ nxt # NoTask => cur # nxt /\ tasks[cur].win # tasks[nxt].win

\* A sample is written for the market of a task that has opened its socket and has not ended.
Live(t) == t.st \in {"open", "persisting", "closing"}
Kept(ts) == \A w \in writes : Live(ts[w.by]) /\ ts[w.by].win = w.win
WritesInv == Kept(tasks)

Inv == TypeOK /\ LoopInv /\ TakenInv /\ ApartInv /\ WritesInv

\* The parts of the type invariant that the loop changes.
LoopOK ==
  /\ left \in Nat
  /\ loop \in Calls \cup Drains \cup {"starting", "watching", "awaiting", "pausing", "down"}
  /\ cur \in Slots \cup {NoTask} /\ nxt \in Slots \cup {NoTask} /\ target \in Nat
  /\ tasks \in [Slots -> Task]
----------------------------------------------------------------------------
(* Ticks and windows. *)

LEMMA WindowType == ASSUME NEW t \in Nat PROVE WindowOf(t) \in Nat
BY PreloadFits DEF WindowOf

LEMMA LongestOfThree ==
  ASSUME NEW a \in Nat, NEW b \in Nat, NEW c \in Nat
  PROVE  Longest({a, b, c}) \in Nat /\ a <= Longest({a, b, c}) /\ b <= Longest({a, b, c})
                                   /\ c <= Longest({a, b, c})
<1>1. \E d \in {a, b, c} : \A e \in {a, b, c} : e <= d  OBVIOUS
<1> QED  BY <1>1 DEF Longest

Nearest == Longest(Overtaken)

LEMMA NearestIs ==
  /\ Nearest \in Nat /\ Preload + Grace <= Nearest
  /\ Notice + CallMax + PauseMax <= Nearest /\ Notice + CallMax + Preload - 1 <= Nearest
<1>1. /\ Preload + Grace \in Nat /\ Notice + CallMax + PauseMax \in Nat
      /\ Notice + CallMax + Preload - 1 \in Nat
  BY PreloadFits, LimitsAreTicks
<1> QED  BY <1>1, LongestOfThree DEF Nearest, Overtaken

LEMMA BoundType == Bound \in Nat
BY PreloadFits, LimitsAreTicks, NearestIs DEF Bound, Nearest

\* A fault is counted, within its bound, and begins a new quiet time.
LEMMA FaultType ==
  ASSUME TypeOK, Fault
  PROVE  faults' \in 0..MaxFaults /\ quiet' \in 0..(Bound + 1)
BY LimitsAreTicks, BoundType DEF TypeOK, Fault

LEMMA NoFaultType ==
  ASSUME TypeOK, NoFault
  PROVE  faults' \in 0..MaxFaults /\ quiet' \in 0..(Bound + 1)
BY DEF TypeOK, NoFault
----------------------------------------------------------------------------
(* Tasks. *)

LEMMA FreeType == Free \in Task /\ Free.st = "free"
BY LimitsAreTicks DEF Free, Task

LEMMA LimitType == CallMax \in 0..(CallMax + Notice) /\ Notice \in 0..(CallMax + Notice)
BY LimitsAreTicks

LEMMA NewTaskType ==
  ASSUME NEW w \in Nat
  PROVE  /\ NewTask(w) \in Task /\ NewTask(w).st = "opening" /\ NewTask(w).win = w
<1>1. PICK f \in Task : f = Free  BY FreeType
<1>2. NewTask(w) = [f EXCEPT !.st = "opening", !.win = w, !.left = CallMax]  BY <1>1 DEF NewTask
<1> QED  BY <1>1, <1>2, LimitType DEF Task

LEMMA EndingType ==
  ASSUME NEW t \in Task, NEW how \in {"returned", "failed", "cancelled"}
  PROVE  /\ Ending(t, how) \in Task /\ Ending(t, how).st = "closing" /\ Ending(t, how).win = t.win
<1>1. PICK f \in Task : f = Free  BY FreeType
<1>2. Ending(t, how) = [f EXCEPT !.st = "closing", !.out = how, !.win = t.win, !.left = CallMax]
  BY <1>1 DEF Ending
<1>3. t.win \in Nat  BY DEF Task
<1> DEFINE e == [f EXCEPT !.st = "closing", !.out = how, !.win = t.win, !.left = CallMax]
<1>4. e \in Task  BY <1>3, LimitType DEF Task
<1>5. e.st = "closing" /\ e.win = t.win  BY DEF Task
<1> QED  BY <1>1, <1>2, <1>4, <1>5

\* A cancellation takes no task away, and changes no market.
LEMMA CancelledType ==
  ASSUME NEW t \in Task
  PROVE  /\ Cancelled(t) \in Task /\ Cancelled(t).win = t.win
         /\ Cancelled(t).st = "free" <=> t.st = "free"
         /\ Live(t) => Live(Cancelled(t))
<1>1. CASE t.st \in {"opening", "open", "persisting"}
  <2>1. Cancelled(t) = Ending(t, "cancelled")  BY <1>1 DEF Cancelled
  <2> QED  BY <1>1, <2>1, EndingType DEF Live
<1>2. CASE t.st = "closing"
  <2>1. Cancelled(t) = [t EXCEPT !.out = "cancelled"]  BY <1>2 DEF Cancelled
  <2> QED  BY <1>2, <2>1 DEF Task, Live
<1>3. CASE t.st \notin {"opening", "open", "persisting", "closing"}
  <2>1. Cancelled(t) = t  BY <1>3 DEF Cancelled
  <2> QED  BY <2>1
<1> QED  BY <1>1, <1>2, <1>3

----------------------------------------------------------------------------
(* A step of a task moves that task, within its market. *)

Moves(s) ==
  \E t \in Task : /\ tasks' = [tasks EXCEPT ![s] = t]
                  /\ t.win = tasks[s].win /\ t.st # "free"

LEMMA MovesBy ==
  ASSUME Inv, NEW s \in Slots, NEW t \in Task, TaskBecomes(s, t),
         t.win = tasks[s].win, t.st # "free"
  PROVE  Moves(s)
BY DEF Moves, TaskBecomes

\* A task comes to its finally block.
LEMMA EndingMoves ==
  ASSUME Inv, NEW s \in Slots, NEW how \in {"returned", "failed", "cancelled"},
         TaskBecomes(s, Ending(tasks[s], how))
  PROVE  Moves(s)
<1>1. tasks[s] \in Task  BY DEF Inv, TypeOK
<1> QED  BY <1>1, EndingType, MovesBy

LEMMA TaskStepMoves ==
  ASSUME Inv, NEW s \in Slots, TaskStep(s)
  PROVE  tasks[s].st # "free" /\ Moves(s)
<1> PICK t \in Task : t = tasks[s]  BY DEF Inv, TypeOK
<1>1. ASSUME Opened(s) PROVE t.st # "free" /\ Moves(s)
  <2>1. [t EXCEPT !.st = "open"] \in Task  BY DEF Task
  <2> QED  BY <1>1, <2>1, MovesBy DEF Opened, Task
<1>2. ASSUME OpenFails(s) PROVE t.st # "free" /\ Moves(s)
  <2>1. [t EXCEPT !.st = "failed"] \in Task  BY DEF Task
  <2> QED  BY <1>2, <2>1, MovesBy DEF OpenFails, Task
<1>3. ASSUME Sample(s) PROVE t.st # "free" /\ Moves(s)
  <2>1. tasks' = [tasks EXCEPT ![s] = t]  BY <1>3 DEF Sample, Inv, TypeOK
  <2> QED  BY <1>3, <2>1 DEF Sample, Snapshot, Moves
<1>4. ASSUME SampleLands(s) \/ SampleCut(s) PROVE t.st # "free" /\ Moves(s)
  <2>1. tasks' = [tasks EXCEPT ![s] = t]  BY <1>4 DEF SampleLands, SampleCut, Inv, TypeOK
  <2>2. \E w \in writes : w.by = s  BY <1>4 DEF SampleLands, SampleCut
  <2>3. t.st # "free"  BY <2>2 DEF Inv, WritesInv, Kept, Live
  <2> QED  BY <2>1, <2>3 DEF Moves
<1>8. ASSUME SamplerFails(s) PROVE t.st # "free" /\ Moves(s)
  <2> DEFINE u == [t EXCEPT !.sampler = "failed", !.left = IF t.st = "open" THEN Notice ELSE t.left]
  <2>1. u \in Task /\ u.win = t.win /\ u.st = t.st  BY LimitType DEF Task
  <2>2. TaskBecomes(s, u) /\ t.st \in {"open", "persisting"}  BY <1>8 DEF SamplerFails
  <2> HIDE DEF u
  <2> QED  BY <2>1, <2>2, MovesBy
<1>9. ASSUME Noticed(s) PROVE t.st # "free" /\ Moves(s)
  BY <1>9, EndingMoves DEF Noticed
<1>10. ASSUME Resolved(s) PROVE t.st # "free" /\ Moves(s)
  <2>1. [t EXCEPT !.st = "persisting", !.left = CallMax] \in Task  BY LimitType DEF Task
  <2> QED  BY <1>10, <2>1, MovesBy DEF Resolved, Task
<1>11. ASSUME Persisted(s) PROVE t.st # "free" /\ Moves(s)
  BY <1>11, EndingMoves DEF Persisted
<1>12. ASSUME GraceOver(s) PROVE t.st # "free" /\ Moves(s)
  BY <1>12, EndingMoves DEF GraceOver, GraceIsOver
<1>13. ASSUME SocketCloses(s) PROVE t.st # "free" /\ Moves(s)
  BY <1>13, EndingMoves DEF SocketCloses
<1>14. ASSUME Closed(s) PROVE t.st # "free" /\ Moves(s)
  <2>1. PICK f \in Task : f = Free  BY FreeType
  <2>2. TaskBecomes(s, [f EXCEPT !.st = t.out, !.win = t.win])  BY <1>14, <2>1 DEF Closed
  <2>3. t.out \in {"returned", "failed", "cancelled"} /\ t.win \in Nat  BY DEF Task
  <2>4. [f EXCEPT !.st = t.out, !.win = t.win] \in Task  BY <2>3 DEF Task
  <2>5. /\ [f EXCEPT !.st = t.out, !.win = t.win].st = t.out
        /\ [f EXCEPT !.st = t.out, !.win = t.win].win = t.win
    BY DEF Task
  <2>6. Moves(s)  BY <2>1, <2>2, <2>3, <2>4, <2>5, MovesBy
  <2> QED  BY <1>14, <2>6 DEF Closed
<1> QED
  BY <1>1, <1>2, <1>3, <1>4, <1>8, <1>9, <1>10, <1>11, <1>12, <1>13, <1>14
     DEF TaskStep

LEMMA TakenType ==
  ASSUME TypeOK, NEW s \in Slots
  PROVE  Taken(s) \subseteq Write
<1> PICK t \in Task : t = tasks[s]  BY DEF TypeOK
<1>1. [by |-> s, win |-> t.win, left |-> Notice, newest |-> TRUE] \in Write
  BY LimitsAreTicks DEF Write, Task
<1>2. \A w \in writes : [w EXCEPT !.newest = @ /\ w.win # t.win] \in Write
  BY DEF TypeOK, Write
<1> QED  BY <1>1, <1>2 DEF Taken

LEMMA TaskStepFrame ==
  ASSUME Inv, NEW s \in Slots, TaskStep(s)
  PROVE  /\ TaskKeeps
         /\ writes' \subseteq Write /\ row' \in [win : Nat, newest : BOOLEAN]
         /\ faults' \in 0..MaxFaults /\ quiet' \in 0..(Bound + 1)
<1> PICK t \in Task : t = tasks[s]  BY DEF Inv, TypeOK
<1>0. /\ writes \subseteq Write /\ row \in [win : Nat, newest : BOOLEAN] /\ t.win \in Nat
      /\ TypeOK
  BY DEF Inv, TypeOK, Task
<1>a. \A w \in writes : Upserted(w) \in [win : Nat, newest : BOOLEAN]
  BY <1>0 DEF Write, Upserted
<1>1. CASE Opened(s) \/ Noticed(s) \/ Persisted(s) \/ GraceOver(s) \/ Closed(s)
  <2>1. TaskKeeps /\ NoFault /\ SamplesKeep
    BY <1>1 DEF Opened, Noticed, Persisted, GraceOver, Closed
  <2> QED  BY <1>0, <2>1, NoFaultType DEF SamplesKeep
<1>2. CASE OpenFails(s) \/ SocketCloses(s)
  <2>1. TaskKeeps /\ Fault /\ SamplesKeep
    BY <1>2 DEF OpenFails, SocketCloses
  <2> QED  BY <1>0, <2>1, FaultType DEF SamplesKeep
<1>3. CASE Sample(s)
  <2>1. TaskKeeps /\ NoFault /\ row' = row /\ writes' = Taken(s)
    BY <1>3 DEF Sample
  <2>2. Taken(s) \subseteq Write  BY <1>0, TakenType
  <2> QED  BY <1>0, <2>1, <2>2, NoFaultType
<1>4. CASE Resolved(s)
  <2>1. TaskKeeps /\ SamplesKeep /\ (Fault \/ NoFault)
    BY <1>4 DEF Resolved
  <2> QED  BY <1>0, <2>1, FaultType, NoFaultType DEF SamplesKeep
<1>5. CASE SampleLands(s) \/ SampleCut(s)
  <2>1. TaskKeeps /\ NoFault  BY <1>5 DEF SampleLands, SampleCut
  <2>2. PICK w \in writes : writes' = writes \ {w} /\ row' \in {row, Upserted(w)}
    BY <1>5 DEF SampleLands, SampleCut
  <2> QED  BY <1>0, <1>a, <2>1, <2>2, NoFaultType
<1>6. CASE SamplerFails(s)
  <2>1. TaskKeeps /\ Fault  BY <1>6 DEF SamplerFails
  <2>2. PICK w \in writes : writes' = writes \ {w} /\ row' \in {row, Upserted(w)}
    BY <1>6 DEF SamplerFails
  <2> QED  BY <1>0, <1>a, <2>1, <2>2, FaultType
<1> QED  BY <1>1, <1>2, <1>3, <1>4, <1>5, <1>6 DEF TaskStep

\* A step of a task leaves no write behind that the task does not wait for.
LEMMA TaskStepWrites ==
  ASSUME Inv, NEW s \in Slots, TaskStep(s)
  PROVE  WritesInv'
<1> PICK t \in Task : t = tasks[s]  BY DEF Inv, TypeOK
<1> PICK u \in Task : tasks' = [tasks EXCEPT ![s] = u] /\ u.win = t.win /\ u.st # "free"
  BY TaskStepMoves DEF Moves
<1>1. tasks \in [Slots -> Task] /\ writes \subseteq Write  BY DEF Inv, TypeOK
<1>2. \A w \in writes : w.by \in Slots /\ Live(tasks[w.by]) /\ tasks[w.by].win = w.win
  BY <1>1 DEF Inv, WritesInv, Kept, Write
<1>3. ASSUME writes' \subseteq writes, Writing(s) => Live(u)
      PROVE  WritesInv'
  BY <1>1, <1>2, <1>3 DEF WritesInv, Kept, Writing
<1>4. \A v \in Task : TaskBecomes(s, v) => u = v  BY <1>1 DEF TaskBecomes
<1>5. CASE Opened(s) \/ OpenFails(s)
  <2>1. ~Writing(s) /\ writes' = writes
    BY <1>2, <1>5 DEF Opened, OpenFails, SamplesKeep, Writing, Live
  <2> QED  BY <1>3, <2>1
<1>6. CASE Closed(s)
  <2>1. ~Writing(s) /\ writes' = writes  BY <1>6 DEF Closed, SamplesKeep
  <2> QED  BY <1>3, <2>1
<1>7. CASE Noticed(s) \/ Persisted(s) \/ GraceOver(s) \/ SocketCloses(s)
  <2>1. PICK how \in {"returned", "failed", "cancelled"} : TaskBecomes(s, Ending(t, how))
    BY <1>7 DEF Noticed, Persisted, GraceOver, SocketCloses
  <2>2. u.st = "closing"  BY <1>4, <2>1, EndingType
  <2>3. writes' = writes
    BY <1>7 DEF Noticed, Persisted, GraceOver, SocketCloses, SamplesKeep
  <2> QED  BY <1>3, <2>2, <2>3 DEF Live
<1>8. CASE Resolved(s)
  <2>1. [t EXCEPT !.st = "persisting", !.left = CallMax] \in Task  BY LimitType DEF Task
  <2>2. u = [t EXCEPT !.st = "persisting", !.left = CallMax]  BY <1>4, <1>8, <2>1 DEF Resolved
  <2>3. u.st = "persisting" /\ writes' = writes  BY <1>8, <2>2 DEF Resolved, SamplesKeep, Task
  <2> QED  BY <1>3, <2>3 DEF Live
<1>9. CASE SampleLands(s) \/ SampleCut(s)
  <2>1. tasks' = tasks /\ writes' \subseteq writes  BY <1>9 DEF SampleLands, SampleCut
  <2> QED  BY <1>2, <2>1 DEF WritesInv, Kept
<1>10. CASE SamplerFails(s)
  <2> DEFINE v == [t EXCEPT !.sampler = "failed", !.left = IF t.st = "open" THEN Notice ELSE t.left]
  <2>1. v \in Task /\ v.st = t.st  BY LimitType DEF Task
  <2>2. TaskBecomes(s, v) /\ t.st \in {"open", "persisting"} /\ writes' \subseteq writes
    BY <1>10 DEF SamplerFails
  <2> HIDE DEF v
  <2>3. u.st \in {"open", "persisting"}  BY <1>4, <2>1, <2>2
  <2> QED  BY <1>3, <2>2, <2>3 DEF Live
<1>11. CASE Sample(s)
  <2>1. tasks' = tasks /\ writes' = Taken(s) /\ t.st = "open"  BY <1>11 DEF Sample, Snapshot
  <2>2. ASSUME NEW w \in writes' PROVE Live(tasks[w.by]) /\ tasks[w.by].win = w.win
    <3>1. CASE w = [by |-> s, win |-> t.win, left |-> Notice, newest |-> TRUE]
      BY <2>1, <3>1 DEF Live
    <3>2. CASE \E v \in writes : w = [v EXCEPT !.newest = @ /\ v.win # t.win]
      <4>1. PICK v \in writes : w = [v EXCEPT !.newest = @ /\ v.win # t.win]  BY <3>2
      <4>2. w.by = v.by /\ w.win = v.win  BY <1>1, <4>1 DEF Write
      <4> QED  BY <1>2, <4>2
    <3> QED  BY <2>1, <3>1, <3>2 DEF Taken
  <2> QED  BY <2>1, <2>2 DEF WritesInv, Kept
<1> QED  BY <1>5, <1>6, <1>7, <1>8, <1>9, <1>10, <1>11 DEF TaskStep

\* The loop does not see more of such a step than which task is done.
LEMMA Collects ==
  ASSUME Inv, Collect
  PROVE  Inv'
<1> PICK s \in Slots : TaskStep(s)  BY DEF Collect
<1>1. tasks[s].st # "free" /\ Moves(s)  BY TaskStepMoves
<1> PICK t \in Task : /\ tasks' = [tasks EXCEPT ![s] = t]
                      /\ t.win = tasks[s].win /\ t.st # "free"
  BY <1>1 DEF Moves
<1>2. /\ now' = now /\ loop' = loop /\ left' = left /\ cur' = cur /\ nxt' = nxt
      /\ target' = target /\ stop' = stop
  BY TaskStepFrame DEF TaskKeeps, control
<1>3. tasks \in [Slots -> Task]  BY DEF Inv, TypeOK
<1>4. TypeOK'
  BY <1>2, <1>3, TaskStepFrame DEF Inv, TypeOK
<1>5. \A r \in Slots : tasks'[r].win = tasks[r].win /\ (tasks'[r].st = "free" <=> tasks[r].st = "free")
  BY <1>1, <1>3
<1>6. LoopInv'
  BY <1>2, <1>5 DEF Inv, TypeOK, LoopInv, NoTask, Lone
<1>7. TakenInv'
  BY <1>2, <1>5 DEF Inv, TakenInv
<1>8. ApartInv'
  BY <1>2, <1>5 DEF Inv, TypeOK, ApartInv, NoTask
<1>9. WritesInv'  BY TaskStepWrites
<1> QED  BY <1>4, <1>6, <1>7, <1>8, <1>9 DEF Inv

----------------------------------------------------------------------------
(* The steps of run_collector. *)

LEMMA TypeFromLoop ==
  ASSUME TypeOK, LoopOK', LoopKeeps, Fault \/ NoFault
  PROVE  TypeOK'
<1>1. faults' \in 0..MaxFaults /\ quiet' \in 0..(Bound + 1)  BY FaultType, NoFaultType
<1> QED  BY <1>1 DEF TypeOK, LoopOK, LoopKeeps, SamplesKeep

\* What a step makes of the tasks, seen from their slots.
LEMMA Releases ==
  ASSUME NEW ts \in [Slots -> Task], Kept(ts), NEW s \in Slots \cup {NoTask},
         s \in Slots => ~Live(ts[s])
  PROVE  /\ Release(ts, s) \in [Slots -> Task] /\ Kept(Release(ts, s))
         /\ \A r \in Slots : IF r = s THEN Release(ts, s)[r].st = "free"
                                      ELSE Release(ts, s)[r] = ts[r]
<1>1. /\ Release(ts, s) \in [Slots -> Task]
      /\ \A r \in Slots : IF r = s THEN Release(ts, s)[r].st = "free"
                                   ELSE Release(ts, s)[r] = ts[r]
  BY FreeType DEF Release, Slots, NoTask
<1>2. Kept(Release(ts, s))
  <2> SUFFICES ASSUME NEW w \in writes
               PROVE  Live(Release(ts, s)[w.by]) /\ Release(ts, s)[w.by].win = w.win
    BY DEF Kept
  <2>1. Live(ts[w.by]) /\ ts[w.by].win = w.win  BY DEF Kept
  <2>2. CASE s = NoTask
    BY <2>1, <2>2 DEF Release
  <2>3. CASE s # NoTask /\ w.by = s
    BY <2>1, <2>3
  <2>4. CASE s # NoTask /\ w.by # s
    <3>1. Release(ts, s) = [ts EXCEPT ![s] = Free]  BY <2>4 DEF Release
    <3>2. Release(ts, s)[w.by] = ts[w.by]  BY <2>4, <3>1
    <3> QED  BY <2>1, <3>2
  <2> QED  BY <2>2, <2>3, <2>4
<1> QED  BY <1>1, <1>2

LEMMA Cancels ==
  ASSUME NEW ts \in [Slots -> Task], NEW s \in Slots \cup {NoTask}
  PROVE  /\ CancelTask(ts, s) \in [Slots -> Task]
         /\ Kept(ts) => Kept(CancelTask(ts, s))
         /\ \A r \in Slots : /\ CancelTask(ts, s)[r].win = ts[r].win
                             /\ CancelTask(ts, s)[r].st = "free" <=> ts[r].st = "free"
<1>1. CASE s = NoTask
  BY <1>1 DEF CancelTask
<1>2. CASE s # NoTask
  <2>1. s \in Slots /\ CancelTask(ts, s) = [ts EXCEPT ![s] = Cancelled(ts[s])]
    BY <1>2 DEF CancelTask
  <2>2. /\ Cancelled(ts[s]) \in Task /\ Cancelled(ts[s]).win = ts[s].win
        /\ Cancelled(ts[s]).st = "free" <=> ts[s].st = "free"
        /\ Live(ts[s]) => Live(Cancelled(ts[s]))
    BY <2>1, CancelledType
  <2>3. Kept(ts) => Kept(CancelTask(ts, s))
    <3> SUFFICES ASSUME Kept(ts), NEW w \in writes
                 PROVE  Live(CancelTask(ts, s)[w.by]) /\ CancelTask(ts, s)[w.by].win = w.win
      BY DEF Kept
    <3>1. Live(ts[w.by]) /\ ts[w.by].win = w.win  BY DEF Kept
    <3>2. CASE w.by = s  BY <2>1, <2>2, <3>1, <3>2
    <3>3. CASE w.by # s
      <4>1. CancelTask(ts, s)[w.by] = ts[w.by]  BY <2>1, <3>3
      <4> QED  BY <3>1, <4>1
    <3> QED  BY <3>2, <3>3
  <2> QED  BY <2>1, <2>2, <2>3
<1> QED  BY <1>1, <1>2

\* A task begins in a slot that is free.
LEMMA Begins ==
  ASSUME Inv, NEW s \in Slots, tasks[s].st = "free", tasks' = [tasks EXCEPT ![s] = NewTask(target)]
  PROVE  /\ tasks' \in [Slots -> Task] /\ Kept(tasks')
         /\ tasks'[s].st # "free" /\ tasks'[s].win = target
         /\ \A r \in Slots \ {s} : tasks'[r] = tasks[r]
<1>1. target \in Nat /\ tasks \in [Slots -> Task] /\ Kept(tasks)
  BY DEF Inv, TypeOK, WritesInv
<1>2. NewTask(target) \in Task /\ NewTask(target).st = "opening" /\ NewTask(target).win = target
  BY <1>1, NewTaskType
<1>3. \A w \in writes : w.by # s  BY <1>1 DEF Kept, Live
<1>4. \A w \in writes : tasks'[w.by] = tasks[w.by]  BY <1>1, <1>3
<1> QED  BY <1>1, <1>2, <1>4 DEF Kept

LEMMA WritesStay ==
  ASSUME Kept(tasks'), LoopKeeps
  PROVE  WritesInv'
BY DEF WritesInv, Kept, LoopKeeps, SamplesKeep

LEMMA FreeSlotIsFree ==
  ASSUME Inv, nxt = NoTask
  PROVE  FreeSlot \in Slots /\ FreeSlot # cur /\ tasks[FreeSlot].st = "free"
<1>1. PICK s \in Slots : s # cur  BY DEF Slots
<1>2. tasks[s].st = "free"  BY <1>1 DEF Inv, TakenInv, Slots, NoTask
<1>3. FreeSlot \in Slots /\ tasks[FreeSlot].st = "free"  BY <1>2 DEF FreeSlot
<1> QED  BY <1>3 DEF Inv, TakenInv

\* The loop goes on with the tasks that it has.
LEMMA StaysWithTasks ==
  ASSUME Inv, LoopOK', LoopKeeps, Fault \/ NoFault, LoopInv', UNCHANGED <<tasks, cur, nxt>>
  PROVE  Inv'
<1>1. TypeOK'  BY TypeFromLoop DEF Inv
<1>2. Kept(tasks')  BY DEF Inv, WritesInv
<1> QED  BY <1>1, <1>2, WritesStay DEF Inv, TakenInv, ApartInv

LEMMA Starts ==
  ASSUME Inv, Begin \/ Rejoin
  PROVE  Inv'
<1>1. /\ loop' \in {"finding", "rejoining"} /\ left' = CallMax /\ target' = WindowOf(now)
      /\ UNCHANGED <<cur, nxt, tasks>> /\ LoopKeeps /\ NoFault /\ loop \in Lone
  BY DEF Begin, Rejoin, Start1, Goto, Lone
<1>2. LoopOK'  BY <1>1, WindowType, LimitsAreTicks DEF Inv, TypeOK, LoopOK, Calls, Drains
<1>3. LoopInv'  BY <1>1 DEF Inv, LoopInv, Lone
<1> QED  BY <1>1, <1>2, <1>3, StaysWithTasks

LEMMA Finds ==
  ASSUME Inv, Found
  PROVE  Inv'
<1>1. /\ loop' = "watching" /\ left' = 0 /\ cur' = FreeSlot /\ nxt' = nxt /\ target' = target
      /\ tasks' = [tasks EXCEPT ![FreeSlot] = NewTask(target)]
      /\ LoopKeeps /\ NoFault /\ cur = NoTask /\ nxt = NoTask
  BY DEF Found, Goto, Inv, LoopInv, Lone
<1>2. FreeSlot \in Slots /\ tasks[FreeSlot].st = "free"  BY <1>1, FreeSlotIsFree
<1>3. target \in Nat /\ tasks \in [Slots -> Task] /\ Kept(tasks)
  BY DEF Inv, TypeOK, WritesInv
<1>4. /\ tasks' \in [Slots -> Task] /\ Kept(tasks')
      /\ tasks'[FreeSlot].st # "free" /\ \A r \in Slots \ {FreeSlot} : tasks'[r] = tasks[r]
  BY <1>1, <1>2, Begins
<1>5. LoopOK'  BY <1>1, <1>2, <1>3, <1>4 DEF LoopOK, Calls, Drains
<1>6. TypeOK'  BY <1>1, <1>5, TypeFromLoop DEF Inv
<1>7. LoopInv' /\ ApartInv'
  BY <1>1, <1>2 DEF LoopInv, ApartInv, Lone, Slots, NoTask
<1>8. TakenInv'
  BY <1>1, <1>2, <1>4 DEF Inv, TakenInv, Slots, NoTask
<1> QED  BY <1>1, <1>4, <1>6, <1>7, <1>8, WritesStay DEF Inv

LEMMA Preloads ==
  ASSUME Inv, Preloaded
  PROVE  Inv'
<1>1. /\ loop' = "awaiting" /\ left' = 0 /\ nxt' = FreeSlot /\ cur' = cur /\ target' = target
      /\ tasks' = [tasks EXCEPT ![FreeSlot] = NewTask(target)]
      /\ LoopKeeps /\ NoFault /\ cur # NoTask /\ nxt = NoTask /\ target = tasks[cur].win + 1
  BY DEF Preloaded, Goto, Inv, LoopInv, Lone
<1>2. FreeSlot \in Slots /\ FreeSlot # cur /\ cur \in Slots /\ tasks[FreeSlot].st = "free"
  BY <1>1, FreeSlotIsFree DEF Inv, TypeOK
<1>3. target \in Nat /\ tasks \in [Slots -> Task] /\ Kept(tasks)
  BY DEF Inv, TypeOK, WritesInv
<1>4. /\ tasks' \in [Slots -> Task] /\ Kept(tasks')
      /\ tasks'[FreeSlot].st # "free" /\ tasks'[FreeSlot].win = target
      /\ \A r \in Slots \ {FreeSlot} : tasks'[r] = tasks[r]
  BY <1>1, <1>2, Begins
<1>5. LoopOK'  BY <1>1, <1>2, <1>3, <1>4 DEF LoopOK, Calls, Drains
<1>6. TypeOK'  BY <1>1, <1>5, TypeFromLoop DEF Inv
<1>7. LoopInv'
  BY <1>1, <1>2 DEF LoopInv, Lone, Slots, NoTask
<1>8. ApartInv'
  <2>1. tasks[cur].win \in Nat  BY <1>2, <1>3 DEF Task
  <2>2. tasks'[cur].win # tasks'[FreeSlot].win  BY <1>1, <1>2, <1>4, <2>1
  <2> QED  BY <1>1, <1>2, <2>2 DEF ApartInv
<1>9. TakenInv'
  BY <1>1, <1>2, <1>4 DEF Inv, TakenInv, Slots, NoTask
<1> QED  BY <1>1, <1>4, <1>6, <1>7, <1>8, <1>9, WritesStay DEF Inv

\* A discovery that fails is tried again, or given up.
LEMMA Waits ==
  ASSUME Inv, NotFound
  PROVE  Inv'
<1>1. PICK d \in 0..PauseMax : loop' = "starting" /\ left' = d  BY DEF NotFound, Goto
<1>2. UNCHANGED <<cur, nxt, target, tasks>> /\ LoopKeeps /\ Fault /\ loop \in Lone
  BY DEF NotFound, Refused, Lone
<1>3. LoopOK'  BY <1>1, <1>2, LimitsAreTicks DEF Inv, TypeOK, LoopOK, Calls, Drains
<1>4. LoopInv'  BY <1>1, <1>2 DEF Inv, LoopInv, Lone
<1> QED  BY <1>2, <1>3, <1>4, StaysWithTasks

\* The present task is cancelled, and the loop waits for its end.
LEMMA DropsCurrent ==
  ASSUME Inv, tasks' = CancelTask(tasks, cur), loop' \in {"dropCur", "leaveCur"}, left' = 0,
         UNCHANGED <<cur, nxt, target>>, SamplesKeep
  PROVE  LoopOK' /\ LoopInv' /\ TakenInv' /\ ApartInv' /\ WritesInv'
<1>1. tasks \in [Slots -> Task] /\ Kept(tasks) /\ cur \in Slots \cup {NoTask}
  BY DEF Inv, TypeOK, WritesInv
<1>2. /\ tasks' \in [Slots -> Task] /\ Kept(tasks')
      /\ \A r \in Slots : /\ tasks'[r].win = tasks[r].win
                          /\ tasks'[r].st = "free" <=> tasks[r].st = "free"
  BY <1>1, Cancels
<1>3. LoopOK'  BY <1>2 DEF Inv, TypeOK, LoopOK, Calls, Drains
<1>4. LoopInv'  BY DEF LoopInv, Lone
<1>5. TakenInv'  BY <1>2 DEF Inv, TakenInv
<1>6. ApartInv'
  <2>1. cur \in Slots \cup {NoTask} /\ nxt \in Slots \cup {NoTask}  BY DEF Inv, TypeOK
  <2> QED  BY <1>2, <2>1 DEF Inv, ApartInv
<1> QED  BY <1>2, <1>3, <1>4, <1>5, <1>6 DEF WritesInv, Kept, SamplesKeep

LEMMA Recovers ==
  ASSUME Inv, Recover, Fault \/ NoFault
  PROVE  Inv'
<1>1. /\ tasks' = CancelTask(tasks, cur) /\ loop' = "dropCur" /\ left' = 0
      /\ UNCHANGED <<cur, nxt, target>> /\ LoopKeeps
  BY DEF Recover, Goto
<1>2. LoopOK' /\ LoopInv' /\ TakenInv' /\ ApartInv' /\ WritesInv'  BY <1>1, DropsCurrent DEF LoopKeeps
<1> QED  BY <1>1, <1>2, TypeFromLoop DEF Inv

LEMMA NotRejoins ==
  ASSUME Inv, NotRejoined
  PROVE  Inv'
<1>1. /\ tasks' = CancelTask(tasks, cur) /\ loop' = "leaveCur" /\ left' = 0
      /\ UNCHANGED <<cur, nxt, target>> /\ LoopKeeps /\ Fault
  BY DEF NotRejoined, Refused, Leave, Goto
<1>2. LoopOK' /\ LoopInv' /\ TakenInv' /\ ApartInv' /\ WritesInv'  BY <1>1, DropsCurrent DEF LoopKeeps
<1> QED  BY <1>1, <1>2, TypeFromLoop DEF Inv

LEMMA PreloadStarts ==
  ASSUME Inv, PreloadBegins
  PROVE  Inv'
<1>1. CASE now < End(tasks[cur].win)
  <2>1. /\ loop' = "preloading" /\ left' = CallMax /\ target' = tasks[cur].win + 1
        /\ LoopKeeps /\ NoFault /\ UNCHANGED <<cur, nxt, tasks>> /\ loop = "watching"
    BY <1>1 DEF PreloadBegins, Goto
  <2>2. cur \in Slots /\ nxt = NoTask /\ cur # NoTask
    BY <2>1 DEF Inv, TypeOK, LoopInv
  <2>3. tasks[cur].win \in Nat  BY <2>2 DEF Inv, TypeOK, Task
  <2>4. LoopOK'  BY <2>1, <2>3, LimitsAreTicks DEF Inv, TypeOK, LoopOK, Calls, Drains
  <2>5. LoopInv'  BY <2>1, <2>2 DEF LoopInv, Lone
  <2> QED  BY <2>1, <2>4, <2>5, StaysWithTasks
<1>2. CASE ~(now < End(tasks[cur].win))
  BY <1>2, Recovers DEF PreloadBegins
<1> QED  BY <1>1, <1>2

LEMMA PreloadStops ==
  ASSUME Inv, PreloadFails
  PROVE  Inv'
<1>0. loop = "preloading" /\ Fault  BY DEF PreloadFails, Refused
<1>1. CASE Goto("preloading", CallMax) /\ LoopKeeps /\ UNCHANGED <<cur, nxt, target, tasks>>
  <2>1. LoopOK'  BY <1>1, LimitsAreTicks DEF Goto, Inv, TypeOK, LoopOK, Calls, Drains
  <2>2. LoopInv'  BY <1>0, <1>1 DEF Goto, Inv, LoopInv, Lone
  <2> QED  BY <1>0, <1>1, <2>1, <2>2, StaysWithTasks
<1>2. CASE Recover
  BY <1>0, <1>2, Recovers
<1> QED  BY <1>1, <1>2 DEF PreloadFails

LEMMA RolloverKeeps ==
  ASSUME Inv, Rollover
  PROVE  Inv'
<1>1. /\ tasks' = Release(tasks, cur) /\ cur' = nxt /\ nxt' = NoTask /\ target' = target
      /\ loop' = "watching" /\ left' = 0 /\ LoopKeeps /\ NoFault /\ loop = "awaiting"
      /\ ~Live(tasks[cur])
  BY DEF Rollover, Goto, Done, Live
<1>2. cur \in Slots /\ nxt \in Slots /\ cur # nxt /\ cur # NoTask /\ nxt # NoTask
  BY <1>1 DEF Inv, TypeOK, LoopInv, ApartInv
<1>3. tasks \in [Slots -> Task] /\ Kept(tasks)  BY DEF Inv, TypeOK, WritesInv
<1>4. /\ tasks' \in [Slots -> Task] /\ Kept(tasks')
      /\ \A r \in Slots : IF r = cur THEN tasks'[r].st = "free" ELSE tasks'[r] = tasks[r]
  BY <1>1, <1>2, <1>3, Releases
<1>5. LoopOK'  BY <1>1, <1>2, <1>4 DEF Inv, TypeOK, LoopOK, Calls, Drains
<1>6. TypeOK'  BY <1>1, <1>5, TypeFromLoop DEF Inv
<1>7. LoopInv' /\ ApartInv'  BY <1>1, <1>2 DEF LoopInv, ApartInv, Lone
<1>8. TakenInv'  BY <1>1, <1>2, <1>4 DEF Inv, TakenInv, Slots, NoTask
<1> QED  BY <1>1, <1>4, <1>6, <1>7, <1>8, WritesStay DEF Inv

\* The present task has ended; the next one is cancelled.
LEMMA CurrentGoes ==
  ASSUME Inv, CurrentDropped \/ LeaveNext
  PROVE  Inv'
<1>1. /\ tasks' = CancelTask(Release(tasks, cur), nxt) /\ cur' = NoTask
      /\ loop' \in {"dropNext", "leaveNext"} /\ left' = 0 /\ UNCHANGED <<nxt, target>>
      /\ LoopKeeps /\ NoFault /\ (cur \in Slots => ~Live(tasks[cur]))
  BY DEF CurrentDropped, LeaveNext, Goto, Drained, Done, Live
<1>2. /\ tasks \in [Slots -> Task] /\ Kept(tasks)
      /\ cur \in Slots \cup {NoTask} /\ nxt \in Slots \cup {NoTask}
  BY DEF Inv, TypeOK, WritesInv
<1>3. /\ Release(tasks, cur) \in [Slots -> Task] /\ Kept(Release(tasks, cur))
      /\ \A r \in Slots : IF r = cur THEN Release(tasks, cur)[r].st = "free"
                                     ELSE Release(tasks, cur)[r] = tasks[r]
  BY <1>1, <1>2, Releases
<1>4. /\ tasks' \in [Slots -> Task] /\ Kept(tasks')
      /\ \A r \in Slots : tasks'[r].st = "free" <=> Release(tasks, cur)[r].st = "free"
  BY <1>1, <1>2, <1>3, Cancels
<1>5. LoopOK'  BY <1>1, <1>2, <1>4 DEF Inv, TypeOK, LoopOK, Calls, Drains
<1>6. TypeOK'  BY <1>1, <1>5, TypeFromLoop DEF Inv
<1>7. LoopInv' /\ ApartInv'  BY <1>1 DEF LoopInv, ApartInv, Lone
<1>8. TakenInv'
  <2> SUFFICES ASSUME NEW r \in Slots
               PROVE  tasks'[r].st # "free" <=> r \in {cur', nxt'}
    BY DEF TakenInv
  <2>1. tasks[r].st # "free" <=> r \in {cur, nxt}  BY DEF Inv, TakenInv
  <2>2. r # NoTask  BY DEF Slots, NoTask
  <2>3. r = cur => r # nxt  BY <2>2 DEF Inv, ApartInv
  <2> QED  BY <1>1, <1>3, <1>4, <2>1, <2>2, <2>3
<1> QED  BY <1>1, <1>4, <1>6, <1>7, <1>8, WritesStay DEF Inv

\* The next task has ended too.
LEMMA NextGoes ==
  ASSUME Inv, NextDropped \/ Left
  PROVE  Inv'
<1>1. /\ tasks' = Release(tasks, nxt) /\ nxt' = NoTask /\ UNCHANGED <<cur, target>>
      /\ loop \in {"dropNext", "leaveNext"} /\ LoopKeeps /\ NoFault
      /\ (nxt \in Slots => ~Live(tasks[nxt]))
  BY DEF NextDropped, Left, Drained, Done, Live
<1>2. PICK d \in Nat : loop' \in {"pausing", "down"} /\ left' = d
  BY LimitsAreTicks DEF NextDropped, Left, Goto
<1>3. cur = NoTask  BY <1>1 DEF Inv, LoopInv
<1>4. tasks \in [Slots -> Task] /\ Kept(tasks) /\ nxt \in Slots \cup {NoTask}
  BY DEF Inv, TypeOK, WritesInv
<1>5. /\ tasks' \in [Slots -> Task] /\ Kept(tasks')
      /\ \A r \in Slots : IF r = nxt THEN tasks'[r].st = "free" ELSE tasks'[r] = tasks[r]
  BY <1>1, <1>4, Releases
<1>6. LoopOK'  BY <1>1, <1>2, <1>5 DEF Inv, TypeOK, LoopOK, Calls, Drains
<1>7. TypeOK'  BY <1>1, <1>6, TypeFromLoop DEF Inv
<1>8. LoopInv' /\ ApartInv'  BY <1>1, <1>2, <1>3 DEF LoopInv, ApartInv, Lone
<1>9. TakenInv'
  BY <1>1, <1>3, <1>5 DEF Inv, TakenInv, Slots, NoTask
<1> QED  BY <1>1, <1>5, <1>7, <1>8, <1>9, WritesStay DEF Inv

LEMMA Restarts ==
  ASSUME Inv, Restart
  PROVE  Inv'
<1>1. /\ loop' = "starting" /\ left' = 0 /\ UNCHANGED <<cur, nxt, target, tasks>>
      /\ LoopKeeps /\ NoFault /\ loop \in Lone
  BY DEF Restart, Goto, Lone
<1>2. LoopOK'  BY <1>1 DEF Inv, TypeOK, LoopOK, Calls, Drains
<1>3. LoopInv'  BY <1>1 DEF Inv, LoopInv, Lone
<1> QED  BY <1>1, <1>2, <1>3, StaysWithTasks

\* A process that dies takes all of its tasks with it.
LEMMA Deaths ==
  ASSUME Inv, Crash \/ Killed
  PROVE  Inv'
<1>1. /\ tasks' = [s \in Slots |-> Free] /\ cur' = NoTask /\ nxt' = NoTask
      /\ loop' = "down" /\ left' = 1 /\ now' = now /\ stop' = stop /\ target' = target
      /\ writes' = {} /\ row' \in {row} \cup {Upserted(w) : w \in writes}
  BY DEF Crash, Killed, Dies, Goto
<1>2. faults' \in 0..MaxFaults /\ quiet' \in 0..(Bound + 1)
  BY FaultType, NoFaultType DEF Crash, Killed, Inv
<1>3. row' \in [win : Nat, newest : BOOLEAN]
  BY <1>1 DEF Inv, TypeOK, Write, Upserted
<1>4. TypeOK'  BY <1>1, <1>2, <1>3, FreeType DEF Inv, TypeOK
<1>5. LoopInv' /\ ApartInv'  BY <1>1 DEF LoopInv, ApartInv, Lone
<1>6. TakenInv' /\ WritesInv'
  BY <1>1, FreeType DEF TakenInv, WritesInv, Kept, Slots, NoTask
<1> QED  BY <1>4, <1>5, <1>6 DEF Inv

\* SIGTERM cancels the present task, unless the cancellation is swallowed or has nothing to do.
LEMMA Stops ==
  ASSUME Inv, Sigterm
  PROVE  Inv'
<1>1. stop' = StopMax /\ NoFault /\ now' = now /\ SamplesKeep  BY DEF Sigterm
<1>2. LoopOK' /\ LoopInv' /\ TakenInv' /\ ApartInv' /\ WritesInv'
  <2>1. CASE UNCHANGED <<control, tasks>>
    BY <1>1, <2>1 DEF control, Inv, TypeOK, LoopOK, LoopInv, TakenInv, ApartInv, WritesInv, Kept,
                     SamplesKeep
  <2>2. CASE Leave
    <3>1. /\ tasks' = CancelTask(tasks, cur) /\ loop' = "leaveCur" /\ left' = 0
          /\ UNCHANGED <<cur, nxt, target>>
      BY <2>2 DEF Leave, Goto
    <3> QED  BY <1>1, <3>1, DropsCurrent
  <2> QED  BY <2>1, <2>2 DEF Sigterm
<1>3. TypeOK'
  BY <1>1, <1>2, NoFaultType, LimitsAreTicks DEF Inv, TypeOK, LoopOK, SamplesKeep
<1> QED  BY <1>2, <1>3 DEF Inv

----------------------------------------------------------------------------
(* Time. *)

\* What has a limit has some of it left, or time would not pass.
LEMMA TimePasses ==
  ASSUME Inv, Tick
  PROVE  Inv'
<1>1. /\ now < MaxNow /\ now' = now + 1
      /\ left' = IF left > 0 THEN left - 1 ELSE 0
      /\ tasks' = [s \in Slots |-> IF Hurried(tasks[s]) THEN [tasks[s] EXCEPT !.left = @ - 1]
                                                        ELSE tasks[s]]
      /\ quiet' = IF quiet > Bound THEN quiet ELSE quiet + 1
      /\ stop' = IF stop > 0 THEN stop - 1 ELSE stop
      /\ writes' = {[w EXCEPT !.left = @ - 1] : w \in writes}
      /\ UNCHANGED <<loop, cur, nxt, target, row, faults>>
      /\ \A s \in Slots : Hurried(tasks[s]) => tasks[s].left # 0
      /\ \A w \in writes : w.left # 0
  BY DEF Tick, Due
<1>2. TypeOK  BY DEF Inv
<1>3. \A s \in Slots : /\ tasks'[s] \in Task /\ tasks'[s].win = tasks[s].win
                       /\ tasks'[s].st = tasks[s].st
  <2> TAKE s \in Slots
  <2>1. PICK t \in Task : t = tasks[s]  BY <1>2 DEF TypeOK
  <2>2. CASE Hurried(t)
    <3>1. t.left - 1 \in 0..(CallMax + Notice)  BY <1>1, <2>1, <2>2, LimitsAreTicks DEF Task
    <3>2. [t EXCEPT !.left = t.left - 1] \in Task  BY <3>1 DEF Task
    <3>3. tasks'[s] = [t EXCEPT !.left = t.left - 1]  BY <1>1, <2>1, <2>2
    <3> QED  BY <2>1, <3>2, <3>3 DEF Task
  <2>3. CASE ~Hurried(t)
    <3>1. tasks'[s] = t  BY <1>1, <2>1, <2>3
    <3> QED  BY <2>1, <3>1
  <2> QED  BY <2>2, <2>3
<1>4. /\ now' \in 0..MaxNow /\ left' \in Nat /\ quiet' \in 0..(Bound + 1)
      /\ stop' \in {Never} \cup 0..StopMax
  BY <1>1, <1>2, LimitsAreTicks, BoundType DEF TypeOK, Never
<1>5. tasks' \in [Slots -> Task]  BY <1>1, <1>3
<1>a. writes' \subseteq Write
  <2> SUFFICES ASSUME NEW w \in writes PROVE [w EXCEPT !.left = @ - 1] \in Write  BY <1>1
  <2>1. w \in Write /\ w.left # 0  BY <1>1, <1>2 DEF TypeOK
  <2>2. w.left - 1 \in 0..Notice  BY <2>1, LimitsAreTicks DEF Write
  <2> QED  BY <2>1, <2>2 DEF Write
<1>6. TypeOK'  BY <1>1, <1>2, <1>4, <1>5, <1>a DEF TypeOK
<1>7. LoopInv'  BY <1>1, <1>2, <1>3 DEF Inv, TypeOK, LoopInv, Lone, NoTask
<1>8. TakenInv'  BY <1>1, <1>3 DEF Inv, TakenInv
<1>9. ApartInv'  BY <1>1, <1>2, <1>3 DEF Inv, TypeOK, ApartInv, NoTask
<1>10. WritesInv'
  <2> SUFFICES ASSUME NEW v \in writes' PROVE Live(tasks'[v.by]) /\ tasks'[v.by].win = v.win
    BY DEF WritesInv, Kept
  <2>1. PICK w \in writes : v = [w EXCEPT !.left = @ - 1]  BY <1>1
  <2>2. w \in Write  BY <1>2 DEF TypeOK
  <2>3. v.by = w.by /\ v.win = w.win /\ w.by \in Slots  BY <2>1, <2>2 DEF Write
  <2>4. Live(tasks[w.by]) /\ tasks[w.by].win = w.win  BY DEF Inv, WritesInv, Kept
  <2> QED  BY <1>3, <2>3, <2>4 DEF Live
<1> QED  BY <1>6, <1>7, <1>8, <1>9, <1>10 DEF Inv
----------------------------------------------------------------------------
(* Theorems. *)

LEMMA InvInit == Init => Inv
<1> SUFFICES ASSUME Init PROVE Inv  OBVIOUS
<1>1. TypeOK
  BY FreeType, BoundType, LimitsAreTicks DEF Init, TypeOK, Slots, NoTask, Never, Calls, Drains
<1>2. LoopInv /\ ApartInv  BY DEF Init, LoopInv, ApartInv, Lone
<1>3. TakenInv /\ WritesInv  BY FreeType DEF Init, TakenInv, WritesInv, Kept, Slots, NoTask
<1> QED  BY <1>1, <1>2, <1>3 DEF Inv

LEMMA InvNext == Inv /\ [Next]_vars => Inv'
<1> SUFFICES ASSUME Inv, [Next]_vars PROVE Inv'  OBVIOUS
<1>1. CASE Tick     BY <1>1, TimePasses
<1>2. CASE Collect  BY <1>2, Collects
<1>3. CASE Run
  <2>1. CASE Begin \/ Rejoin              BY <2>1, Starts
  <2>2. CASE Found                        BY <2>2, Finds
  <2>3. CASE NotFound                     BY <2>3, Waits
  <2>4. CASE CollectionEnds               BY <2>4, Recovers DEF CollectionEnds
  <2>5. CASE PreloadBegins                BY <2>5, PreloadStarts
  <2>6. CASE Preloaded                    BY <2>6, Preloads
  <2>7. CASE PreloadFails                 BY <2>7, PreloadStops
  <2>8. CASE Rollover                     BY <2>8, RolloverKeeps
  <2>9. CASE AwaitFails                   BY <2>9, Recovers DEF AwaitFails
  <2>10. CASE CurrentDropped \/ LeaveNext BY <2>10, CurrentGoes
  <2>11. CASE NextDropped \/ Left         BY <2>11, NextGoes
  <2>12. CASE NotRejoined                 BY <2>12, NotRejoins
  <2>13. CASE Restart                     BY <2>13, Restarts
  <2>14. CASE Crash \/ Killed             BY <2>14, Deaths
  <2>15. CASE Sigterm                     BY <2>15, Stops
  <2> QED  BY <1>3, <2>1, <2>2, <2>3, <2>4, <2>5, <2>6, <2>7, <2>8, <2>9, <2>10, <2>11, <2>12,
              <2>13, <2>14, <2>15 DEF Run
<1>4. CASE UNCHANGED vars
  BY <1>4 DEF vars, control, Inv, TypeOK, LoopInv, TakenInv, ApartInv, WritesInv, Kept
<1> QED  BY <1>1, <1>2, <1>3, <1>4 DEF Next

LEMMA InvImpliesOneTaskEach == Inv => OneTaskEach
<1> SUFFICES ASSUME Inv PROVE OneTaskEach  OBVIOUS
<1>1. \A s \in Slots : tasks[s].st # "free" => s \in {cur, nxt}  BY DEF Inv, TakenInv
<1>2. \A s \in Slots : s # NoTask  BY DEF Slots, NoTask
<1>3. \A s \in Slots : tasks[s].st # "free" => cur # nxt
  BY <1>1, <1>2 DEF Inv, ApartInv
<1>4. \A s, t \in Slots : s # t /\ Running(s) /\ Running(t) => tasks[s].win # tasks[t].win
  <2> SUFFICES ASSUME NEW s \in Slots, NEW t \in Slots, s # t, Running(s), Running(t)
               PROVE  tasks[s].win # tasks[t].win
    OBVIOUS
  <2>1. s \in {cur, nxt} /\ t \in {cur, nxt}  BY <1>1 DEF Running
  <2> QED  BY <1>2, <2>1 DEF Inv, ApartInv
<1>5. loop = "down" => \A s \in Slots : tasks[s].st = "free"
  BY <1>1, <1>2 DEF Inv, LoopInv, Lone
<1> QED  BY <1>1, <1>3, <1>4, <1>5 DEF OneTaskEach, Inv

\* Whatever fails, is cancelled, rolls over, recovers or is restarted: each task that holds a
\* socket is one that run_collector knows, no two are for one market, and a service that is down
\* has none.
THEOREM OneTaskPerMarket == Spec => []OneTaskEach
<1>1. Spec => []Inv  BY InvInit, InvNext, PTL DEF Spec
<1> QED  BY <1>1, InvImpliesOneTaskEach, PTL

\* What is being written, and what was written last, is the newest sample of its market.
Newest == row.newest /\ \A w \in writes : w.newest

LEMMA NewestNext == Inv /\ Newest /\ [Next]_vars => Newest'
<1> SUFFICES ASSUME Inv, Newest, [Next]_vars PROVE Newest'  OBVIOUS
<1>1. writes \subseteq Write  BY DEF Inv, TypeOK
<1>2. ASSUME writes' \subseteq writes, row' \in {row} \cup {Upserted(w) : w \in writes}
      PROVE  Newest'
  BY <1>2 DEF Newest, Upserted
<1>3. CASE Tick
  <2>1. row' = row /\ writes' = {[w EXCEPT !.left = @ - 1] : w \in writes}  BY <1>3 DEF Tick
  <2>2. \A w \in writes : [w EXCEPT !.left = @ - 1].newest = w.newest  BY <1>1 DEF Write
  <2> QED  BY <2>1, <2>2 DEF Newest
<1>4. CASE Run
  <2>1. CASE Crash \/ Killed
    BY <1>2, <2>1 DEF Crash, Killed, Dies
  <2>2. CASE ~(Crash \/ Killed)
    <3>1. SamplesKeep
      BY <1>4, <2>2 DEF Run, Begin, Found, NotFound, CollectionEnds, PreloadBegins, Preloaded,
                        PreloadFails, Rollover, AwaitFails, CurrentDropped, NextDropped, Rejoin,
                        NotRejoined, LeaveNext, Left, Restart, Sigterm, Start1, Recover, LoopKeeps
    <3> QED  BY <1>2, <3>1 DEF SamplesKeep
  <2> QED  BY <2>1, <2>2
<1>5. CASE Collect
  <2> PICK s \in Slots : TaskStep(s)  BY <1>5 DEF Collect
  <2>1. CASE Sample(s)
    <3>1. /\ row' = row /\ writes' = Taken(s) /\ ~Writing(s) /\ tasks[s].st = "open"
      BY <2>1 DEF Sample, Snapshot
    <3>2. ASSUME NEW w \in writes PROVE w.win # tasks[s].win
      <4>1. w.by \in Slots /\ w.by # s  BY <1>1, <3>1 DEF Write, Writing
      <4>2. Live(tasks[w.by]) /\ tasks[w.by].win = w.win  BY DEF Inv, WritesInv, Kept
      <4>3. w.by \in {cur, nxt} /\ s \in {cur, nxt}
        BY <3>1, <4>1, <4>2 DEF Inv, TakenInv, Live
      <4>4. w.by # NoTask /\ s # NoTask  BY <4>1 DEF Slots, NoTask
      <4> QED  BY <4>1, <4>2, <4>3, <4>4 DEF Inv, ApartInv
    <3>3. ASSUME NEW v \in writes' PROVE v.newest
      <4>1. CASE v = [by |-> s, win |-> tasks[s].win, left |-> Notice, newest |-> TRUE]
        BY <4>1
      <4>2. CASE \E w \in writes : v = [w EXCEPT !.newest = @ /\ w.win # tasks[s].win]
        <5>1. PICK w \in writes : v = [w EXCEPT !.newest = @ /\ w.win # tasks[s].win]  BY <4>2
        <5>2. w \in Write /\ w.newest /\ w.win # tasks[s].win  BY <1>1, <3>2 DEF Newest
        <5> QED  BY <5>1, <5>2 DEF Write
      <4> QED  BY <3>1, <4>1, <4>2 DEF Taken
    <3> QED  BY <3>1, <3>3 DEF Newest
  <2>2. CASE SampleLands(s) \/ SampleCut(s) \/ SamplerFails(s)
    BY <1>2, <2>2 DEF SampleLands, SampleCut, SamplerFails
  <2>3. CASE Opened(s) \/ OpenFails(s) \/ Noticed(s) \/ Resolved(s) \/ Persisted(s) \/ GraceOver(s)
             \/ SocketCloses(s) \/ Closed(s)
    <3>1. SamplesKeep
      BY <2>3 DEF Opened, OpenFails, Noticed, Resolved, Persisted, GraceOver, SocketCloses, Closed
    <3> QED  BY <1>2, <3>1 DEF SamplesKeep
  <2> QED  BY <2>1, <2>2, <2>3 DEF TaskStep
<1>6. CASE UNCHANGED vars  BY <1>6 DEF vars, Newest
<1> QED  BY <1>3, <1>4, <1>5, <1>6 DEF Next

\* The rows of a market are written in the order in which they were taken, and each before the end
\* of the task that took it: one sampler waits for its own upsert, the finally block waits for the
\* sampler, and no task of the market begins before the one before it has ended.
THEOREM RowsInOrder == Spec => []SamplesInOrder
<1>1. Init => Newest  BY DEF Init, Newest
<1>2. Inv /\ Newest => SamplesInOrder
  BY DEF Inv, WritesInv, Kept, Live, Newest, SamplesInOrder, Running
<1>3. Spec => []Inv  BY InvInit, InvNext, PTL DEF Spec
<1> QED  BY <1>1, <1>2, <1>3, NewestNext, PTL DEF Spec

----------------------------------------------------------------------------
(* The way back after a fault. *)

LEMMA Fits ==
  /\ Window \in Nat /\ Preload \in Nat /\ Grace \in Nat /\ Notice \in Nat /\ CallMax \in Nat
  /\ PauseMax \in Nat /\ Nearest \in Nat
  /\ Preload + Grace <= Nearest /\ Notice + CallMax + PauseMax <= Nearest
  /\ Notice + CallMax + Preload - 1 <= Nearest
  /\ Bound = Nearest + PauseMax + 4 * CallMax
  /\ 1 <= CallMax /\ CallMax <= Notice /\ CallMax <= Grace /\ 2 * CallMax < Preload
  /\ Preload + Grace + PauseMax + 3 * CallMax < Window
BY PreloadFits, LimitsAreTicks, LimitsFit, NearestIs DEF Nearest, Bound

LEMMA Products ==
  ASSUME NEW a \in Nat, NEW b \in Nat, NEW n \in Nat, b < a
  PROVE  b * n + n <= a * n
<1>1. PICK k \in Nat : a = b + 1 + k  
  <2>1. a - b - 1 \in Nat /\ a = b + 1 + (a - b - 1)  OBVIOUS
  <2> QED  BY <2>1
<1>2. a * n = b * n + n + k * n  BY <1>1
<1>3. k * n \in Nat /\ b * n \in Nat  BY <1>1
<1> QED  BY <1>2, <1>3

LEMMA Windows ==
  ASSUME NEW w \in Nat
  PROVE  /\ Start(w) \in Nat /\ End(w) \in Nat /\ End(w) = Start(w) + Window
         /\ Start(w + 1) = End(w) /\ End(w + 1) = End(w) + Window
BY PreloadFits DEF Start, End

LEMMA WindowHolds ==
  ASSUME NEW t \in Nat
  PROVE  WindowOf(t) \in Nat /\ Start(WindowOf(t)) <= t /\ t < End(WindowOf(t))
<1>1. Window \in Nat /\ Window > 0  BY Fits
<1>2. t = (t \div Window) * Window + (t % Window) /\ t % Window \in 0..(Window - 1) /\ t \div Window \in Nat
  BY <1>1
<1> QED  BY <1>1, <1>2 DEF WindowOf, Start, End

LEMMA WindowIs ==
  ASSUME NEW t \in Nat, NEW w \in Nat, Start(w) <= t, t < End(w)
  PROVE  WindowOf(t) = w
<1> PICK v \in Nat : v = WindowOf(t)  BY WindowHolds
<1>1. Start(v) <= t /\ t < End(v)  BY WindowHolds
<1>2. Window \in Nat  BY Fits
<1>3. CASE v < w
  <2>1. v * Window + Window <= w * Window  BY <1>2, <1>3, Products
  <2> QED  BY <1>1, <1>2, <2>1, Windows DEF Start, End
<1>4. CASE w < v
  <2>1. w * Window + Window <= v * Window  BY <1>2, <1>4, Products
  <2> QED  BY <1>1, <1>2, <2>1, Windows DEF Start, End
<1> QED  BY <1>3, <1>4

\* Whether a loop that looks for a market at time t, after q quiet ticks, is back within Bound: also if
\* the market it finds must at once be preloaded from, or has ended when it is found.
Soon(t, q) ==
  /\ q <= Nearest + PauseMax + 2 * CallMax
  /\ t + CallMax >= End(WindowOf(t)) - Preload => q <= Nearest + PauseMax + CallMax
  /\ t + CallMax >= End(WindowOf(t)) => q <= Nearest

SoonFor(t, q, d) == \A i \in 0..d : Soon(t + i, q + i)

\* Whether it is if at time t the market of w is found.
Answerable(t, q, w) ==
  /\ q + CallMax <= Bound
  /\ t > End(w) - Preload => q + 2 * CallMax <= Bound
  /\ t >= End(w) => SoonFor(t, q, CallMax + PauseMax)

LEMMA SoonEarlier ==
  ASSUME NEW t \in Nat, NEW q \in Nat, NEW r \in Nat, Soon(t, q), r <= q
  PROVE  Soon(t, r)
BY Fits DEF Soon

LEMMA SoonNear ==
  ASSUME NEW t \in Nat, NEW q \in Nat, q <= Nearest
  PROVE  Soon(t, q)
BY Fits DEF Soon

LEMMA SoonForNear ==
  ASSUME NEW t \in Nat, NEW q \in Nat, NEW d \in Nat, q + d <= Nearest
  PROVE  SoonFor(t, q, d)
<1> SUFFICES ASSUME NEW i \in 0..d PROVE Soon(t + i, q + i)  BY DEF SoonFor
<1>1. t + i \in Nat /\ q + i \in Nat /\ q + i <= Nearest  BY Fits
<1> QED  BY <1>1, SoonNear

LEMMA SoonForEarlier ==
  ASSUME NEW t \in Nat, NEW q \in Nat, NEW d \in Nat, SoonFor(t, q, d),
         NEW r \in Nat, r <= q, NEW e \in Nat, e <= d
  PROVE  SoonFor(t, r, e)
<1> SUFFICES ASSUME NEW i \in 0..e PROVE Soon(t + i, r + i)  BY DEF SoonFor
<1>1. i \in 0..d /\ t + i \in Nat /\ q + i \in Nat /\ r + i \in Nat /\ r + i <= q + i  OBVIOUS
<1>2. Soon(t + i, q + i)  BY <1>1 DEF SoonFor
<1> QED  BY <1>1, <1>2, SoonEarlier

LEMMA SoonForTick ==
  ASSUME NEW t \in Nat, NEW q \in Nat, NEW d \in Nat, SoonFor(t, q, d),
         NEW r \in Nat, r <= q + 1, NEW e \in Nat, e + 1 <= d
  PROVE  SoonFor(t + 1, r, e)
<1> SUFFICES ASSUME NEW i \in 0..e PROVE Soon((t + 1) + i, r + i)  BY DEF SoonFor
<1>1. i + 1 \in 0..d /\ t + (i + 1) \in Nat /\ q + (i + 1) \in Nat /\ r + i \in Nat /\ r + i <= q + (i + 1)
      /\ (t + 1) + i = t + (i + 1)
  OBVIOUS
<1>2. Soon(t + (i + 1), q + (i + 1))  BY <1>1 DEF SoonFor
<1>3. Soon(t + (i + 1), r + i)  BY <1>1, <1>2, SoonEarlier
<1> QED  BY <1>1, <1>3

\* What is known of the first instant.
LEMMA SoonForNow ==
  ASSUME NEW t \in Nat, NEW q \in Nat, NEW d \in Nat, SoonFor(t, q, d)
  PROVE  Soon(t, q) /\ q < Bound
<1>1. 0 \in 0..d /\ t + 0 = t /\ q + 0 = q  OBVIOUS
<1>2. Soon(t, q)  BY <1>1 DEF SoonFor
<1> QED  BY <1>2, Fits DEF Soon

\* In the first part of a window only the first bound counts.
LEMMA SoonInside ==
  ASSUME NEW t \in Nat, NEW q \in Nat, NEW w \in Nat, Start(w) <= t, t + CallMax + Preload < End(w),
         q <= Nearest + PauseMax + 2 * CallMax
  PROVE  Soon(t, q)
<1>1. t < End(w)  BY Fits, Windows
<1>2. WindowOf(t) = w  BY <1>1, WindowIs
<1> QED  BY <1>2, Fits, Windows DEF Soon

\* The market that is asked for now is back in time, whenever the answer comes.
LEMMA AskedInTime ==
  ASSUME NEW t \in Nat, NEW q \in Nat, Soon(t, q), NEW i \in 0..CallMax
  PROVE  Answerable(t + i, q + i, WindowOf(t))
<1> PICK w \in Nat : w = WindowOf(t)  BY WindowHolds
<1>1. Start(w) <= t /\ t < End(w)  BY WindowHolds
<1>2. /\ q <= Nearest + PauseMax + 2 * CallMax
      /\ t + CallMax >= End(w) - Preload => q <= Nearest + PauseMax + CallMax
      /\ t + CallMax >= End(w) => q <= Nearest
  BY DEF Soon
<1>3. (q + i) + CallMax <= Bound  BY <1>2, Fits
<1>4. t + i > End(w) - Preload => (q + i) + 2 * CallMax <= Bound
  BY <1>2, Fits, Windows
<1>5. ASSUME t + i >= End(w) PROVE SoonFor(t + i, q + i, CallMax + PauseMax)
  <2> SUFFICES ASSUME NEW j \in 0..(CallMax + PauseMax) PROVE Soon((t + i) + j, (q + i) + j)
    BY DEF SoonFor
  <2>1. q <= Nearest  BY <1>2, <1>5, Fits, Windows
  <2>2. (t + i) + j \in Nat /\ (q + i) + j \in Nat /\ w + 1 \in Nat  BY Fits
  <2>3. (q + i) + j <= Nearest + PauseMax + 2 * CallMax  BY <2>1, Fits
  <2>4. Start(w + 1) <= (t + i) + j  BY <1>5, Windows, Fits
  <2>5. ((t + i) + j) + CallMax + Preload < End(w + 1)  BY <1>1, Windows, Fits
  <2> QED  BY <2>2, <2>3, <2>4, <2>5, SoonInside
<1> QED  BY <1>3, <1>4, <1>5 DEF Answerable

----------------------------------------------------------------------------
(* Tasks on the way back. *)

Over(t)     == t.st \in {"returned", "failed", "cancelled"}
Dropping(t) == t.st = "persisting" \/ (t.st = "open" /\ t.sampler = "failed")
Troubled(t) == Dropping(t) \/ t.st = "closing" \/ Over(t)

\* How long until a task is over that cannot go on.
Hurry(t) == IF Dropping(t) THEN t.left + CallMax ELSE IF t.st = "closing" THEN t.left ELSE 0

InLimits(t) ==
  /\ t.st \in {"opening", "persisting", "closing"} => t.left <= CallMax
  /\ t.st = "open" /\ t.sampler = "failed" => t.left <= Notice
  /\ t.st = "opening" => t.sampler = "on"

\* A step of a task at time n, after which there have been r quiet ticks in place of q.
Goes(t, u, n, q, r) ==
  /\ u.win = t.win
  /\ \/ r = 0 /\ t.st = "opening" /\ u.st = "failed"
     \/ r = 0 /\ t.st = "open" /\ u.st = "open" /\ u.sampler = "failed" /\ u.left = Notice
     \/ r = 0 /\ t.st = "persisting" /\ u.st = "persisting" /\ u.left = t.left
     \/ r = 0 /\ t.st = "open" /\ u.st \in {"persisting", "closing"} /\ u.left = CallMax
     \/ r = q /\ u.st = t.st /\ u.sampler = t.sampler /\ u.left = t.left
     \/ r = q /\ t.st = "opening" /\ u.st = "open" /\ u.sampler = "on"
     \/ r = q /\ t.st = "open" /\ n >= End(t.win) /\ u.st \in {"persisting", "closing"} /\ u.left = CallMax
     \/ r = q /\ Dropping(t) /\ u.st = "closing" /\ u.left = CallMax
     \/ r = q /\ t.st = "closing" /\ Over(u)

\* Time passes for a task.
Passes(t, u) ==
  /\ u.win = t.win /\ u.st = t.st /\ u.sampler = t.sampler
  /\ IF Hurried(t) THEN t.left >= 1 /\ u.left = t.left - 1 ELSE u.left = t.left

LEMMA GoesInLimits ==
  ASSUME NEW t \in Task, NEW u \in Task, NEW n, NEW q, NEW r, InLimits(t), Goes(t, u, n, q, r)
  PROVE  InLimits(u)
BY Fits DEF InLimits, Goes, Dropping, Over

LEMMA HurryType == ASSUME NEW t \in Task PROVE Hurry(t) \in Nat
BY Fits DEF Hurry, Task

\* Where the market in force is collected, or will be in time, while its task is watched.
WatchInv(c, t, q) ==
  /\ c.st = "opening" => q + c.left <= Bound
  /\ t < End(c.win) /\ Troubled(c) => /\ SoonFor(t, q, Hurry(c) + PauseMax)
                                      /\ ~Over(c) => q + Hurry(c) <= Notice + CallMax
  /\ t < Start(c.win) => q + (Start(c.win) - t) <= Bound
  /\ t > End(c.win) - Preload => q + 2 * CallMax <= Bound
  /\ t >= End(c.win) => SoonFor(t, q, CallMax + PauseMax)

\* The same of the present task from the preload on.
CurInv(c, t, q) ==
  /\ End(c.win) - Preload <= t
  /\ c.st = "opening" => q + c.left <= Bound /\ t + c.left <= End(c.win) + CallMax
  /\ t < End(c.win) /\ Troubled(c) =>
       q + Hurry(c) <= Notice + CallMax + (t - (End(c.win) - Preload))
  /\ c.st = "open" => t <= End(c.win) + Grace
  /\ c.st = "persisting" => t + c.left <= End(c.win) + Grace + CallMax
  /\ c.st = "closing" => t + c.left <= End(c.win) + Grace + 2 * CallMax
  /\ Over(c) => t <= End(c.win) + Grace + 2 * CallMax

\* And of the next one, whose window begins at e.
NextInv(n, e, t, q) ==
  /\ n.st = "opening" => t + n.left < e \/ q + n.left <= Bound
  /\ Troubled(n) => /\ q <= t - (e - Preload)
                    /\ ~Over(n) => q + Hurry(n) <= Notice + CallMax

\* Nothing but time and faults moves what is known of a task that rests.
LEMMA WatchEarlier ==
  ASSUME NEW c \in Task, NEW t \in Nat, NEW q \in Nat, WatchInv(c, t, q), NEW r \in Nat, r <= q
  PROVE  WatchInv(c, t, r)
<1> PICK e \in Nat, b \in Nat : e = End(c.win) /\ b = Start(c.win)  BY Windows DEF Task
<1> PICK h \in Nat, l \in Nat : h = Hurry(c) /\ l = c.left  BY HurryType, Fits DEF Task
<1>1. h + PauseMax \in Nat /\ CallMax + PauseMax \in Nat  BY Fits
<1>2. SoonFor(t, q, h + PauseMax) => SoonFor(t, r, h + PauseMax)  BY <1>1, SoonForEarlier
<1>3. SoonFor(t, q, CallMax + PauseMax) => SoonFor(t, r, CallMax + PauseMax)  BY <1>1, SoonForEarlier
<1> QED  BY <1>2, <1>3, Fits DEF WatchInv

LEMMA CurEarlier ==
  ASSUME NEW c \in Task, NEW t \in Nat, NEW q \in Nat, CurInv(c, t, q), NEW r \in Nat, r <= q
  PROVE  CurInv(c, t, r)
<1> PICK e \in Nat : e = End(c.win)  BY Windows DEF Task
<1> PICK h \in Nat, l \in Nat : h = Hurry(c) /\ l = c.left  BY HurryType, Fits DEF Task
<1> QED  BY Fits DEF CurInv

LEMMA NextEarlier ==
  ASSUME NEW n \in Task, NEW e \in Nat, NEW t \in Nat, NEW q \in Nat, NextInv(n, e, t, q),
         NEW r \in Nat, r <= q
  PROVE  NextInv(n, e, t, r)
<1> PICK h \in Nat, l \in Nat : h = Hurry(n) /\ l = n.left  BY HurryType, Fits DEF Task
<1> QED  BY Fits DEF NextInv

\* A step of a task: a fault begins anew with time enough, and a step without one brings the end of a
\* task no further away.
LEMMA WatchGoes ==
  ASSUME NEW c \in Task, NEW u \in Task, NEW t \in Nat, NEW q \in Nat, NEW r \in Nat,
         WatchInv(c, t, q), InLimits(c), Goes(c, u, t, q, r)
  PROVE  WatchInv(u, t, r)
<1> PICK e \in Nat, b \in Nat : e = End(c.win) /\ b = Start(c.win) /\ u.win = c.win
  BY Windows DEF Task, Goes
<1> PICK h \in Nat, k \in Nat : h = Hurry(c) /\ k = Hurry(u)  BY HurryType
<1> PICK l \in Nat, m \in Nat : l = c.left /\ m = u.left  BY Fits DEF Task
<1>1. r <= q  BY DEF Goes
<1>2. WatchInv(c, t, r)  BY <1>1, WatchEarlier
<1>3. u.st = "opening" => r + m <= Bound
  BY <1>2 DEF Goes, WatchInv, Over
<1>4. ASSUME t < e, Troubled(u)
      PROVE  SoonFor(t, r, k + PauseMax) /\ (~Over(u) => r + k <= Notice + CallMax)
  <2>1. CASE r = 0 /\ k <= Notice + CallMax
    <3>1. k + PauseMax \in Nat /\ r + (k + PauseMax) <= Nearest  BY <2>1, Fits
    <3> QED  BY <2>1, <3>1, SoonForNear, Fits
  <2>2. CASE Troubled(c) /\ k <= h /\ (Over(c) => Over(u))
    <3>1. SoonFor(t, r, h + PauseMax) /\ (~Over(c) => r + h <= Notice + CallMax)
      BY <1>2, <1>4, <2>2 DEF WatchInv
    <3>2. h + PauseMax \in Nat /\ k + PauseMax \in Nat /\ k + PauseMax <= h + PauseMax  BY <2>2, Fits
    <3>3. SoonFor(t, r, k + PauseMax)  BY <3>1, <3>2, SoonForEarlier
    <3> QED  BY <2>2, <3>1, <3>3, Fits
  <2>3. (r = 0 /\ k <= Notice + CallMax) \/ (Troubled(c) /\ k <= h /\ (Over(c) => Over(u)))
    BY <1>4, Fits DEF Goes, Troubled, Dropping, Over, Hurry, InLimits
  <2> QED  BY <2>1, <2>2, <2>3
<1> QED  BY <1>2, <1>3, <1>4 DEF WatchInv

LEMMA CurGoes ==
  ASSUME NEW c \in Task, NEW u \in Task, NEW t \in Nat, NEW q \in Nat, NEW r \in Nat,
         CurInv(c, t, q), InLimits(c), Goes(c, u, t, q, r)
  PROVE  CurInv(u, t, r)
<1> PICK e \in Nat : e = End(c.win) /\ u.win = c.win  BY Windows DEF Task, Goes
<1> PICK h \in Nat, k \in Nat : h = Hurry(c) /\ k = Hurry(u)  BY HurryType
<1> PICK l \in Nat, m \in Nat : l = c.left /\ m = u.left  BY Fits DEF Task
<1>1. r <= q  BY DEF Goes
<1>2. CurInv(c, t, r)  BY <1>1, CurEarlier
<1>3. u.st = "opening" => r + m <= Bound /\ t + m <= e + CallMax
  BY <1>2 DEF Goes, CurInv, Over
<1>4. ASSUME t < e, Troubled(u)
      PROVE  r + k <= Notice + CallMax + (t - (e - Preload))
  <2>1. (r = 0 /\ k <= Notice + CallMax) \/ (Troubled(c) /\ k <= h)
    BY <1>4, Fits DEF Goes, Troubled, Dropping, Over, Hurry, InLimits
  <2> QED  BY <1>2, <1>4, <2>1, Fits DEF CurInv
<1>5. u.st = "open" => t <= e + Grace
  BY <1>2, Fits DEF CurInv, Goes, Over
<1>6. u.st = "persisting" => t + m <= e + Grace + CallMax
  BY <1>2, Fits DEF CurInv, Goes, Over
<1>7. u.st = "closing" => t + m <= e + Grace + 2 * CallMax
  BY <1>2, Fits DEF CurInv, Goes, Over, Dropping
<1>8. Over(u) => t <= e + Grace + 2 * CallMax
  BY <1>2, Fits DEF CurInv, Goes, Over
<1> QED  BY <1>2, <1>3, <1>4, <1>5, <1>6, <1>7, <1>8 DEF CurInv

LEMMA NextGoesOn ==
  ASSUME NEW n \in Task, NEW u \in Task, NEW e \in Nat, NEW t \in Nat, NEW q \in Nat, NEW r \in Nat,
         NextInv(n, e, t, q), InLimits(n), Goes(n, u, t, q, r), e - Preload <= t, t < End(n.win)
  PROVE  NextInv(u, e, t, r)
<1> PICK h \in Nat, k \in Nat : h = Hurry(n) /\ k = Hurry(u)  BY HurryType
<1> PICK l \in Nat, m \in Nat : l = n.left /\ m = u.left  BY Fits DEF Task
<1> PICK f \in Nat : f = End(n.win)  BY Windows DEF Task
<1>1. r <= q  BY DEF Goes
<1>2. NextInv(n, e, t, r)  BY <1>1, NextEarlier
<1>3. u.st = "opening" => t + m < e \/ r + m <= Bound
  BY <1>2 DEF Goes, NextInv, Over
<1>4. ASSUME Troubled(u)
      PROVE  r <= t - (e - Preload) /\ (~Over(u) => r + k <= Notice + CallMax)
  <2>1. (r = 0 /\ k <= Notice + CallMax) \/ (Troubled(n) /\ k <= h /\ (Over(n) => Over(u)))
    BY <1>4, Fits DEF Goes, Troubled, Dropping, Over, Hurry, InLimits
  <2> QED  BY <1>2, <1>4, <2>1, Fits DEF NextInv
<1> QED  BY <1>3, <1>4 DEF NextInv

\* Time.
LEMMA HurryTick ==
  ASSUME NEW c \in Task, NEW u \in Task, Passes(c, u), Troubled(c), ~Over(c)
  PROVE  Hurry(u) + 1 = Hurry(c)
<1> PICK l \in Nat, m \in Nat : l = c.left /\ m = u.left  BY Fits DEF Task
<1> QED  BY Fits DEF Passes, Hurried, Troubled, Dropping, Over, Hurry

LEMMA WatchTick ==
  ASSUME NEW c \in Task, NEW u \in Task, NEW t \in Nat, NEW q \in Nat, NEW r \in Nat,
         WatchInv(c, t, q), Passes(c, u), t < End(c.win) - Preload, ~Over(c), r <= q + 1
  PROVE  WatchInv(u, t + 1, r)
<1> PICK e \in Nat, b \in Nat : e = End(c.win) /\ b = Start(c.win) /\ u.win = c.win
  BY Windows DEF Task, Passes
<1> PICK h \in Nat, k \in Nat : h = Hurry(c) /\ k = Hurry(u)  BY HurryType
<1> PICK l \in Nat, m \in Nat : l = c.left /\ m = u.left  BY Fits DEF Task
<1>1. u.st = "opening" => r + m <= Bound
  BY Fits DEF WatchInv, Passes, Hurried
<1>2. ASSUME Troubled(u)
      PROVE  SoonFor(t + 1, r, k + PauseMax) /\ r + k <= Notice + CallMax
  <2>1. Troubled(c)  BY <1>2 DEF Passes, Troubled, Dropping, Over
  <2>2. k + 1 = h  BY <2>1, HurryTick
  <2>3. SoonFor(t, q, h + PauseMax) /\ q + h <= Notice + CallMax  BY <2>1, Fits DEF WatchInv
  <2>4. h + PauseMax \in Nat /\ k + PauseMax \in Nat /\ (k + PauseMax) + 1 <= h + PauseMax  BY <2>2, Fits
  <2>5. SoonFor(t + 1, r, k + PauseMax)  BY <2>3, <2>4, SoonForTick
  <2>6. r + k <= Notice + CallMax  BY <2>2, <2>3, Fits
  <2> QED  BY <2>5, <2>6
<1> QED  BY <1>1, <1>2, Fits DEF WatchInv

LEMMA CurTick ==
  ASSUME NEW c \in Task, NEW u \in Task, NEW t \in Nat, NEW q \in Nat, NEW r \in Nat,
         CurInv(c, t, q), Passes(c, u), ~(c.st = "open" /\ t >= End(c.win) + Grace), r <= q + 1,
         Over(c) => t < End(c.win) + CallMax
  PROVE  CurInv(u, t + 1, r)
<1> PICK e \in Nat : e = End(c.win) /\ u.win = c.win  BY Windows DEF Task, Passes
<1> PICK h \in Nat, k \in Nat : h = Hurry(c) /\ k = Hurry(u)  BY HurryType
<1> PICK l \in Nat, m \in Nat : l = c.left /\ m = u.left  BY Fits DEF Task
<1>1. u.st = "opening" => r + m <= Bound /\ (t + 1) + m <= e + CallMax
  BY Fits DEF CurInv, Passes, Hurried
<1>2. ASSUME t + 1 < e, Troubled(u)
      PROVE  r + k <= Notice + CallMax + ((t + 1) - (e - Preload))
  <2>1. Troubled(c)  BY <1>2 DEF Passes, Troubled, Dropping, Over
  <2>2. q + h <= Notice + CallMax + (t - (e - Preload))  BY <1>2, <2>1, Fits DEF CurInv
  <2>3. CASE Over(c)
    <3>1. k = 0 /\ h = 0  BY <2>3 DEF Passes, Over, Hurry, Dropping
    <3> QED  BY <2>2, <3>1, Fits
  <2>4. CASE ~Over(c)
    <3>1. k + 1 = h  BY <2>1, <2>4, HurryTick
    <3> QED  BY <2>2, <3>1, Fits
  <2> QED  BY <2>3, <2>4
<1>3. u.st = "open" => t + 1 <= e + Grace
  BY Fits DEF CurInv, Passes
<1>4. u.st = "persisting" => (t + 1) + m <= e + Grace + CallMax
  BY Fits DEF CurInv, Passes, Hurried
<1>5. u.st = "closing" => (t + 1) + m <= e + Grace + 2 * CallMax
  BY Fits DEF CurInv, Passes, Hurried
<1>6. Over(u) => t + 1 <= e + Grace + 2 * CallMax
  BY Fits DEF Passes, Over
<1> QED  BY <1>1, <1>2, <1>3, <1>4, <1>5, <1>6, Fits DEF CurInv

LEMMA NextTick ==
  ASSUME NEW n \in Task, NEW u \in Task, NEW e \in Nat, NEW t \in Nat, NEW q \in Nat, NEW r \in Nat,
         NextInv(n, e, t, q), Passes(n, u), r <= q + 1
  PROVE  NextInv(u, e, t + 1, r)
<1> PICK h \in Nat, k \in Nat : h = Hurry(n) /\ k = Hurry(u)  BY HurryType
<1> PICK l \in Nat, m \in Nat : l = n.left /\ m = u.left  BY Fits DEF Task
<1>1. u.st = "opening" => (t + 1) + m < e \/ r + m <= Bound
  BY Fits DEF NextInv, Passes, Hurried
<1>2. ASSUME Troubled(u)
      PROVE  r <= (t + 1) - (e - Preload) /\ (~Over(u) => r + k <= Notice + CallMax)
  <2>1. Troubled(n) /\ (Over(n) <=> Over(u))  BY <1>2 DEF Passes, Troubled, Dropping, Over
  <2>2. q <= t - (e - Preload) /\ (~Over(n) => q + h <= Notice + CallMax)  BY <2>1 DEF NextInv
  <2>3. ~Over(n) => k + 1 = h  BY <2>1, HurryTick
  <2> QED  BY <2>1, <2>2, <2>3, Fits
<1> QED  BY <1>1, <1>2 DEF NextInv

----------------------------------------------------------------------------
(* From one await of the loop to the next. *)

Halted(t) == Over(t) \/ t.st = "closing"

LEMMA NewTaskIs ==
  ASSUME NEW w \in Nat
  PROVE  /\ NewTask(w) \in Task /\ NewTask(w).st = "opening" /\ NewTask(w).win = w
         /\ NewTask(w).left = CallMax /\ NewTask(w).sampler = "on" /\ InLimits(NewTask(w))
<1>1. NewTask(w) \in Task /\ NewTask(w).st = "opening" /\ NewTask(w).win = w  BY NewTaskType
<1>2. NewTask(w).left = CallMax /\ NewTask(w).sampler = "on"  BY DEF NewTask, Free
<1> QED  BY <1>1, <1>2, Fits DEF InLimits

LEMMA CancelledHalts ==
  ASSUME NEW t \in Task, InLimits(t)
  PROVE  /\ Cancelled(t) \in Task /\ InLimits(Cancelled(t))
         /\ t.st # "free" => Halted(Cancelled(t)) /\ Hurry(Cancelled(t)) <= CallMax
<1>1. CASE t.st \in {"opening", "open", "persisting"}
  <2>1. Cancelled(t) = Ending(t, "cancelled")  BY <1>1 DEF Cancelled
  <2>2. Ending(t, "cancelled") \in Task /\ Ending(t, "cancelled").st = "closing"  BY EndingType
  <2>3. Ending(t, "cancelled").left = CallMax  BY DEF Ending, Free
  <2> QED  BY <2>1, <2>2, <2>3, Fits DEF InLimits, Halted, Hurry, Dropping
<1>2. CASE t.st = "closing"
  <2>1. Cancelled(t) = [t EXCEPT !.out = "cancelled"]  BY <1>2 DEF Cancelled
  <2> QED  BY <1>2, <2>1, Fits DEF Task, InLimits, Halted, Hurry, Dropping
<1>3. CASE t.st \notin {"opening", "open", "persisting", "closing"}
  <2>1. Cancelled(t) = t  BY <1>3 DEF Cancelled
  <2> QED  BY <1>3, <2>1, Fits DEF Task, Halted, Over, Hurry, Dropping
<1> QED  BY <1>1, <1>2, <1>3

LEMMA HaltedGoes ==
  ASSUME NEW c \in Task, NEW u \in Task, NEW t, NEW q, NEW r, Halted(c), Goes(c, u, t, q, r)
  PROVE  Halted(u) /\ Hurry(u) <= Hurry(c)
BY Fits DEF Halted, Goes, Over, Dropping, Hurry, Task

LEMMA AnswerableEarlier ==
  ASSUME NEW t \in Nat, NEW q \in Nat, NEW w \in Nat, Answerable(t, q, w), NEW r \in Nat, r <= q
  PROVE  Answerable(t, r, w)
<1>1. CallMax + PauseMax \in Nat  BY Fits
<1>2. SoonFor(t, q, CallMax + PauseMax) => SoonFor(t, r, CallMax + PauseMax)  BY <1>1, SoonForEarlier
<1> QED  BY <1>2, Fits, Windows DEF Answerable

\* A market is found.
LEMMA FoundInTime ==
  ASSUME NEW t \in Nat, NEW q \in Nat, NEW w \in Nat, Answerable(t, q, w), Start(w) <= t
  PROVE  WatchInv(NewTask(w), t, q)
<1> PICK c \in Task : c = NewTask(w) /\ c.st = "opening" /\ c.win = w /\ c.left = CallMax /\ c.sampler = "on"
  BY NewTaskIs
<1>1. ~Troubled(c)  BY DEF Troubled, Dropping, Over
<1> QED  BY <1>1, Fits, Windows DEF WatchInv, Answerable

\* The preload begins.
LEMMA PreloadInTime ==
  ASSUME NEW c \in Task, NEW t \in Nat, NEW q \in Nat, WatchInv(c, t, q), InLimits(c), ~Over(c),
         End(c.win) - Preload <= t, t < End(c.win)
  PROVE  CurInv(c, t, q) /\ (t + 2 * CallMax < End(c.win) \/ q + 2 * CallMax <= Bound)
<1> PICK e \in Nat : e = End(c.win)  BY Windows DEF Task
<1> PICK h \in Nat, l \in Nat : h = Hurry(c) /\ l = c.left  BY HurryType, Fits DEF Task
<1>1. Troubled(c) => q + h <= Notice + CallMax + (t - (e - Preload))  BY Fits DEF WatchInv
<1>2. CurInv(c, t, q)  BY <1>1, Fits DEF CurInv, WatchInv, InLimits
<1>3. t + 2 * CallMax < e \/ q + 2 * CallMax <= Bound  BY Fits DEF WatchInv
<1> QED  BY <1>2, <1>3

\* The present task is over, or is cancelled as its window is.
LEMMA WatchEnds ==
  ASSUME NEW c \in Task, NEW t \in Nat, NEW q \in Nat, WatchInv(c, t, q)
  PROVE  /\ Over(c) => SoonFor(t, q, PauseMax)
         /\ t >= End(c.win) => SoonFor(t, q, CallMax + PauseMax)
<1> PICK e \in Nat : e = End(c.win)  BY Windows DEF Task
<1>1. t >= e => SoonFor(t, q, CallMax + PauseMax)  BY DEF WatchInv
<1>2. SoonFor(t, q, CallMax + PauseMax) => SoonFor(t, q, PauseMax)
  <2>1. CallMax + PauseMax \in Nat /\ PauseMax \in Nat /\ PauseMax <= CallMax + PauseMax  BY Fits
  <2> QED  BY <2>1, SoonForEarlier
<1>3. ASSUME Over(c), t < e PROVE SoonFor(t, q, PauseMax)
  <2>1. Hurry(c) = 0 /\ Troubled(c)  BY <1>3 DEF Hurry, Over, Dropping, Troubled
  <2>2. Hurry(c) + PauseMax = PauseMax  BY <2>1, Fits
  <2>3. SoonFor(t, q, Hurry(c) + PauseMax)  BY <1>3, <2>1 DEF WatchInv
  <2> QED  BY <2>2, <2>3
<1> QED  BY <1>1, <1>2, <1>3

LEMMA CurLasts ==
  ASSUME NEW c \in Task, NEW t \in Nat, NEW q \in Nat, CurInv(c, t, q), c.st # "free"
  PROVE  t <= End(c.win) + Grace + 2 * CallMax /\ t + Preload <= End(c.win + 1) /\ t < End(c.win + 1)
<1> PICK e \in Nat : e = End(c.win) /\ End(c.win + 1) = e + Window  BY Windows DEF Task
<1> PICK l \in Nat : l = c.left  BY Fits DEF Task
<1>1. t <= e + Grace + 2 * CallMax  BY Fits DEF CurInv, Over, Task
<1> QED  BY <1>1, Fits

\* The present task fails before the end of its window; the next one is cancelled with it.
LEMMA AwaitEnds ==
  ASSUME NEW c \in Task, NEW t \in Nat, NEW q \in Nat, CurInv(c, t, q), Over(c), t < End(c.win)
  PROVE  SoonFor(t, q, CallMax + PauseMax)
<1> PICK w \in Nat, e \in Nat : /\ w = c.win + 1 /\ e = End(c.win) /\ Start(w) = e /\ End(w) = e + Window
  BY Windows DEF Task
<1>1. Hurry(c) = 0 /\ Troubled(c)  BY DEF Hurry, Over, Dropping, Troubled
<1>2. q <= Notice + CallMax + (t - (e - Preload))  BY <1>1, Fits DEF CurInv
<1> SUFFICES ASSUME NEW i \in 0..(CallMax + PauseMax) PROVE Soon(t + i, q + i)  BY DEF SoonFor
<1>3. t + i \in Nat /\ q + i \in Nat  BY Fits
<1>4. CASE t + i < e
  <2>1. q + i <= Nearest  BY <1>2, <1>4, Fits
  <2> QED  BY <1>3, <2>1, SoonNear
<1>5. CASE t + i >= e
  <2>1. (t + i) + CallMax + Preload < End(w)  BY Fits
  <2>2. q + i <= Nearest + PauseMax + 2 * CallMax  BY <1>2, Fits
  <2> QED  BY <1>3, <1>5, <2>1, <2>2, SoonInside
<1> QED  BY <1>3, <1>4, <1>5

\* The next task becomes the present one.
LEMMA RollsInTime ==
  ASSUME NEW c \in Task, NEW n \in Task, NEW t \in Nat, NEW q \in Nat,
         CurInv(c, t, q), NextInv(n, End(c.win), t, q), Over(c), n.win = c.win + 1
  PROVE  WatchInv(n, t, q)
<1> PICK w \in Nat, e \in Nat : /\ w = n.win /\ e = End(c.win) /\ Start(w) = e /\ End(w) = e + Window
  BY Windows DEF Task
<1> PICK h \in Nat, l \in Nat : h = Hurry(n) /\ l = n.left  BY HurryType, Fits DEF Task
<1>1. Hurry(c) = 0 /\ Troubled(c)  BY DEF Hurry, Over, Dropping, Troubled
<1>2. t < e => q <= Notice + CallMax + (t - (e - Preload))  BY <1>1, Fits DEF CurInv
<1>3. t <= e + Grace + 2 * CallMax  BY DEF CurInv
<1>4. n.st = "opening" => q + l <= Bound  BY <1>2, Fits DEF NextInv
<1>5. t < e => q + (e - t) <= Bound  BY <1>2, Fits
<1>6. ASSUME Troubled(n) PROVE SoonFor(t, q, h + PauseMax) /\ (~Over(n) => q + h <= Notice + CallMax)
  <2>1. CASE ~Over(n)
    <3>1. q + h <= Notice + CallMax  BY <1>6, <2>1 DEF NextInv
    <3>2. h + PauseMax \in Nat /\ q + (h + PauseMax) <= Nearest  BY <3>1, Fits
    <3> QED  BY <2>1, <3>1, <3>2, SoonForNear
  <2>2. CASE Over(n)
    <3>1. h = 0 /\ q <= t - (e - Preload)  BY <1>6, <2>2 DEF Hurry, Over, Dropping, NextInv
    <3> SUFFICES ASSUME NEW i \in 0..PauseMax PROVE Soon(t + i, q + i)  BY <2>2, <3>1, Fits DEF SoonFor
    <3>2. t + i \in Nat /\ q + i \in Nat  BY Fits
    <3>3. CASE t + i < e
      <4>1. q + i <= Nearest  BY <3>1, <3>3, Fits
      <4> QED  BY <3>2, <4>1, SoonNear
    <3>4. CASE t + i >= e
      <4>1. (t + i) + CallMax + Preload < End(w)  BY <1>3, Fits
      <4>2. q + i <= Nearest + PauseMax + 2 * CallMax  BY <1>3, <3>1, Fits
      <4> QED  BY <3>2, <3>4, <4>1, <4>2, SoonInside
    <3> QED  BY <3>2, <3>3, <3>4
  <2> QED  BY <2>1, <2>2
<1> QED  BY <1>3, <1>4, <1>5, <1>6, Fits DEF WatchInv

----------------------------------------------------------------------------
(* The invariant of the way back. *)

WayBack ==
  /\ loop \in {"starting", "pausing"} => SoonFor(now, quiet, left)
  /\ loop \in {"finding", "rejoining"} =>
       Start(target) <= now /\ \A i \in 0..left : Answerable(now + i, quiet + i, target)
  /\ loop = "watching" => WatchInv(tasks[cur], now, quiet)
  /\ loop = "preloading" =>
       /\ CurInv(tasks[cur], now, quiet) /\ now + left < End(tasks[cur].win) + CallMax
       /\ now + left + CallMax < End(tasks[cur].win) \/ quiet + left + CallMax <= Bound
  /\ loop = "awaiting" =>
       /\ tasks[nxt].win = tasks[cur].win + 1
       /\ CurInv(tasks[cur], now, quiet) /\ NextInv(tasks[nxt], End(tasks[cur].win), now, quiet)
  /\ loop = "dropCur" =>
       /\ cur # NoTask /\ Halted(tasks[cur])
       /\ SoonFor(now, quiet, Hurry(tasks[cur]) + PauseMax)
       /\ nxt # NoTask => SoonFor(now, quiet, Hurry(tasks[cur]) + (CallMax + PauseMax))
  /\ loop = "dropNext" =>
       /\ nxt = NoTask => SoonFor(now, quiet, PauseMax)
       /\ nxt # NoTask => Halted(tasks[nxt]) /\ SoonFor(now, quiet, Hurry(tasks[nxt]) + PauseMax)
  /\ loop \in {"leaveCur", "leaveNext"} => cur = NoTask /\ nxt = NoTask /\ quiet = 0
  /\ loop = "down" => quiet + left <= 1

Limited == \A s \in Slots : InLimits(tasks[s])

ResumeInv == Inv /\ Limited /\ (stop = Never => WayBack)

LEMMA EndingIs ==
  ASSUME NEW t \in Task, NEW how \in {"returned", "failed", "cancelled"}
  PROVE  Ending(t, how).st = "closing" /\ Ending(t, how).win = t.win /\ Ending(t, how).left = CallMax
BY DEF Ending, Free

LEMMA TaskGoes ==
  ASSUME Inv, Limited, NEW s \in Slots, TaskStep(s)
  PROVE  /\ Goes(tasks[s], tasks'[s], now, quiet, quiet') /\ tasks'[s] \in Task
         /\ \A r \in Slots \ {s} : tasks'[r] = tasks[r]
         /\ tasks[s].st # "free" /\ tasks'[s].st # "free"
<1> PICK t \in Task : t = tasks[s]  BY DEF Inv, TypeOK
<1> DEFINE u == tasks'[s]
<1>1. /\ t.st # "free" /\ u.st # "free" /\ u.win = t.win /\ u \in Task
      /\ \A r \in Slots \ {s} : tasks'[r] = tasks[r]
  BY TaskStepMoves DEF Moves, Inv, TypeOK
<1>2. \A v : TaskBecomes(s, v) => u = v  BY DEF TaskBecomes, Inv, TypeOK
<1>3. (Fault => quiet' = 0) /\ (NoFault => quiet' = quiet)  BY DEF Fault, NoFault
<1>4. InLimits(t)  BY DEF Limited
<1> HIDE DEF u
<1>5. CASE Opened(s)
  <2>1. u = [t EXCEPT !.st = "open"] /\ t.st = "opening" /\ quiet' = quiet  BY <1>2, <1>3, <1>5 DEF Opened
  <2>2. u.st = "open" /\ u.sampler = "on"  BY <1>4, <2>1 DEF Task, InLimits
  <2> QED  BY <1>1, <2>1, <2>2 DEF Goes, u
<1>6. CASE OpenFails(s)
  <2>1. u = [t EXCEPT !.st = "failed"] /\ t.st = "opening" /\ quiet' = 0  BY <1>2, <1>3, <1>6 DEF OpenFails
  <2>2. u.st = "failed"  BY <2>1 DEF Task
  <2> QED  BY <1>1, <2>1, <2>2 DEF Goes, u
<1>7. CASE Sample(s) \/ SampleLands(s) \/ SampleCut(s)
  <2>1. u = t /\ quiet' = quiet  BY <1>3, <1>7 DEF Sample, SampleLands, SampleCut, u
  <2> QED  BY <1>1, <2>1 DEF Goes, u
<1>10. CASE SamplerFails(s)
  <2>1. u = [t EXCEPT !.sampler = "failed", !.left = IF t.st = "open" THEN Notice ELSE t.left]
    BY <1>2, <1>10 DEF SamplerFails
  <2>2. t.st \in {"open", "persisting"} /\ quiet' = 0  BY <1>3, <1>10 DEF SamplerFails
  <2>3. /\ u.st = t.st /\ u.sampler = "failed"
        /\ u.left = IF t.st = "open" THEN Notice ELSE t.left
    BY <2>1 DEF Task
  <2> QED  BY <1>1, <2>2, <2>3 DEF Goes, u
<1>11. CASE Noticed(s)
  <2>1. u = Ending(t, "failed") /\ Dropping(t) /\ quiet' = quiet
    BY <1>2, <1>3, <1>11 DEF Noticed, Dropping
  <2> QED  BY <1>1, <2>1, EndingIs DEF Goes, u
<1>12. CASE Resolved(s)
  <2>1. u = [t EXCEPT !.st = "persisting", !.left = CallMax] /\ t.st = "open"  BY <1>2, <1>12 DEF Resolved
  <2>2. u.st = "persisting" /\ u.left = CallMax  BY <2>1 DEF Task
  <2>3. quiet' = 0 \/ (quiet' = quiet /\ ~(now < End(t.win)))  BY <1>3, <1>12 DEF Resolved
  <2>4. quiet' = 0 \/ (quiet' = quiet /\ now >= End(t.win))
    <3>1. End(t.win) \in Nat /\ now \in Nat  BY Windows DEF Task, Inv, TypeOK
    <3> QED  BY <2>3, <3>1
  <2> QED  BY <1>1, <2>1, <2>2, <2>4 DEF Goes, u
<1>13. CASE Persisted(s)
  <2>1. u = Ending(t, "returned") /\ Dropping(t) /\ quiet' = quiet
    BY <1>2, <1>3, <1>13 DEF Persisted, Dropping
  <2> QED  BY <1>1, <2>1, EndingIs DEF Goes, u
<1>14. CASE GraceOver(s)
  <2>1. u = Ending(t, "returned") /\ t.st = "open" /\ quiet' = quiet /\ now >= End(t.win) + Grace
    BY <1>2, <1>3, <1>14 DEF GraceOver, GraceIsOver
  <2>2. now >= End(t.win)
    <3>1. End(t.win) \in Nat /\ now \in Nat  BY Windows DEF Task, Inv, TypeOK
    <3> QED  BY <2>1, <3>1, Fits
  <2> QED  BY <1>1, <2>1, <2>2, EndingIs DEF Goes, u
<1>15. CASE SocketCloses(s)
  <2>1. PICK how \in {"returned", "failed", "cancelled"} : u = Ending(t, how)
    BY <1>2, <1>15 DEF SocketCloses
  <2>2. t.st = "open" /\ quiet' = 0  BY <1>3, <1>15 DEF SocketCloses
  <2> QED  BY <1>1, <2>1, <2>2, EndingIs DEF Goes, u
<1>16. CASE Closed(s)
  <2>1. u = [Free EXCEPT !.st = t.out, !.win = t.win] /\ t.st = "closing" /\ quiet' = quiet
    BY <1>2, <1>3, <1>16 DEF Closed
  <2>2. u.st = t.out  BY <2>1 DEF Free
  <2>3. Over(u)  BY <2>2 DEF Over, Task
  <2> QED  BY <1>1, <2>1, <2>3 DEF Goes, u
<1> QED
  BY <1>1, <1>5, <1>6, <1>7, <1>10, <1>11, <1>12, <1>13, <1>14, <1>15, <1>16 DEF TaskStep, u

----------------------------------------------------------------------------
(* Each step keeps the way back. *)

LEMMA InvFacts ==
  ASSUME Inv
  PROVE  /\ now \in Nat /\ left \in Nat /\ quiet \in Nat /\ target \in Nat /\ tasks \in [Slots -> Task]
         /\ cur \in Slots \cup {NoTask} /\ nxt \in Slots \cup {NoTask} /\ NoTask \notin Slots
         /\ \A s \in Slots : tasks[s].st # "free" <=> s \in {cur, nxt}
         /\ \A s \in Slots : tasks[s].win \in Nat
BY BoundType DEF Inv, TypeOK, TakenInv, Slots, NoTask, Task

LEMMA CollectsInTime ==
  ASSUME ResumeInv, Collect
  PROVE  Limited' /\ (stop' = Never => WayBack')
<1> PICK s \in Slots : TaskStep(s)  BY DEF Collect
<1> USE DEF ResumeInv
<1>1. /\ now' = now /\ loop' = loop /\ left' = left /\ cur' = cur /\ nxt' = nxt
      /\ target' = target /\ stop' = stop
  BY TaskStepFrame DEF TaskKeeps, control
<1>2. /\ Goes(tasks[s], tasks'[s], now, quiet, quiet') /\ tasks'[s] \in Task
      /\ \A r \in Slots \ {s} : tasks'[r] = tasks[r]
      /\ tasks[s].st # "free" /\ tasks'[s].win = tasks[s].win
  BY TaskGoes DEF Goes
<1>3. s \in {cur, nxt} /\ s # NoTask  BY <1>2, InvFacts
<1>4. now \in Nat /\ quiet \in Nat /\ quiet' \in Nat /\ quiet' <= quiet
  BY <1>2, InvFacts DEF Goes
<1>5. Limited'
  <2> SUFFICES ASSUME NEW r \in Slots PROVE InLimits(tasks'[r])  BY DEF Limited
  <2>1. InLimits(tasks[s]) /\ InLimits(tasks[r])  BY DEF Limited
  <2>2. InLimits(tasks'[s])  BY <1>2, <2>1, InvFacts, GoesInLimits
  <2> QED  BY <1>2, <2>1, <2>2
<1> SUFFICES ASSUME stop' = Never PROVE WayBack'  BY <1>5
<1>6. WayBack  BY <1>1
<1>7. loop \notin Lone  BY <1>3 DEF Inv, LoopInv
<1>8. InLimits(tasks[s]) /\ tasks[s] \in Task  BY InvFacts DEF Limited
<1>9. ASSUME loop = "watching" PROVE WatchInv(tasks'[cur], now, quiet')
  <2>1. s = cur  BY <1>3, <1>9 DEF Inv, LoopInv
  <2> QED  BY <1>2, <1>4, <1>6, <1>8, <1>9, <2>1, WatchGoes DEF WayBack
<1>10. ASSUME loop = "preloading"
       PROVE  /\ CurInv(tasks'[cur], now, quiet') /\ now + left < End(tasks'[cur].win) + CallMax
              /\ now + left + CallMax < End(tasks'[cur].win) \/ quiet' + left + CallMax <= Bound
  <2>1. s = cur  BY <1>3, <1>10 DEF Inv, LoopInv
  <2>2. CurInv(tasks'[cur], now, quiet')  BY <1>2, <1>4, <1>6, <1>8, <1>10, <2>1, CurGoes DEF WayBack
  <2>3. tasks'[cur].win = tasks[cur].win  BY <1>2, <2>1
  <2>4. quiet + left + CallMax <= Bound => quiet' + left + CallMax <= Bound  BY <1>4, InvFacts, Fits
  <2> QED  BY <1>6, <1>10, <2>2, <2>3, <2>4 DEF WayBack
<1>11. ASSUME loop = "awaiting"
       PROVE  /\ tasks'[nxt].win = tasks'[cur].win + 1
              /\ CurInv(tasks'[cur], now, quiet') /\ NextInv(tasks'[nxt], End(tasks'[cur].win), now, quiet')
  <2>1. cur \in Slots /\ nxt \in Slots /\ cur # nxt  BY <1>11, InvFacts DEF Inv, LoopInv, ApartInv
  <2>2. /\ tasks[nxt].win = tasks[cur].win + 1
        /\ CurInv(tasks[cur], now, quiet) /\ NextInv(tasks[nxt], End(tasks[cur].win), now, quiet)
    BY <1>6, <1>11 DEF WayBack
  <2>3. tasks[cur] \in Task /\ tasks[nxt] \in Task /\ tasks[cur].st # "free"  BY <2>1, InvFacts
  <2>4. End(tasks[cur].win) \in Nat  BY <2>1, InvFacts, Windows
  <2>5. CASE s = cur
    <3>1. CurInv(tasks'[cur], now, quiet')  BY <1>2, <1>4, <1>8, <2>2, <2>5, CurGoes
    <3>2. NextInv(tasks[nxt], End(tasks[cur].win), now, quiet')  BY <1>4, <2>2, <2>3, <2>4, NextEarlier
    <3> QED  BY <1>2, <2>1, <2>2, <2>5, <3>1, <3>2
  <2>6. CASE s = nxt
    <3>1. CurInv(tasks[cur], now, quiet')  BY <1>4, <2>2, <2>3, CurEarlier
    <3>2. now < End(tasks[nxt].win)  BY <1>4, <2>2, <2>3, CurLasts
    <3>3. End(tasks[cur].win) - Preload <= now  BY <2>2 DEF CurInv
    <3>4. NextInv(tasks'[nxt], End(tasks[cur].win), now, quiet')
      BY <1>2, <1>4, <1>8, <2>2, <2>4, <2>6, <3>2, <3>3, NextGoesOn
    <3> QED  BY <1>2, <2>1, <2>2, <2>6, <3>1, <3>4
  <2> QED  BY <1>3, <2>5, <2>6
<1>12. ASSUME loop = "dropCur"
       PROVE  /\ cur # NoTask /\ Halted(tasks'[cur])
              /\ SoonFor(now, quiet', Hurry(tasks'[cur]) + PauseMax)
              /\ nxt # NoTask => SoonFor(now, quiet', Hurry(tasks'[cur]) + (CallMax + PauseMax))
  <2>1. /\ cur # NoTask /\ cur \in Slots /\ Halted(tasks[cur])
        /\ SoonFor(now, quiet, Hurry(tasks[cur]) + PauseMax)
        /\ nxt # NoTask => SoonFor(now, quiet, Hurry(tasks[cur]) + (CallMax + PauseMax))
    BY <1>6, <1>12, InvFacts DEF WayBack
  <2>2. tasks[cur] \in Task /\ tasks'[cur] \in Task  BY <1>2, <2>1, InvFacts
  <2>3. Halted(tasks'[cur]) /\ Hurry(tasks'[cur]) <= Hurry(tasks[cur])
    <3>1. CASE s = cur  BY <1>2, <2>1, <2>2, <3>1, HaltedGoes
    <3>2. CASE s # cur
      <4>1. Hurry(tasks[cur]) \in Nat  BY <2>2, HurryType
      <4> QED  BY <1>2, <2>1, <3>2, <4>1
    <3> QED  BY <3>1, <3>2
  <2>4. PICK h \in Nat, k \in Nat : h = Hurry(tasks[cur]) /\ k = Hurry(tasks'[cur]) /\ k <= h
    BY <2>2, <2>3, HurryType
  <2>5. /\ h + PauseMax \in Nat /\ k + PauseMax \in Nat /\ k + PauseMax <= h + PauseMax
        /\ h + (CallMax + PauseMax) \in Nat /\ k + (CallMax + PauseMax) \in Nat
        /\ k + (CallMax + PauseMax) <= h + (CallMax + PauseMax)
    BY <2>4, Fits
  <2> QED  BY <1>4, <2>1, <2>3, <2>4, <2>5, SoonForEarlier
<1>13. ASSUME loop = "dropNext"
       PROVE  nxt # NoTask /\ Halted(tasks'[nxt]) /\ SoonFor(now, quiet', Hurry(tasks'[nxt]) + PauseMax)
  <2>1. s = nxt  BY <1>3, <1>13 DEF Inv, LoopInv
  <2>2. Halted(tasks[s]) /\ SoonFor(now, quiet, Hurry(tasks[s]) + PauseMax)
    BY <1>3, <1>6, <1>13, <2>1 DEF WayBack
  <2>3. Halted(tasks'[s]) /\ Hurry(tasks'[s]) <= Hurry(tasks[s])  BY <1>2, <1>8, <2>2, HaltedGoes
  <2>4. PICK h \in Nat, k \in Nat : h = Hurry(tasks[s]) /\ k = Hurry(tasks'[s]) /\ k <= h
    BY <1>2, <1>8, <2>3, HurryType
  <2>5. h + PauseMax \in Nat /\ k + PauseMax \in Nat /\ k + PauseMax <= h + PauseMax  BY <2>4, Fits
  <2> QED  BY <1>3, <1>4, <2>1, <2>2, <2>3, <2>4, <2>5, SoonForEarlier
<1>14. loop \notin {"leaveCur", "leaveNext"}  BY <1>3, <1>6 DEF WayBack
<1> QED
  BY <1>1, <1>7, <1>9, <1>10, <1>11, <1>12, <1>13, <1>14 DEF WayBack, Lone

LEMMA AnswerableLater ==
  ASSUME NEW n \in Nat, NEW q \in Nat, NEW l \in Nat, NEW r \in Nat, NEW m \in Nat, NEW w \in Nat,
         r <= q + 1, m + 1 = l, \A i \in 0..l : Answerable(n + i, q + i, w)
  PROVE  \A i \in 0..m : Answerable((n + 1) + i, r + i, w)
<1> TAKE i \in 0..m
<1>1. /\ i + 1 \in 0..l /\ (n + 1) + i = n + (i + 1) /\ n + (i + 1) \in Nat
      /\ r + i \in Nat /\ q + (i + 1) \in Nat /\ r + i <= q + (i + 1)
  OBVIOUS
<1>2. Answerable(n + (i + 1), q + (i + 1), w)  BY <1>1
<1>3. Answerable(n + (i + 1), r + i, w)  BY <1>1, <1>2, AnswerableEarlier
<1> QED  BY <1>1, <1>3

LEMMA TimeForSum ==
  ASSUME NEW q \in Nat, NEW l \in Nat, NEW r \in Nat, NEW m \in Nat, r <= q + 1, m + 1 = l, q + l <= 1
  PROVE  r + m <= 1
OBVIOUS

\* Time passes only when nothing is due.
LEMMA TicksInTime ==
  ASSUME ResumeInv, Tick
  PROVE  Limited' /\ (stop' = Never => WayBack')
<1> USE DEF ResumeInv
<1>1. /\ now' = now + 1 /\ left' = (IF left > 0 THEN left - 1 ELSE 0)
      /\ loop' = loop /\ cur' = cur /\ nxt' = nxt /\ target' = target
      /\ quiet' = (IF quiet > Bound THEN quiet ELSE quiet + 1)
      /\ stop' = (IF stop > 0 THEN stop - 1 ELSE stop)
  BY DEF Tick
<1>2. \A s \in Slots : Passes(tasks[s], tasks'[s]) /\ tasks'[s] \in Task
  <2> TAKE s \in Slots
  <2>1. PICK t \in Task : t = tasks[s]  BY InvFacts
  <2>2. t.left \in 0..(CallMax + Notice)  BY <2>1 DEF Task
  <2>3. tasks'[s] = IF Hurried(t) THEN [t EXCEPT !.left = t.left - 1] ELSE t  BY <2>1 DEF Tick
  <2>4. Hurried(t) => t.left # 0  BY <2>1 DEF Tick, Due
  <2>5. CASE Hurried(t)
    <3>1. t.left >= 1  BY <2>2, <2>4, <2>5, Fits
    <3>2. t.left - 1 \in 0..(CallMax + Notice)  BY <2>2, <3>1, Fits
    <3>3. [t EXCEPT !.left = t.left - 1] \in Task  BY <3>2 DEF Task
    <3>4. LET u == [t EXCEPT !.left = t.left - 1]
          IN  u.win = t.win /\ u.st = t.st /\ u.sampler = t.sampler /\ u.left = t.left - 1
      BY DEF Task
    <3> QED  BY <2>1, <2>3, <2>5, <3>1, <3>3, <3>4 DEF Passes
  <2>6. CASE ~Hurried(t)
    BY <2>1, <2>3, <2>6 DEF Passes
  <2> QED  BY <2>5, <2>6
<1>3. /\ now \in Nat /\ quiet \in Nat /\ quiet' \in Nat /\ quiet' <= quiet + 1
      /\ left \in Nat /\ left' \in Nat /\ (left # 0 => left' + 1 <= left)
  BY <1>1, InvFacts, BoundType
<1>0. PICK n \in Nat, q \in Nat, l \in Nat, r \in Nat, m \in Nat :
        /\ n = now /\ q = quiet /\ l = left /\ r = quiet' /\ m = left'
        /\ r <= q + 1 /\ (l # 0 => m + 1 = l)
  BY <1>1, InvFacts, BoundType
<1>4. Limited'
  <2> SUFFICES ASSUME NEW s \in Slots PROVE InLimits(tasks'[s])  BY DEF Limited
  <2>1. InLimits(tasks[s]) /\ Passes(tasks[s], tasks'[s]) /\ tasks[s] \in Task
    BY <1>2, InvFacts DEF Limited
  <2> QED  BY <2>1, Fits DEF InLimits, Passes, Hurried, Task
<1> SUFFICES ASSUME stop' = Never PROVE WayBack'  BY <1>4
<1>5. stop = Never  BY <1>1, LimitsAreTicks DEF Inv, TypeOK, Never
<1>6. WayBack  BY <1>5
<1>7. \A s \in Slots : ~GraceIsOver(s)  BY DEF Tick, Due
<1>8. ASSUME loop \in {"starting", "pausing"} PROVE SoonFor(now + 1, quiet', left')
  <2>1. left # 0 /\ SoonFor(now, quiet, left)  BY <1>6, <1>8 DEF Tick, Due, WayBack
  <2>2. left' + 1 <= left  BY <1>3, <2>1
  <2> QED  BY <1>3, <2>1, <2>2, SoonForTick
<1>9. ASSUME loop \in {"finding", "rejoining"}
      PROVE  Start(target) <= now + 1 /\ \A i \in 0..left' : Answerable((now + 1) + i, quiet' + i, target)
  <2>1. left # 0  BY <1>9 DEF Tick, Due, Calls
  <2>2. Start(target) <= now /\ \A i \in 0..left : Answerable(now + i, quiet + i, target)
    BY <1>6, <1>9 DEF WayBack
  <2>3. target \in Nat /\ Start(target) \in Nat  BY InvFacts, Windows
  <2>4. m + 1 = l  BY <1>0, <2>1
  <2>5. \A i \in 0..l : Answerable(n + i, q + i, target)  BY <1>0, <2>2
  <2>6. \A i \in 0..m : Answerable((n + 1) + i, r + i, target)
    BY <1>0, <2>3, <2>4, <2>5, AnswerableLater
  <2>7. \A i \in 0..left' : Answerable((now + 1) + i, quiet' + i, target)  BY <1>0, <2>6
  <2> QED  BY <1>3, <2>2, <2>3, <2>7
<1>10. ASSUME loop = "watching" PROVE WatchInv(tasks'[cur], now + 1, quiet')
  <2>1. cur \in Slots  BY <1>10, InvFacts DEF Inv, LoopInv
  <2>2. ~Over(tasks[cur]) /\ ~(now >= PreloadAt)  BY <1>10 DEF Tick, Due, Done, Over
  <2>3. now < End(tasks[cur].win) - Preload
    <3>1. End(tasks[cur].win) \in Nat  BY <2>1, InvFacts, Windows
    <3> QED  BY <1>3, <2>2, <3>1, Fits DEF PreloadAt
  <2>4. WatchInv(tasks[cur], now, quiet) /\ tasks[cur] \in Task  BY <1>6, <1>10, <2>1, InvFacts DEF WayBack
  <2> QED  BY <1>2, <1>3, <2>1, <2>2, <2>3, <2>4, WatchTick
<1>11. ASSUME loop = "preloading"
       PROVE  /\ CurInv(tasks'[cur], now + 1, quiet')
              /\ (now + 1) + left' < End(tasks'[cur].win) + CallMax
              /\ \/ (now + 1) + left' + CallMax < End(tasks'[cur].win)
                 \/ quiet' + left' + CallMax <= Bound
  <2>1. cur \in Slots  BY <1>11, InvFacts DEF Inv, LoopInv
  <2>2. left # 0  BY <1>11 DEF Tick, Due, Calls
  <2>3. /\ CurInv(tasks[cur], now, quiet) /\ now + left < End(tasks[cur].win) + CallMax
        /\ now + left + CallMax < End(tasks[cur].win) \/ quiet + left + CallMax <= Bound
    BY <1>6, <1>11 DEF WayBack
  <2>4. tasks[cur] \in Task /\ End(tasks[cur].win) \in Nat /\ tasks'[cur].win = tasks[cur].win
    BY <1>2, <2>1, InvFacts, Windows DEF Passes
  <2>5. ~(tasks[cur].st = "open" /\ now >= End(tasks[cur].win) + Grace)
    BY <1>7, <2>1 DEF GraceIsOver
  <2>6. now < End(tasks[cur].win) + CallMax  BY <1>3, <2>3, <2>4, Fits
  <2>7. CurInv(tasks'[cur], now + 1, quiet')
    BY <1>2, <1>3, <2>1, <2>3, <2>4, <2>5, <2>6, CurTick
  <2> QED  BY <1>0, <2>2, <2>3, <2>4, <2>7, Fits
<1>12. ASSUME loop = "awaiting"
       PROVE  /\ tasks'[nxt].win = tasks'[cur].win + 1 /\ CurInv(tasks'[cur], now + 1, quiet')
              /\ NextInv(tasks'[nxt], End(tasks'[cur].win), now + 1, quiet')
  <2>1. cur \in Slots /\ nxt \in Slots  BY <1>12, InvFacts DEF Inv, LoopInv
  <2>2. /\ tasks[nxt].win = tasks[cur].win + 1 /\ CurInv(tasks[cur], now, quiet)
        /\ NextInv(tasks[nxt], End(tasks[cur].win), now, quiet)
    BY <1>6, <1>12 DEF WayBack
  <2>3. /\ tasks[cur] \in Task /\ tasks[nxt] \in Task /\ End(tasks[cur].win) \in Nat
        /\ tasks'[cur].win = tasks[cur].win /\ tasks'[nxt].win = tasks[nxt].win
    BY <1>2, <2>1, InvFacts, Windows DEF Passes
  <2>4. ~(tasks[cur].st = "open" /\ now >= End(tasks[cur].win) + Grace)
    BY <1>7, <2>1 DEF GraceIsOver
  <2>5. ~Over(tasks[cur])  BY <1>12 DEF Tick, Due, Done, Over
  <2>6. CurInv(tasks'[cur], now + 1, quiet')
    BY <1>2, <1>3, <2>1, <2>2, <2>3, <2>4, <2>5, CurTick
  <2>7. NextInv(tasks'[nxt], End(tasks[cur].win), now + 1, quiet')
    BY <1>2, <1>3, <2>1, <2>2, <2>3, NextTick
  <2> QED  BY <2>2, <2>3, <2>6, <2>7
<1>13. ASSUME NEW s \in Slots, NEW d \in Nat, Halted(tasks[s]), ~Over(tasks[s]),
              SoonFor(now, quiet, Hurry(tasks[s]) + d)
       PROVE  Halted(tasks'[s]) /\ SoonFor(now + 1, quiet', Hurry(tasks'[s]) + d)
  <2>1. /\ tasks[s] \in Task /\ tasks'[s] \in Task /\ Passes(tasks[s], tasks'[s]) /\ Troubled(tasks[s])
    BY <1>2, <1>13, InvFacts DEF Halted, Troubled
  <2>2. PICK h \in Nat, k \in Nat : h = Hurry(tasks[s]) /\ k = Hurry(tasks'[s]) /\ k + 1 = h
    BY <1>13, <2>1, HurryType, HurryTick
  <2>3. h + d \in Nat /\ k + d \in Nat /\ (k + d) + 1 <= h + d  BY <2>2
  <2>4. Halted(tasks'[s])  BY <1>13, <2>1 DEF Halted, Passes, Over
  <2> QED  BY <1>3, <1>13, <2>2, <2>3, <2>4, SoonForTick
<1>14. ASSUME loop = "dropCur"
       PROVE  /\ cur # NoTask /\ Halted(tasks'[cur])
              /\ SoonFor(now + 1, quiet', Hurry(tasks'[cur]) + PauseMax)
              /\ nxt # NoTask => SoonFor(now + 1, quiet', Hurry(tasks'[cur]) + (CallMax + PauseMax))
  <2>1. /\ cur # NoTask /\ cur \in Slots /\ Halted(tasks[cur])
        /\ SoonFor(now, quiet, Hurry(tasks[cur]) + PauseMax)
        /\ nxt # NoTask => SoonFor(now, quiet, Hurry(tasks[cur]) + (CallMax + PauseMax))
    BY <1>6, <1>14, InvFacts DEF WayBack
  <2>2. ~Over(tasks[cur])  BY <1>14, <2>1 DEF Tick, Due, Drained, Done, Over
  <2>3. PauseMax \in Nat /\ CallMax + PauseMax \in Nat  BY Fits
  <2> QED  BY <1>13, <2>1, <2>2, <2>3
<1>15. ASSUME loop = "dropNext"
       PROVE  nxt # NoTask /\ Halted(tasks'[nxt]) /\ SoonFor(now + 1, quiet', Hurry(tasks'[nxt]) + PauseMax)
  <2>1. nxt \in Slots /\ ~Over(tasks[nxt])  BY <1>15 DEF Tick, Due, Drained, Done, Over
  <2>2. Halted(tasks[nxt]) /\ SoonFor(now, quiet, Hurry(tasks[nxt]) + PauseMax)
    BY <1>6, <1>15, <2>1, InvFacts DEF WayBack
  <2>3. PauseMax \in Nat  BY Fits
  <2> QED  BY <1>13, <2>1, <2>2, <2>3, InvFacts
<1>16. loop \notin {"leaveCur", "leaveNext"}
  BY <1>6, InvFacts DEF Tick, Due, Drained, WayBack
<1>17. ASSUME loop = "down" PROVE quiet' + left' <= 1
  <2>1. left # 0 /\ quiet + left <= 1  BY <1>5, <1>6, <1>17 DEF Tick, Due, WayBack
  <2> QED  BY <1>0, <2>1, TimeForSum
<1> QED
  BY <1>1, <1>8, <1>9, <1>10, <1>11, <1>12, <1>14, <1>15, <1>16, <1>17 DEF WayBack

LEMMA LoopTime ==
  ASSUME Inv, LoopKeeps, Fault \/ NoFault
  PROVE  /\ now' = now /\ stop' = stop /\ quiet' \in Nat /\ quiet' <= quiet
         /\ Fault => quiet' = 0
         /\ NoFault => quiet' = quiet
BY InvFacts DEF LoopKeeps, Fault, NoFault

\* The tasks that the loop cancels and those that it lets go stay within their limits.
LEMMA CancelIs ==
  ASSUME NEW ts \in [Slots -> Task], \A r \in Slots : InLimits(ts[r]), NEW s \in Slots \cup {NoTask}
  PROVE  /\ \A r \in Slots : InLimits(CancelTask(ts, s)[r])
         /\ \A r \in Slots : CancelTask(ts, s)[r] = IF r = s THEN Cancelled(ts[r]) ELSE ts[r]
         /\ s = NoTask => CancelTask(ts, s) = ts
<1>1. CASE s = NoTask
  BY <1>1 DEF CancelTask, Slots, NoTask
<1>2. CASE s # NoTask
  <2>1. s \in Slots /\ CancelTask(ts, s) = [ts EXCEPT ![s] = Cancelled(ts[s])]
    BY <1>2 DEF CancelTask
  <2>2. InLimits(Cancelled(ts[s]))  BY <2>1, CancelledHalts
  <2> QED  BY <1>2, <2>1, <2>2
<1> QED  BY <1>1, <1>2

LEMMA ReleaseIs ==
  ASSUME NEW ts \in [Slots -> Task], \A r \in Slots : InLimits(ts[r]), NEW s \in Slots \cup {NoTask}
  PROVE  /\ \A r \in Slots : InLimits(Release(ts, s)[r])
         /\ Release(ts, s) \in [Slots -> Task]
         /\ \A r \in Slots \ {s} : Release(ts, s)[r] = ts[r]
         /\ s = NoTask => Release(ts, s) = ts
<1>1. Free \in Task /\ InLimits(Free)  BY FreeType DEF InLimits, Free
<1> QED  BY <1>1 DEF Release

LEMMA BeginsInLimits ==
  ASSUME Inv, Limited, NEW s \in Slots, tasks' = [tasks EXCEPT ![s] = NewTask(target)]
  PROVE  Limited' /\ tasks'[s] = NewTask(target) /\ \A r \in Slots \ {s} : tasks'[r] = tasks[r]
<1>1. InLimits(NewTask(target))  BY InvFacts, NewTaskIs
<1> QED  BY <1>1, InvFacts DEF Limited

\* The loop asks for the market in force.
LEMMA StartsInTime ==
  ASSUME ResumeInv, Begin \/ Rejoin
  PROVE  Limited' /\ (stop' = Never => WayBack')
<1> USE DEF ResumeInv
<1>1. /\ loop' \in {"finding", "rejoining"} /\ left' = CallMax /\ target' = WindowOf(now)
      /\ UNCHANGED <<cur, nxt, tasks>> /\ LoopKeeps /\ NoFault /\ loop \in {"starting", "pausing"}
  BY DEF Begin, Rejoin, Start1, Goto
<1>2. now' = now /\ stop' = stop /\ quiet' = quiet  BY <1>1, LoopTime
<1>3. Limited'  BY <1>1 DEF Limited
<1> SUFFICES ASSUME stop' = Never PROVE WayBack'  BY <1>3
<1>4. SoonFor(now, quiet, left)  BY <1>1, <1>2 DEF WayBack
<1>5. Soon(now, quiet)  BY <1>4, InvFacts, SoonForNow
<1>6. Start(WindowOf(now)) <= now  BY InvFacts, WindowHolds
<1>7. \A i \in 0..CallMax : Answerable(now + i, quiet + i, WindowOf(now))
  BY <1>5, InvFacts, AskedInTime
<1> QED  BY <1>1, <1>2, <1>6, <1>7 DEF WayBack

LEMMA FindsInTime ==
  ASSUME ResumeInv, Found
  PROVE  Limited' /\ (stop' = Never => WayBack')
<1> USE DEF ResumeInv
<1>1. /\ loop' = "watching" /\ cur' = FreeSlot
      /\ tasks' = [tasks EXCEPT ![FreeSlot] = NewTask(target)]
      /\ LoopKeeps /\ NoFault /\ cur = NoTask /\ nxt = NoTask /\ loop \in {"finding", "rejoining"}
  BY DEF Found, Goto, Inv, LoopInv, Lone
<1>2. now' = now /\ stop' = stop /\ quiet' = quiet  BY <1>1, LoopTime
<1>3. FreeSlot \in Slots  BY <1>1, FreeSlotIsFree
<1>4. Limited' /\ tasks'[FreeSlot] = NewTask(target)  BY <1>1, <1>3, BeginsInLimits
<1> SUFFICES ASSUME stop' = Never PROVE WayBack'  BY <1>4
<1>5. Start(target) <= now /\ \A i \in 0..left : Answerable(now + i, quiet + i, target)
  BY <1>1, <1>2 DEF WayBack
<1>6. Answerable(now, quiet, target)
  <2>1. 0 \in 0..left /\ now + 0 = now /\ quiet + 0 = quiet  BY InvFacts
  <2>2. Answerable(now + 0, quiet + 0, target)  BY <1>5, <2>1
  <2> QED  BY <2>1, <2>2
<1>7. WatchInv(NewTask(target), now, quiet)  BY <1>5, <1>6, InvFacts, FoundInTime
<1> QED  BY <1>1, <1>2, <1>4, <1>7 DEF WayBack

LEMMA WaitsInTime ==
  ASSUME ResumeInv, NotFound
  PROVE  Limited' /\ (stop' = Never => WayBack')
<1> USE DEF ResumeInv
<1>1. PICK d \in 0..PauseMax : loop' = "starting" /\ left' = d  BY DEF NotFound, Goto
<1>2. UNCHANGED <<cur, nxt, target, tasks>> /\ LoopKeeps /\ Fault  BY DEF NotFound, Refused
<1>3. now' = now /\ quiet' = 0  BY <1>2, LoopTime
<1>4. Limited'  BY <1>2 DEF Limited
<1>5. d \in Nat /\ 0 + d <= Nearest  BY Fits
<1>6. SoonFor(now, 0, d)  BY <1>5, InvFacts, SoonForNear
<1> QED  BY <1>1, <1>3, <1>4, <1>6 DEF WayBack

\* The present task is over, or there is time to wait for its end.
LEMMA DropsInTime ==
  ASSUME ResumeInv, Recover, cur # NoTask, quiet' \in Nat, NEW d \in Nat,
         Over(tasks[cur]) \/ CallMax <= d, SoonFor(now, quiet', d + PauseMax),
         nxt # NoTask => SoonFor(now, quiet', d + (CallMax + PauseMax))
  PROVE  Limited' /\ WayBack'
<1> USE DEF ResumeInv
<1>1. /\ tasks' = CancelTask(tasks, cur) /\ loop' = "dropCur"
      /\ UNCHANGED <<cur, nxt, target>> /\ now' = now
  BY DEF Recover, Goto, LoopKeeps
<1>2. cur \in Slots /\ tasks \in [Slots -> Task]  BY InvFacts
<1>3. (\A r \in Slots : InLimits(tasks'[r])) /\ tasks'[cur] = Cancelled(tasks[cur])
  BY <1>1, <1>2, CancelIs DEF Limited
<1>4. /\ tasks[cur] \in Task /\ InLimits(tasks[cur]) /\ tasks[cur].st # "free"
  BY <1>2, InvFacts DEF Limited
<1>5. /\ tasks'[cur] \in Task /\ Halted(tasks'[cur]) /\ Hurry(tasks'[cur]) <= CallMax
  BY <1>3, <1>4, CancelledHalts
<1>6. Over(tasks[cur]) => Hurry(tasks'[cur]) = 0
  BY <1>3 DEF Over, Cancelled, Hurry, Dropping
<1>7. PICK k \in Nat : k = Hurry(tasks'[cur]) /\ k <= d  BY <1>5, <1>6, HurryType, Fits
<1>8. /\ d + PauseMax \in Nat /\ k + PauseMax \in Nat /\ k + PauseMax <= d + PauseMax
      /\ d + (CallMax + PauseMax) \in Nat /\ k + (CallMax + PauseMax) \in Nat
      /\ k + (CallMax + PauseMax) <= d + (CallMax + PauseMax)
  BY <1>7, Fits
<1>9. /\ SoonFor(now, quiet', k + PauseMax)
      /\ nxt # NoTask => SoonFor(now, quiet', k + (CallMax + PauseMax))
  BY <1>8, InvFacts, SoonForEarlier
<1> QED  BY <1>1, <1>3, <1>5, <1>7, <1>9 DEF WayBack, Limited

LEMMA EndsInTime ==
  ASSUME ResumeInv, CollectionEnds
  PROVE  Limited' /\ (stop' = Never => WayBack')
<1> USE DEF ResumeInv
<1>1. Recover /\ NoFault /\ LoopKeeps /\ loop = "watching" /\ Over(tasks[cur])
  BY DEF CollectionEnds, Recover, Done, Over
<1>2. now' = now /\ stop' = stop /\ quiet' = quiet /\ quiet' \in Nat  BY <1>1, LoopTime
<1>3. cur \in Slots /\ nxt = NoTask /\ cur # NoTask  BY <1>1, InvFacts DEF Inv, LoopInv
<1>4. Limited'
  <2>1. tasks' = CancelTask(tasks, cur)  BY <1>1 DEF Recover
  <2> QED  BY <2>1, InvFacts, CancelIs DEF Limited
<1> SUFFICES ASSUME stop' = Never PROVE WayBack'  BY <1>4
<1>5. WatchInv(tasks[cur], now, quiet)  BY <1>1, <1>2 DEF WayBack
<1>6. SoonFor(now, quiet', PauseMax)  BY <1>1, <1>2, <1>3, <1>5, InvFacts, WatchEnds
<1>7. 0 + PauseMax = PauseMax  BY Fits
<1>8. SoonFor(now, quiet', 0 + PauseMax)  BY <1>6, <1>7
<1> QED  BY <1>1, <1>2, <1>3, <1>8, DropsInTime

LEMMA PreloadsInTime ==
  ASSUME ResumeInv, PreloadBegins
  PROVE  Limited' /\ (stop' = Never => WayBack')
<1> USE DEF ResumeInv
<1>1. loop = "watching" /\ NoFault /\ LoopKeeps /\ ~Over(tasks[cur]) /\ now >= PreloadAt
  BY DEF PreloadBegins, Recover, Done, Over
<1>2. now' = now /\ stop' = stop /\ quiet' = quiet /\ quiet' \in Nat  BY <1>1, LoopTime
<1>3. cur \in Slots /\ nxt = NoTask /\ cur # NoTask  BY <1>1, InvFacts DEF Inv, LoopInv
<1>4. InLimits(tasks[cur]) /\ tasks[cur] \in Task /\ End(tasks[cur].win) \in Nat
  BY <1>3, InvFacts, Windows DEF Limited
<1>5. CASE now < End(tasks[cur].win)
  <2>1. loop' = "preloading" /\ left' = CallMax /\ UNCHANGED <<cur, nxt, tasks>>
    BY <1>5 DEF PreloadBegins, Goto
  <2>2. Limited'  BY <2>1 DEF Limited
  <2> SUFFICES ASSUME stop' = Never PROVE WayBack'  BY <2>2
  <2>3. WatchInv(tasks[cur], now, quiet)  BY <1>1, <1>2 DEF WayBack
  <2>4. End(tasks[cur].win) - Preload <= now  BY <1>1, <1>4, InvFacts, Fits DEF PreloadAt
  <2>5. /\ CurInv(tasks[cur], now, quiet)
        /\ now + 2 * CallMax < End(tasks[cur].win) \/ quiet + 2 * CallMax <= Bound
    BY <1>1, <1>4, <1>5, <2>3, <2>4, InvFacts, PreloadInTime
  <2>6. /\ now + CallMax < End(tasks[cur].win) + CallMax
        /\ now + CallMax + CallMax < End(tasks[cur].win) \/ quiet + CallMax + CallMax <= Bound
    BY <1>4, <1>5, <2>5, InvFacts, Fits
  <2> QED  BY <1>2, <2>1, <2>5, <2>6 DEF WayBack
<1>6. CASE ~(now < End(tasks[cur].win))
  <2>1. Recover  BY <1>6 DEF PreloadBegins
  <2>2. Limited'
    <3>1. tasks' = CancelTask(tasks, cur)  BY <2>1 DEF Recover
    <3> QED  BY <3>1, InvFacts, CancelIs DEF Limited
  <2> SUFFICES ASSUME stop' = Never PROVE WayBack'  BY <2>2
  <2>3. WatchInv(tasks[cur], now, quiet) /\ now >= End(tasks[cur].win)
    BY <1>1, <1>2, <1>4, <1>6, InvFacts DEF WayBack
  <2>4. SoonFor(now, quiet', CallMax + PauseMax)  BY <1>2, <1>4, <2>3, InvFacts, WatchEnds
  <2>5. CallMax \in Nat /\ CallMax <= CallMax  BY Fits
  <2> QED  BY <1>2, <1>3, <2>1, <2>4, <2>5, DropsInTime
<1> QED  BY <1>5, <1>6

LEMMA NextBeginsInTime ==
  ASSUME ResumeInv, Preloaded
  PROVE  Limited' /\ (stop' = Never => WayBack')
<1> USE DEF ResumeInv
<1>1. /\ loop' = "awaiting" /\ nxt' = FreeSlot /\ cur' = cur
      /\ tasks' = [tasks EXCEPT ![FreeSlot] = NewTask(target)]
      /\ LoopKeeps /\ NoFault /\ nxt = NoTask /\ loop = "preloading" /\ left \in Nat
      /\ target = tasks[cur].win + 1 /\ cur \in Slots
  BY InvFacts DEF Preloaded, Goto, Inv, LoopInv
<1>2. now' = now /\ stop' = stop /\ quiet' = quiet  BY <1>1, LoopTime
<1>3. FreeSlot \in Slots /\ FreeSlot # cur  BY <1>1, FreeSlotIsFree
<1>4. Limited' /\ tasks'[FreeSlot] = NewTask(target) /\ tasks'[cur] = tasks[cur]
  BY <1>1, <1>3, BeginsInLimits
<1> SUFFICES ASSUME stop' = Never PROVE WayBack'  BY <1>4
<1>5. /\ CurInv(tasks[cur], now, quiet)
      /\ now + left + CallMax < End(tasks[cur].win) \/ quiet + left + CallMax <= Bound
  BY <1>1, <1>2 DEF WayBack
<1> PICK n \in Task : /\ n = NewTask(target) /\ n.st = "opening" /\ n.win = target
                      /\ n.left = CallMax /\ n.sampler = "on"
  BY InvFacts, NewTaskIs
<1>6. NextInv(n, End(tasks[cur].win), now, quiet)
  <2>1. End(tasks[cur].win) \in Nat  BY <1>1, InvFacts, Windows
  <2>2. now + CallMax < End(tasks[cur].win) \/ quiet + CallMax <= Bound
    BY <1>1, <1>5, <2>1, InvFacts, Fits
  <2>3. ~Troubled(n)  BY DEF Troubled, Dropping, Over
  <2> QED  BY <2>2, <2>3 DEF NextInv
<1> QED  BY <1>1, <1>2, <1>4, <1>5, <1>6 DEF WayBack

LEMMA PreloadFailsInTime ==
  ASSUME ResumeInv, PreloadFails
  PROVE  Limited' /\ (stop' = Never => WayBack')
<1> USE DEF ResumeInv
<1>1. loop = "preloading" /\ Fault /\ LoopKeeps  BY DEF PreloadFails, Refused, Recover
<1>2. now' = now /\ stop' = stop /\ quiet' = 0  BY <1>1, LoopTime
<1>3. cur \in Slots /\ nxt = NoTask /\ cur # NoTask  BY <1>1, InvFacts DEF Inv, LoopInv
<1>4. tasks[cur] \in Task /\ End(tasks[cur].win) \in Nat  BY <1>3, InvFacts, Windows
<1>5. CASE now < End(tasks[cur].win) /\ Goto("preloading", CallMax) /\ UNCHANGED <<cur, nxt, target, tasks>>
  <2>1. loop' = "preloading" /\ left' = CallMax /\ UNCHANGED <<cur, nxt, tasks>>  BY <1>5 DEF Goto
  <2>2. Limited'  BY <2>1 DEF Limited
  <2> SUFFICES ASSUME stop' = Never PROVE WayBack'  BY <2>2
  <2>3. CurInv(tasks[cur], now, quiet)  BY <1>1, <1>2 DEF WayBack
  <2>4. CurInv(tasks[cur], now, 0)  BY <1>4, <2>3, InvFacts, CurEarlier
  <2>5. now + CallMax < End(tasks[cur].win) + CallMax /\ 0 + CallMax + CallMax <= Bound
    BY <1>4, <1>5, InvFacts, Fits
  <2> QED  BY <1>2, <2>1, <2>4, <2>5 DEF WayBack
<1>6. CASE Recover
  <2>1. CallMax + PauseMax \in Nat /\ 0 + (CallMax + PauseMax) <= Nearest  BY Fits
  <2>2. SoonFor(now, 0, CallMax + PauseMax)  BY <2>1, InvFacts, SoonForNear
  <2>3. CallMax \in Nat /\ CallMax <= CallMax /\ quiet' \in Nat  BY <1>2, Fits
  <2> QED  BY <1>2, <1>3, <1>6, <2>2, <2>3, DropsInTime
<1> QED  BY <1>5, <1>6 DEF PreloadFails

LEMMA RolloverInTime ==
  ASSUME ResumeInv, Rollover
  PROVE  Limited' /\ (stop' = Never => WayBack')
<1> USE DEF ResumeInv
<1>1. /\ tasks' = Release(tasks, cur) /\ cur' = nxt /\ nxt' = NoTask /\ Over(tasks[cur])
      /\ loop' = "watching" /\ LoopKeeps /\ NoFault /\ loop = "awaiting"
  BY DEF Rollover, Goto, Done, Over
<1>2. now' = now /\ stop' = stop /\ quiet' = quiet  BY <1>1, LoopTime
<1>3. cur \in Slots /\ nxt \in Slots /\ cur # nxt
  BY <1>1 DEF Inv, TypeOK, LoopInv, ApartInv
<1>4. (\A r \in Slots : InLimits(tasks'[r])) /\ tasks'[nxt] = tasks[nxt]
  BY <1>1, <1>3, InvFacts, ReleaseIs DEF Limited
<1>5. Limited'  BY <1>4 DEF Limited
<1> SUFFICES ASSUME stop' = Never PROVE WayBack'  BY <1>5
<1>6. /\ tasks[nxt].win = tasks[cur].win + 1 /\ CurInv(tasks[cur], now, quiet)
      /\ NextInv(tasks[nxt], End(tasks[cur].win), now, quiet)
  BY <1>1, <1>2 DEF WayBack
<1>7. WatchInv(tasks[nxt], now, quiet)  BY <1>1, <1>3, <1>6, InvFacts, RollsInTime
<1> QED  BY <1>1, <1>2, <1>4, <1>7 DEF WayBack

LEMMA AwaitFailsInTime ==
  ASSUME ResumeInv, AwaitFails
  PROVE  Limited' /\ (stop' = Never => WayBack')
<1> USE DEF ResumeInv
<1>1. Recover /\ NoFault /\ LoopKeeps /\ loop = "awaiting" /\ Over(tasks[cur]) /\ ~RollsOver
  BY DEF AwaitFails, Recover, Done, Over
<1>2. now' = now /\ stop' = stop /\ quiet' = quiet /\ quiet' \in Nat  BY <1>1, LoopTime
<1>3. cur \in Slots /\ cur # NoTask  BY <1>1, InvFacts DEF Inv, LoopInv
<1>4. Limited'
  <2>1. tasks' = CancelTask(tasks, cur)  BY <1>1 DEF Recover
  <2> QED  BY <2>1, InvFacts, CancelIs DEF Limited
<1> SUFFICES ASSUME stop' = Never PROVE WayBack'  BY <1>4
<1>5. CurInv(tasks[cur], now, quiet) /\ tasks[cur] \in Task  BY <1>1, <1>2, <1>3, InvFacts DEF WayBack
<1>6. now < End(tasks[cur].win)
  <2>1. End(tasks[cur].win) \in Nat  BY <1>3, InvFacts, Windows
  <2> QED  BY <1>1, <2>1, InvFacts DEF RollsOver
<1>7. SoonFor(now, quiet', CallMax + PauseMax)  BY <1>1, <1>2, <1>5, <1>6, InvFacts, AwaitEnds
<1>8. /\ CallMax + PauseMax \in Nat /\ 0 + (CallMax + PauseMax) = CallMax + PauseMax
      /\ 0 + PauseMax \in Nat /\ 0 + PauseMax <= CallMax + PauseMax
  BY Fits
<1>9. SoonFor(now, quiet', 0 + PauseMax)  BY <1>2, <1>7, <1>8, InvFacts, SoonForEarlier
<1> QED  BY <1>1, <1>2, <1>3, <1>7, <1>8, <1>9, DropsInTime

LEMMA OverIsNoHurry ==
  ASSUME NEW t \in Task, Over(t), NEW d \in Nat
  PROVE  Hurry(t) + d = d
<1>1. Hurry(t) = 0  BY DEF Hurry, Over, Dropping
<1> QED  BY <1>1

LEMMA CurrentDroppedInTime ==
  ASSUME ResumeInv, CurrentDropped
  PROVE  Limited' /\ (stop' = Never => WayBack')
<1> USE DEF ResumeInv
<1>1. /\ tasks' = CancelTask(Release(tasks, cur), nxt) /\ cur' = NoTask /\ nxt' = nxt
      /\ loop' = "dropNext" /\ loop = "dropCur" /\ LoopKeeps /\ NoFault /\ Drained(cur)
  BY DEF CurrentDropped, Goto
<1>2. now' = now /\ stop' = stop /\ quiet' = quiet  BY <1>1, LoopTime
<1>3. /\ \A r \in Slots : InLimits(Release(tasks, cur)[r])
      /\ Release(tasks, cur) \in [Slots -> Task]
      /\ \A r \in Slots \ {cur} : Release(tasks, cur)[r] = tasks[r]
  BY InvFacts, ReleaseIs DEF Limited
<1>4. /\ \A r \in Slots : InLimits(tasks'[r])
      /\ \A r \in Slots : tasks'[r] = IF r = nxt THEN Cancelled(Release(tasks, cur)[r])
                                                 ELSE Release(tasks, cur)[r]
  BY <1>1, <1>3, InvFacts, CancelIs
<1>5. Limited'  BY <1>4 DEF Limited
<1> SUFFICES ASSUME stop' = Never PROVE WayBack'  BY <1>5
<1>6. /\ cur # NoTask /\ SoonFor(now, quiet, Hurry(tasks[cur]) + PauseMax)
      /\ nxt # NoTask => SoonFor(now, quiet, Hurry(tasks[cur]) + (CallMax + PauseMax))
  BY <1>1, <1>2 DEF WayBack
<1>7. cur \in Slots /\ tasks[cur] \in Task /\ Over(tasks[cur])
  BY <1>1, <1>6, InvFacts DEF Drained, Done, Over
<1>8. PauseMax \in Nat /\ CallMax + PauseMax \in Nat  BY Fits
<1>9. /\ SoonFor(now, quiet, PauseMax)
      /\ nxt # NoTask => SoonFor(now, quiet, CallMax + PauseMax)
  BY <1>6, <1>7, <1>8, OverIsNoHurry
<1>10. ASSUME nxt # NoTask
       PROVE  Halted(tasks'[nxt]) /\ SoonFor(now, quiet, Hurry(tasks'[nxt]) + PauseMax)
  <2>1. nxt \in Slots /\ nxt # cur /\ tasks[nxt].st # "free" /\ tasks[nxt] \in Task
    BY <1>6, <1>10, InvFacts DEF Inv, ApartInv
  <2>2. tasks'[nxt] = Cancelled(tasks[nxt])  BY <1>3, <1>4, <2>1
  <2>3. /\ tasks'[nxt] \in Task /\ Halted(tasks'[nxt]) /\ Hurry(tasks'[nxt]) <= CallMax
    BY <2>1, <2>2, CancelledHalts DEF Limited
  <2>4. PICK k \in Nat : k = Hurry(tasks'[nxt]) /\ k <= CallMax  BY <2>3, HurryType
  <2>5. k + PauseMax \in Nat /\ k + PauseMax <= CallMax + PauseMax  BY <2>4, Fits
  <2>6. SoonFor(now, quiet, k + PauseMax)  BY <1>8, <1>9, <1>10, <2>5, InvFacts, SoonForEarlier
  <2> QED  BY <2>3, <2>4, <2>6
<1> QED  BY <1>1, <1>2, <1>9, <1>10 DEF WayBack

LEMMA NextDroppedInTime ==
  ASSUME ResumeInv, NextDropped
  PROVE  Limited' /\ (stop' = Never => WayBack')
<1> USE DEF ResumeInv
<1>1. /\ tasks' = Release(tasks, nxt) /\ nxt' = NoTask
      /\ loop = "dropNext" /\ LoopKeeps /\ NoFault /\ Drained(nxt)
  BY DEF NextDropped
<1>2. PICK d \in 0..PauseMax : loop' = "pausing" /\ left' = d  BY DEF NextDropped, Goto
<1>3. now' = now /\ stop' = stop /\ quiet' = quiet  BY <1>1, LoopTime
<1>4. Limited'  BY <1>1, InvFacts, ReleaseIs DEF Limited
<1> SUFFICES ASSUME stop' = Never PROVE WayBack'  BY <1>4
<1>5. /\ nxt = NoTask => SoonFor(now, quiet, PauseMax)
      /\ nxt # NoTask => SoonFor(now, quiet, Hurry(tasks[nxt]) + PauseMax)
  BY <1>1, <1>3 DEF WayBack
<1>6. PauseMax \in Nat /\ d \in Nat /\ d <= PauseMax  BY Fits
<1>7. SoonFor(now, quiet, PauseMax)
  <2>1. CASE nxt = NoTask  BY <1>5, <2>1
  <2>2. CASE nxt # NoTask
    <3>1. nxt \in Slots /\ tasks[nxt] \in Task /\ Over(tasks[nxt])
      BY <1>1, <2>2, InvFacts DEF Drained, Done, Over
    <3> QED  BY <1>5, <1>6, <2>2, <3>1, OverIsNoHurry
  <2> QED  BY <2>1, <2>2
<1>8. SoonFor(now, quiet, d)  BY <1>6, <1>7, InvFacts, SoonForEarlier
<1> QED  BY <1>2, <1>3, <1>8 DEF WayBack

\* An exception inside the handler of an exception: there is nothing to cancel.
LEMMA LeavesInTime ==
  ASSUME ResumeInv, NotRejoined
  PROVE  Limited' /\ (stop' = Never => WayBack')
<1> USE DEF ResumeInv
<1>1. /\ tasks' = CancelTask(tasks, cur) /\ loop' = "leaveCur" /\ UNCHANGED <<cur, nxt>>
      /\ LoopKeeps /\ Fault /\ cur = NoTask /\ nxt = NoTask
  BY DEF NotRejoined, Refused, Leave, Goto, Inv, LoopInv, Lone
<1>2. quiet' = 0  BY <1>1, LoopTime
<1>3. Limited'  BY <1>1, InvFacts, CancelIs DEF Limited
<1> QED  BY <1>1, <1>2, <1>3 DEF WayBack

LEMMA LeaveNextInTime ==
  ASSUME ResumeInv, LeaveNext
  PROVE  Limited' /\ (stop' = Never => WayBack')
<1> USE DEF ResumeInv
<1>1. /\ tasks' = CancelTask(Release(tasks, cur), nxt) /\ cur' = NoTask /\ nxt' = nxt
      /\ loop' = "leaveNext" /\ loop = "leaveCur" /\ LoopKeeps /\ NoFault
  BY DEF LeaveNext, Goto
<1>2. stop' = stop /\ quiet' = quiet  BY <1>1, LoopTime
<1>3. Limited'
  <2>1. /\ \A r \in Slots : InLimits(Release(tasks, cur)[r])
        /\ Release(tasks, cur) \in [Slots -> Task]
    BY InvFacts, ReleaseIs DEF Limited
  <2> QED  BY <1>1, <2>1, InvFacts, CancelIs DEF Limited
<1> QED  BY <1>1, <1>2, <1>3 DEF WayBack

LEMMA LeftInTime ==
  ASSUME ResumeInv, Left
  PROVE  Limited' /\ (stop' = Never => WayBack')
<1> USE DEF ResumeInv
<1>1. /\ tasks' = Release(tasks, nxt) /\ loop' = "down" /\ left' = 1
      /\ loop = "leaveNext" /\ LoopKeeps /\ NoFault
  BY DEF Left, Goto
<1>2. stop' = stop /\ quiet' = quiet  BY <1>1, LoopTime
<1>3. Limited'  BY <1>1, InvFacts, ReleaseIs DEF Limited
<1>4. stop = Never => quiet = 0  BY <1>1 DEF WayBack
<1>5. quiet = 0 => quiet' + left' <= 1  BY <1>1, <1>2
<1> QED  BY <1>1, <1>2, <1>3, <1>4, <1>5 DEF WayBack

LEMMA RestartsInTime ==
  ASSUME ResumeInv, Restart
  PROVE  Limited' /\ (stop' = Never => WayBack')
<1> USE DEF ResumeInv
<1>1. /\ loop' = "starting" /\ left' = 0 /\ UNCHANGED <<cur, nxt, target, tasks>>
      /\ LoopKeeps /\ NoFault /\ loop = "down" /\ stop = Never
  BY DEF Restart, Goto
<1>2. now' = now /\ quiet' = quiet  BY <1>1, LoopTime
<1>3. Limited'  BY <1>1 DEF Limited
<1>4. quiet + left <= 1  BY <1>1 DEF WayBack
<1>5. quiet + 0 <= Nearest  BY <1>4, InvFacts, Fits
<1>6. SoonFor(now, quiet, 0)  BY <1>5, InvFacts, SoonForNear
<1> QED  BY <1>1, <1>2, <1>3, <1>6 DEF WayBack

LEMMA DiesInTime ==
  ASSUME ResumeInv, Crash \/ Killed
  PROVE  Limited' /\ (stop' = Never => WayBack')
<1> USE DEF ResumeInv
<1>1. /\ tasks' = [s \in Slots |-> Free] /\ loop' = "down" /\ left' = 1
      /\ stop' = stop /\ (Fault \/ (NoFault /\ stop = 0))
  BY DEF Crash, Killed, Dies, Goto
<1>2. Limited'  BY <1>1 DEF Limited, InLimits, Free
<1>3. stop' = Never => quiet' = 0  BY <1>1 DEF Fault, Never
<1>4. quiet' = 0 => quiet' + left' <= 1  BY <1>1
<1> QED  BY <1>1, <1>2, <1>3, <1>4 DEF WayBack

LEMMA StopsInLimits ==
  ASSUME ResumeInv, Sigterm
  PROVE  Limited' /\ (stop' = Never => WayBack')
<1> USE DEF ResumeInv
<1>1. stop' # Never  BY LimitsAreTicks DEF Sigterm, Never
<1>2. tasks' = tasks \/ tasks' = CancelTask(tasks, cur)  BY DEF Sigterm, Leave
<1>3. Limited'  BY <1>2, InvFacts, CancelIs DEF Limited
<1> QED  BY <1>1, <1>3

LEMMA ResumeInvInit == Init => ResumeInv
<1> SUFFICES ASSUME Init PROVE ResumeInv  OBVIOUS
<1>1. Inv  BY InvInit
<1>2. Limited  BY DEF Init, Limited, InLimits, Free
<1>3. loop = "starting" /\ now = 0 /\ quiet = 0 /\ left = 0  BY DEF Init
<1>4. 0 + 0 <= Nearest  BY Fits
<1>5. SoonFor(0, 0, 0)  BY <1>4, SoonForNear
<1> QED  BY <1>1, <1>2, <1>3, <1>5 DEF ResumeInv, WayBack

LEMMA ResumeInvNext == ResumeInv /\ [Next]_vars => ResumeInv'
<1> SUFFICES ASSUME ResumeInv, [Next]_vars PROVE ResumeInv'  OBVIOUS
<1>1. Inv'  BY InvNext DEF ResumeInv
<1>2. CASE Tick     BY <1>1, <1>2, TicksInTime DEF ResumeInv
<1>3. CASE Collect  BY <1>1, <1>3, CollectsInTime DEF ResumeInv
<1>4. CASE Run
  <2>1. CASE Begin \/ Rejoin  BY <1>1, <2>1, StartsInTime DEF ResumeInv
  <2>2. CASE Found            BY <1>1, <2>2, FindsInTime DEF ResumeInv
  <2>3. CASE NotFound         BY <1>1, <2>3, WaitsInTime DEF ResumeInv
  <2>4. CASE CollectionEnds   BY <1>1, <2>4, EndsInTime DEF ResumeInv
  <2>5. CASE PreloadBegins    BY <1>1, <2>5, PreloadsInTime DEF ResumeInv
  <2>6. CASE Preloaded        BY <1>1, <2>6, NextBeginsInTime DEF ResumeInv
  <2>7. CASE PreloadFails     BY <1>1, <2>7, PreloadFailsInTime DEF ResumeInv
  <2>8. CASE Rollover         BY <1>1, <2>8, RolloverInTime DEF ResumeInv
  <2>9. CASE AwaitFails       BY <1>1, <2>9, AwaitFailsInTime DEF ResumeInv
  <2>10. CASE CurrentDropped  BY <1>1, <2>10, CurrentDroppedInTime DEF ResumeInv
  <2>11. CASE NextDropped     BY <1>1, <2>11, NextDroppedInTime DEF ResumeInv
  <2>12. CASE NotRejoined     BY <1>1, <2>12, LeavesInTime DEF ResumeInv
  <2>13. CASE LeaveNext       BY <1>1, <2>13, LeaveNextInTime DEF ResumeInv
  <2>14. CASE Left            BY <1>1, <2>14, LeftInTime DEF ResumeInv
  <2>15. CASE Restart         BY <1>1, <2>15, RestartsInTime DEF ResumeInv
  <2>16. CASE Crash \/ Killed BY <1>1, <2>16, DiesInTime DEF ResumeInv
  <2>17. CASE Sigterm         BY <1>1, <2>17, StopsInLimits DEF ResumeInv
  <2> QED  BY <1>4, <2>1, <2>2, <2>3, <2>4, <2>5, <2>6, <2>7, <2>8, <2>9, <2>10, <2>11, <2>12,
              <2>13, <2>14, <2>15, <2>16, <2>17 DEF Run
<1>5. CASE UNCHANGED vars
  BY <1>1, <1>5 DEF vars, control, ResumeInv, Limited, WayBack
<1> QED  BY <1>2, <1>3, <1>4, <1>5 DEF Next

\* A market whose task is known to be well is collected in its window.
LEMMA HealthyCovers ==
  ASSUME Inv, NEW s \in Slots, tasks[s].st \notin {"free", "opening"}, ~Troubled(tasks[s]),
         Start(tasks[s].win) <= now, now < End(tasks[s].win)
  PROVE  Covered
<1> PICK t \in Task : t = tasks[s]  BY InvFacts
<1>1. t.st = "open" /\ t.sampler = "on"  BY DEF Troubled, Dropping, Over, Task
<1>2. WindowOf(now) = t.win  BY InvFacts, WindowIs DEF Task
<1> QED  BY <1>1, <1>2 DEF Covered

LEMMA WayBackCovers == ResumeInv => CollectionResumes
<1> SUFFICES ASSUME ResumeInv, quiet > Bound, stop = Never PROVE Covered
  BY DEF CollectionResumes
<1> USE DEF ResumeInv
<1> PICK t \in Nat, q \in Nat, l \in Nat : t = now /\ q = quiet /\ l = left /\ q > Bound  BY InvFacts
<1>1. WayBack  OBVIOUS
<1>2. \A d \in Nat : ~SoonFor(t, q, d)  BY SoonForNow, Fits
<1>3. loop \notin {"starting", "pausing"}  BY <1>1, <1>2 DEF WayBack
<1>4. loop \notin {"finding", "rejoining"}
  <2> SUFFICES ASSUME loop \in {"finding", "rejoining"} PROVE FALSE  OBVIOUS
  <2>1. \A i \in 0..l : Answerable(t + i, q + i, target)  BY <1>1 DEF WayBack
  <2>2. 0 \in 0..l /\ q + 0 = q  OBVIOUS
  <2>3. q + CallMax <= Bound  BY <2>1, <2>2 DEF Answerable
  <2> QED  BY <2>3, Fits
<1>5. loop # "down"
  <2>1. ~(q + l <= 1)  BY Fits
  <2> QED  BY <1>1, <2>1 DEF WayBack
<1>6. loop \notin {"leaveCur", "leaveNext"}  BY <1>1, Fits DEF WayBack
<1>7. loop # "dropCur"
  <2> SUFFICES ASSUME loop = "dropCur" PROVE FALSE  OBVIOUS
  <2>1. cur \in Slots /\ SoonFor(t, q, Hurry(tasks[cur]) + PauseMax)  BY <1>1, InvFacts DEF WayBack
  <2>2. Hurry(tasks[cur]) + PauseMax \in Nat  BY <2>1, InvFacts, HurryType, Fits
  <2> QED  BY <1>2, <2>1, <2>2
<1>8. loop # "dropNext"
  <2> SUFFICES ASSUME loop = "dropNext" PROVE FALSE  OBVIOUS
  <2>1. nxt = NoTask => SoonFor(t, q, PauseMax)  BY <1>1 DEF WayBack
  <2>2. nxt # NoTask => SoonFor(t, q, Hurry(tasks[nxt]) + PauseMax)  BY <1>1 DEF WayBack
  <2>3. nxt # NoTask => Hurry(tasks[nxt]) + PauseMax \in Nat  BY InvFacts, HurryType, Fits
  <2> QED  BY <1>2, <2>1, <2>2, <2>3, Fits
<1>9. CASE loop = "watching"
  <2>1. cur \in Slots  BY <1>9, InvFacts DEF Inv, LoopInv
  <2> PICK c \in Task : c = tasks[cur]  BY <2>1, InvFacts
  <2> PICK w \in Nat, k \in Nat : w = c.win /\ k = c.left  BY Fits DEF Task
  <2> PICK b \in Nat, e \in Nat : b = Start(w) /\ e = End(w)  BY Windows
  <2>2. WatchInv(c, t, q)  BY <1>1, <1>9 DEF WayBack
  <2>3. c.st # "opening"
    <3>1. ~(q + k <= Bound)  BY Fits
    <3> QED  BY <2>2, <3>1 DEF WatchInv
  <2>4. ~(t < b)
    <3>1. t < b => ~(q + (b - t) <= Bound)  BY Fits
    <3> QED  BY <2>2, <3>1 DEF WatchInv
  <2>5. ~(t >= e)
    <3>1. CallMax + PauseMax \in Nat  BY Fits
    <3> QED  BY <1>2, <2>2, <3>1 DEF WatchInv
  <2>6. ~Troubled(c)
    <3> SUFFICES ASSUME Troubled(c) PROVE FALSE  OBVIOUS
    <3>1. SoonFor(t, q, Hurry(c) + PauseMax)  BY <2>2, <2>5 DEF WatchInv
    <3>2. Hurry(c) + PauseMax \in Nat  BY HurryType, Fits
    <3> QED  BY <1>2, <3>1, <3>2
  <2>7. c.st # "free"  BY <2>1, InvFacts
  <2>8. b <= t /\ t < e  BY <2>4, <2>5
  <2> QED  BY <2>1, <2>3, <2>6, <2>7, <2>8, HealthyCovers
<1>10. CASE loop \in {"preloading", "awaiting"}
  <2>1. cur \in Slots  BY <1>10, InvFacts DEF Inv, LoopInv
  <2> PICK c \in Task : c = tasks[cur]  BY <2>1, InvFacts
  <2> PICK w \in Nat, k \in Nat : w = c.win /\ k = c.left  BY Fits DEF Task
  <2> PICK b \in Nat, e \in Nat : b = Start(w) /\ e = End(w) /\ e = b + Window  BY Windows
  <2> PICK h \in Nat : h = Hurry(c)  BY HurryType
  <2>2. CurInv(c, t, q)  BY <1>1, <1>10 DEF WayBack
  <2>3. c.st # "free"  BY <2>1, InvFacts
  <2>4. c.st # "opening"
    <3>1. ~(q + k <= Bound)  BY Fits
    <3> QED  BY <2>2, <3>1 DEF CurInv
  <2>5. CASE t < e
    <3>1. b <= t
      <4>1. e - Preload <= t  BY <2>2 DEF CurInv
      <4> QED  BY <4>1, Fits
    <3>2. ~Troubled(c)
      <4>1. ~(q + h <= Notice + CallMax + (t - (e - Preload)))  BY <2>5, Fits
      <4> QED  BY <2>2, <2>5, <4>1 DEF CurInv
    <3> QED  BY <2>1, <2>3, <2>4, <2>5, <3>1, <3>2, HealthyCovers
  <2>6. CASE t >= e
    <3>1. CASE loop = "preloading"
      <4>1. t + l + CallMax < e \/ q + l + CallMax <= Bound  BY <1>1, <3>1 DEF WayBack
      <4> QED  BY <2>6, <4>1, Fits
    <3>2. CASE loop = "awaiting"
      <4>1. nxt \in Slots  BY <3>2, InvFacts DEF Inv, LoopInv
      <4> PICK n \in Task : n = tasks[nxt]  BY <4>1, InvFacts
      <4> PICK v \in Nat, m \in Nat : v = n.win /\ m = n.left  BY Fits DEF Task
      <4> PICK f \in Nat : f = End(v)  BY Windows
      <4>2. v = w + 1 /\ NextInv(n, e, t, q)  BY <1>1, <3>2 DEF WayBack
      <4>3. t <= e + Grace + 2 * CallMax /\ t < f  BY <2>2, <2>3, <4>2, CurLasts
      <4>4. Start(v) <= t  BY <2>6, <4>2, Windows
      <4>5. n.st # "opening"
        <5>1. ~(t + m < e) /\ ~(q + m <= Bound)  BY <2>6, Fits
        <5> QED  BY <4>2, <5>1 DEF NextInv
      <4>6. ~Troubled(n)
        <5>1. ~(q <= t - (e - Preload))  BY <4>3, Fits
        <5> QED  BY <4>2, <5>1 DEF NextInv
      <4>7. n.st # "free"  BY <4>1, InvFacts
      <4> QED  BY <4>1, <4>3, <4>4, <4>5, <4>6, <4>7, HealthyCovers
    <3> QED  BY <1>10, <3>1, <3>2
  <2> QED  BY <2>5, <2>6
<1> QED
  BY <1>3, <1>4, <1>5, <1>6, <1>7, <1>8, <1>9, <1>10 DEF Inv, TypeOK, Calls, Drains

\* Whatever failed, Bound ticks after the last fault the market in force is collected again, unless the
\* service was stopped: however the failure, the rollover, the preload, the pauses and the restart fall.
THEOREM CollectionIsResumed == Spec => []CollectionResumes
<1>1. Spec => []ResumeInv  BY ResumeInvInit, ResumeInvNext, PTL DEF Spec
<1> QED  BY <1>1, WayBackCovers, PTL
==============================================================================
