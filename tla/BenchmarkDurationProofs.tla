----------------------- MODULE BenchmarkDurationProofs -----------------------
(***************************************************************************)
(* The length of a naive-mode benchmark run, for every number of workers,  *)
(* every --duration and every bounded set of chunk durations: when main    *)
(* reports the throughput, no more than one round of the workers past     *)
(* --duration has gone by (DurationHonest).                                *)
(*                                                                         *)
(* The argument has three parts.  A worker still to start waits at most   *)
(* for the workers queued ahead of it, each running at most NaiveEvery     *)
(* chunks before the shared counter makes it yield, so it takes its        *)
(* end_time within (Workers - 1) rounds.  A chunk runs only before its     *)
(* worker's end_time.  And the loop idles only once running is cleared,   *)
(* since until then main or an unfinished worker is always queued or      *)
(* running, so at most one probe sleep follows the last chunk.             *)
(***************************************************************************)
EXTENDS BenchmarkProofs

(* The workers queued in q ahead of task t.                                *)
AheadOfT(q, t) ==
  {i \in Ids : \E j, m \in 1..Len(q) :
                 j < m /\ q[j] = Worker(i) /\ q[m] = t}

(* t is waiting in queue q or holds the loop (h).                          *)
Queued(q, h, t) == In(q, t) \/ h = t

(* The chunks that may still run before worker j, queued in q, is         *)
(* scheduled: the holder's and NaiveEvery for each worker ahead of it.     *)
StartPending(h, u, q, j) ==
  IF h = Worker(j) THEN 0
  ELSE RemOf(h, u) + NaiveEvery * Cardinality(AheadOfT(q, Worker(j)))

(* The latest clock at which a worker takes its end_time.                  *)
StartBudget == (Workers - 1) * NaiveEvery * MaxChunk

(* The clock stays below RunCap while a sample may still be taken.         *)
RunCap == Duration + StartBudget + MaxChunk

(* No naive-mode worker fails, and each takes an end_time within the      *)
(* start budget.                                                           *)
Deadlines ==
  \A i \in Ids : /\ wpc[i] # "failed"
                 /\ end_time[i] <= Duration + StartBudget

(* Before Workload.run starts the workers, no time has passed and main is  *)
(* queued or running.                                                      *)
BeforeRun ==
  mpc = "start" => /\ clock = 0 /\ Queued(ready, holding, Main)
                   /\ \A i \in Ids : wpc[i] = "new"

(* running is cleared once the gather is done.                             *)
RunningPhase == running => mpc \in {"start", "gather"}

(* The last worker to return has woken main.                               *)
MainWoken ==
  mpc = "gather" /\ (\A i \in Ids : wpc[i] = "done") =>
    Queued(ready, holding, Main)

(* Every unfinished worker is queued or running.                           *)
WorkersQueued ==
  mpc # "start" =>
    \A i \in Ids :
      wpc[i] \in {"new", "loop"} => Queued(ready, holding, Worker(i))

(* A worker still to start will start within the start budget.             *)
StartsInTime ==
  mpc # "start" =>
    \A i \in Ids :
      wpc[i] = "new" =>
        clock + MaxChunk * StartPending(holding, work_units, ready, i)
          <= StartBudget

(* The clock stays below RunCap while running is set or a sample is being  *)
(* taken; afterwards it goes no further than the probe's last wake-up,     *)
(* which is at most one probe period past RunCap.                          *)
ClockCapped ==
  /\ wake < RunCap + ProbeSleep
  /\ \/ clock < RunCap
     \/ ~running /\ ppc # "measuring" /\ clock <= wake

(* The inductive invariant behind DurationHonest.                          *)
DurInv ==
  /\ QInv /\ Deadlines /\ BeforeRun /\ RunningPhase /\ MainWoken
  /\ WorkersQueued /\ StartsInTime /\ ClockCapped

-----------------------------------------------------------------------------
(* The workers ahead of a task in the ready queue.                         *)

(* The workers ahead of any task are some of the workers.                  *)
LEMMA AheadTFacts ==
  ASSUME NEW q, NEW t
  PROVE  /\ AheadOfT(q, t) \subseteq Ids
         /\ IsFiniteSet(AheadOfT(q, t))
         /\ Cardinality(AheadOfT(q, t)) \in 0..Workers
  <1>1. AheadOfT(q, t) \subseteq Ids
    BY DEF AheadOfT
  <1>2. QED
    BY <1>1, AheadCard

(* Appending a task other than t puts no worker ahead of t.                *)
LEMMA AheadTAppend ==
  ASSUME NEW q \in Seq(Tasks), NEW u \in Tasks, NEW t, u # t
  PROVE  AheadOfT(Append(q, u), t) \subseteq AheadOfT(q, t)
  <1>1. /\ Len(Append(q, u)) = Len(q) + 1 /\ Len(q) \in Nat
        /\ \A j \in 1..Len(q) : Append(q, u)[j] = q[j]
        /\ Append(q, u)[Len(q) + 1] = u
    BY AppendProperties, LenProperties
  <1>2. QED
    BY <1>1 DEF AheadOfT

(* Waking main puts no worker ahead of another task.                       *)
LEMMA AheadTWake ==
  ASSUME NEW q \in Seq(Tasks), NEW t, t # Main
  PROVE  AheadOfT(WakeUp(q, Main), t) \subseteq AheadOfT(q, t)
  <1>1. CASE In(q, Main)
    BY <1>1 DEF WakeUp, In
  <1>2. CASE ~In(q, Main)
    <2>1. WakeUp(q, Main) = Append(q, Main)
      BY <1>2 DEF WakeUp, In
    <2>2. Main \in Tasks
      BY DEF Tasks
    <2>3. QED
      BY <2>1, <2>2, AheadTAppend
  <1>3. QED
    BY <1>1, <1>2

(* The loop takes the head of the queue: nobody moves ahead of t, and a    *)
(* worker at the head, ahead of t if t is still queued, is no longer.      *)
LEMMA AheadTTail ==
  ASSUME NEW q \in Seq(Tasks), q # <<>>, Distinct(q), NEW t
  PROVE  /\ AheadOfT(Tail(q), t) \subseteq AheadOfT(q, t)
         /\ \A i \in Ids : Head(q) = Worker(i) =>
              /\ i \notin AheadOfT(Tail(q), t)
              /\ In(Tail(q), t) => i \in AheadOfT(q, t)
  <1>1. /\ Len(Tail(q)) = Len(q) - 1
        /\ \A j \in 1..Len(Tail(q)) : Tail(q)[j] = q[j + 1]
        /\ Head(q) = q[1] /\ Len(q) \in Nat \ {0}
    BY HeadTailProperties, EmptySeq, LenProperties
  <1>2. AheadOfT(Tail(q), t) \subseteq AheadOfT(q, t)
    <2> SUFFICES ASSUME NEW i \in Ids, NEW j \in 1..Len(Tail(q)),
                        NEW m \in 1..Len(Tail(q)), j < m,
                        Tail(q)[j] = Worker(i), Tail(q)[m] = t
                 PROVE  i \in AheadOfT(q, t)
      BY DEF AheadOfT
    <2>1. j + 1 \in 1..Len(q) /\ m + 1 \in 1..Len(q) /\ j + 1 < m + 1
          /\ q[j + 1] = Worker(i) /\ q[m + 1] = t
      BY <1>1
    <2>2. QED
      BY <2>1 DEF AheadOfT
  <1>3. ASSUME NEW i \in Ids, Head(q) = Worker(i)
        PROVE  /\ i \notin AheadOfT(Tail(q), t)
               /\ In(Tail(q), t) => i \in AheadOfT(q, t)
    <2>1. i \notin AheadOfT(Tail(q), t)
      BY <1>1, <1>3 DEF AheadOfT, Distinct
    <2>2. In(Tail(q), t) => i \in AheadOfT(q, t)
      <3> SUFFICES ASSUME NEW m \in 1..Len(Tail(q)), Tail(q)[m] = t
                   PROVE  i \in AheadOfT(q, t)
        BY DEF In
      <3>1. 1 \in 1..Len(q) /\ m + 1 \in 1..Len(q) /\ 1 < m + 1
            /\ q[1] = Worker(i) /\ q[m + 1] = t
        BY <1>1, <1>3
      <3>2. QED
        BY <3>1 DEF AheadOfT
    <2>3. QED
      BY <2>1, <2>2
  <1>4. QED
    BY <1>2, <1>3

(* In a queue of distinct tasks no worker is ahead of itself.             *)
LEMMA AheadTSelf ==
  ASSUME NEW q \in Seq(Tasks), Distinct(q), NEW j \in Ids
  PROVE  j \notin AheadOfT(q, Worker(j))
  BY DEF AheadOfT, Distinct

(* The chunks still to run before worker j starts: a natural, and the     *)
(* holder's share is nothing when no worker holds the loop.                *)
LEMMA SPFacts ==
  ASSUME NEW h, NEW u \in Nat, NEW q, NEW j \in Ids
  PROVE  /\ StartPending(h, u, q, j) \in Nat
         /\ h # Worker(j) =>
              StartPending(h, u, q, j)
                = RemOf(h, u) + NaiveEvery * Cardinality(AheadOfT(q, Worker(j)))
         /\ h \notin WorkerSet =>
              StartPending(h, u, q, j)
                = NaiveEvery * Cardinality(AheadOfT(q, Worker(j)))
  <1>1. /\ RemOf(h, u) \in 0..NaiveEvery
        /\ h \notin WorkerSet => RemOf(h, u) = 0
    BY PendingFacts
  <1>2. Cardinality(AheadOfT(q, Worker(j))) \in 0..Workers
    BY AheadTFacts
  <1>3. Worker(j) \in WorkerSet
    BY DEF WorkerSet
  <1>4. QED
    BY <1>1, <1>2, <1>3 DEF StartPending, NaiveEvery

(* The bounds are naturals, and one round of every worker is the start    *)
(* budget plus one round.                                                  *)
LEMMA BudgetFacts ==
  ASSUME ChunksBounded
  PROVE  /\ MaxChunk \in Nat \ {0}
         /\ StartBudget \in Nat
         /\ StartBudget = MaxChunk * (NaiveEvery * (Workers - 1))
         /\ RunCap \in Nat
         /\ RunCap = Duration + StartBudget + MaxChunk
         /\ Budget = StartBudget + MaxChunk * NaiveEvery
  <1>1. MaxChunk \in Nat \ {0}
    BY MaxChunkFacts
  <1>2. QED
    BY <1>1, WorkersAssumption, DurationAssumption
    DEF StartBudget, RunCap, Budget, NaiveEvery

-----------------------------------------------------------------------------
(* The invariant.                                                          *)

(* asyncio.run(main()) starts with main queued and no worker started.      *)
LEMMA DurInit == ASSUME ChunksBounded PROVE Init => DurInv
  <1> SUFFICES ASSUME Init PROVE DurInv
    OBVIOUS
  <1>1. /\ clock = 0 /\ ready = <<Main>> /\ mpc = "start" /\ wake = 0
        /\ wpc = [i \in Ids |-> "new"] /\ end_time = [i \in Ids |-> 0]
    BY DEF Init
  <1>2. Queued(ready, holding, Main)
    BY <1>1 DEF Queued, In
  <1>3. /\ StartBudget \in Nat /\ RunCap \in Nat /\ MaxChunk \in Nat \ {0}
        /\ RunCap = Duration + StartBudget + MaxChunk
    BY BudgetFacts
  <1>4. QED
    BY <1>1, <1>2, <1>3, QInvInit, DurationAssumption
    DEF DurInv, Deadlines, BeforeRun, RunningPhase, MainWoken, WorkersQueued,
        StartsInTime, ClockCapped, ProbeSleep

(* What every step may use of the invariant: the types and the bounds.     *)
LEMMA DurFacts ==
  ASSUME ChunksBounded, DurInv
  PROVE  /\ TypeOK /\ QInv
         /\ ready \in Seq(Tasks) /\ holding \in Tasks \cup {NoTask}
         /\ Distinct(ready)
         /\ clock \in Nat /\ work_units \in Nat /\ wake \in Nat
         /\ MaxChunk \in Nat \ {0} /\ \A d \in ChunkTicks : d <= MaxChunk
         /\ StartBudget \in Nat /\ RunCap \in Nat
         /\ RunCap = Duration + StartBudget + MaxChunk
  <1>1. TypeOK /\ QInv /\ Distinct(ready)
    BY DEF DurInv, QInv
  <1>2. ready \in Seq(Tasks) /\ holding \in Tasks \cup {NoTask}
    BY <1>1, TypeOKTasks
  <1>3. QED
    BY <1>1, <1>2, BudgetFacts, MaxChunkFacts DEF TypeOK

(* The loop takes the head of the queue: a task is queued or running       *)
(* afterwards iff it was queued before.                                    *)
LEMMA ScheduleQueued ==
  ASSUME NEW q \in Seq(Tasks), q # <<>>, Distinct(q), NEW t \in Tasks
  PROVE  Queued(Tail(q), Head(q), t) <=> In(q, t)
  BY TailQueue DEF Queued

(* The loop takes the head of the ready queue.                             *)
LEMMA DurSchedule ==
  ASSUME NaiveMode, ChunksBounded, DurInv, [Next]_vars, Schedule
  PROVE  DurInv'
  <1>0. /\ ready \in Seq(Tasks) /\ Distinct(ready)
        /\ work_units \in Nat /\ clock \in Nat
        /\ MaxChunk \in Nat \ {0} /\ StartBudget \in Nat
    BY DurFacts
  <1>1. /\ ready # <<>> /\ holding = NoTask
        /\ holding' = Head(ready) /\ ready' = Tail(ready)
        /\ UNCHANGED <<clock, mpc, wpc, end_time, work_units, running, ppc,
                       wake>>
    BY DEF Schedule
  <1>2. QInv'
    BY QInvStep DEF DurInv
  <1>3. \A t \in Tasks : Queued(ready, holding, t)' <=> In(ready, t)
    BY <1>0, <1>1, ScheduleQueued
  <1>4. \A t \in Tasks : Queued(ready, holding, t) <=> In(ready, t)
    BY <1>1, TaskNames DEF Queued
  <1>5. Main \in Tasks /\ \A i \in Ids : Worker(i) \in Tasks
    BY DEF Tasks, WorkerSet
  <1>6. /\ Deadlines' /\ BeforeRun' /\ RunningPhase' /\ MainWoken'
        /\ WorkersQueued' /\ ClockCapped'
    BY <1>1, <1>3, <1>4, <1>5
    DEF DurInv, Deadlines, BeforeRun, RunningPhase, MainWoken, WorkersQueued,
        ClockCapped
  <1>7. StartsInTime'
    <2> SUFFICES ASSUME mpc' # "start", NEW j \in Ids, wpc'[j] = "new"
                 PROVE  clock' + MaxChunk
                          * StartPending(holding, work_units, ready, j)'
                          <= StartBudget
      BY DEF StartsInTime
    <2> DEFINE A == AheadOfT(ready, Worker(j))
               A1 == AheadOfT(Tail(ready), Worker(j))
    <2>1. clock + MaxChunk * (NaiveEvery * Cardinality(A)) <= StartBudget
      <3>1. clock + MaxChunk * StartPending(holding, work_units, ready, j)
              <= StartBudget
        BY <1>1 DEF DurInv, StartsInTime
      <3>2. StartPending(holding, work_units, ready, j)
              = NaiveEvery * Cardinality(A)
        <4>1. NoTask # Worker(j) /\ NoTask \notin WorkerSet
          BY TaskNames DEF Tasks, WorkerSet
        <4>2. QED
          BY <1>1, <4>1, AheadTFacts DEF StartPending, RemOf, NaiveEvery
      <3>3. QED
        BY <3>1, <3>2
    <2>2. In(ready, Worker(j))
      BY <1>1, <1>4, <1>5 DEF DurInv, WorkersQueued
    <2>3. /\ StartPending(holding, work_units, ready, j)' \in Nat
          /\ StartPending(holding, work_units, ready, j)'
               <= NaiveEvery * Cardinality(A)
      <3>1. StartPending(holding, work_units, ready, j)'
              = StartPending(Head(ready), work_units, Tail(ready), j)
        BY <1>1
      <3>2. /\ A1 \subseteq A /\ A \subseteq Ids
            /\ Cardinality(A) \in 0..Workers /\ Cardinality(A1) \in 0..Workers
        BY <1>0, <1>1, AheadTTail, AheadTFacts
      <3>3. CASE Head(ready) = Worker(j)
        BY <1>0, <3>1, <3>2, <3>3 DEF StartPending, NaiveEvery
      <3>4. CASE Head(ready) \in WorkerSet /\ Head(ready) # Worker(j)
        <4>1. PICK k \in Ids : Head(ready) = Worker(k)
          BY <3>4 DEF WorkerSet
        <4>2. In(Tail(ready), Worker(j))
          BY <1>0, <1>1, <2>2, <3>4, TailQueue
        <4>3. k \in A /\ A1 \subseteq A \ {k}
          BY <1>0, <1>1, <4>1, <4>2, <3>2, AheadTTail
        <4>4. Cardinality(A1) + 1 <= Cardinality(A)
          BY <3>2, <4>3, AheadShrink
        <4>5. StartPending(Head(ready), work_units, Tail(ready), j)
                = RemOf(Head(ready), work_units) + NaiveEvery * Cardinality(A1)
              /\ RemOf(Head(ready), work_units) \in 0..NaiveEvery
          BY <1>0, <3>4 DEF StartPending, RemOf, NaiveEvery
        <4>6. QED
          BY <3>1, <3>2, <4>4, <4>5 DEF NaiveEvery
      <3>5. CASE Head(ready) \notin WorkerSet
        <4>1. StartPending(Head(ready), work_units, Tail(ready), j)
                = NaiveEvery * Cardinality(A1)
          <5>1. Head(ready) # Worker(j)
            BY <3>5 DEF WorkerSet
          <5>2. QED
            BY <3>5, <5>1, AheadTFacts DEF StartPending, RemOf, NaiveEvery
        <4>2. Cardinality(A1) <= Cardinality(A)
          BY <3>2, AheadSub
        <4>3. QED
          BY <3>1, <3>2, <4>1, <4>2 DEF NaiveEvery
      <3>6. QED
        BY <3>3, <3>4, <3>5
    <2>4. Cardinality(A) \in 0..Workers
      BY AheadTFacts
    <2>5. MaxChunk * StartPending(holding, work_units, ready, j)'
            <= MaxChunk * (NaiveEvery * Cardinality(A))
      BY <1>0, <2>3, <2>4, MulMono DEF NaiveEvery
    <2>6. QED
      BY <1>0, <1>1, <2>1, <2>3, <2>4, <2>5, MulMono DEF NaiveEvery
  <1>8. QED
    BY <1>2, <1>6, <1>7 DEF DurInv

(* A queue of tasks that holds none of them is empty.                      *)
LEMMA EmptyQueue ==
  ASSUME NEW q \in Seq(Tasks), \A t \in Tasks : ~In(q, t)
  PROVE  q = <<>>
  <1>1. Len(q) = 0
    BY DEF In
  <1>2. QED
    BY <1>1, EmptySeq

(* The queue StartRun builds from an empty one: worker i at place i + 1,   *)
(* the probe last.                                                         *)
LEMMA StartQueue ==
  LET R == <<>> \o [k \in 1..Workers |-> Worker(k - 1)] \o <<Probe>>
  IN  /\ R \in Seq(Tasks)
      /\ \A i \in Ids : In(R, Worker(i))
  <1> DEFINE W == [k \in 1..Workers |-> Worker(k - 1)]
             R == <<>> \o W \o <<Probe>>
  <1>1. W \in Seq(Tasks) /\ Len(W) = Workers
    BY WorkersAssumption DEF Tasks, WorkerSet, Ids
  <1>2. <<>> \o W = W
    BY <1>1, ConcatEmptySeq
  <1>3. /\ R \in Seq(Tasks) /\ Len(R) = Workers + 1
        /\ \A k \in 1..Workers : R[k] = W[k]
    <2>1. <<Probe>> \in Seq(Tasks)
      BY DEF Tasks
    <2>2. QED
      BY <1>1, <1>2, <2>1, ConcatProperties, WorkersAssumption
  <1>4. ASSUME NEW i \in Ids PROVE In(R, Worker(i))
    <2>1. i + 1 \in 1..Len(R) /\ R[i + 1] = Worker(i)
      BY <1>3, WorkersAssumption DEF Ids
    <2>2. QED
      BY <2>1 DEF In
  <1>5. QED
    BY <1>3, <1>4

(* The workers and the probe are created; run awaits the gather.           *)
LEMMA DurStartRun ==
  ASSUME NaiveMode, ChunksBounded, DurInv, [Next]_vars, StartRun
  PROVE  DurInv'
  <1>0. /\ ready \in Seq(Tasks) /\ holding \in Tasks \cup {NoTask}
        /\ work_units \in Nat /\ QInv
        /\ MaxChunk \in Nat \ {0} /\ StartBudget \in Nat
        /\ StartBudget = MaxChunk * (NaiveEvery * (Workers - 1))
    BY DurFacts, BudgetFacts
  <1>1. /\ holding = Main /\ mpc = "start" /\ mpc' = "gather"
        /\ holding' = NoTask
        /\ ready' = ready \o [k \in 1..Workers |-> Worker(k - 1)] \o <<Probe>>
        /\ UNCHANGED <<clock, wpc, end_time, work_units, running, ppc, wake>>
    BY DEF StartRun, Release
  <1>2. QInv'
    BY QInvStep DEF DurInv
  <1>3. ready = <<>>
    <2>1. \A t \in Tasks : ~In(ready, t)
      BY <1>0, <1>1, TaskNames DEF QInv, Tasks
    <2>2. QED
      BY <1>0, <2>1, EmptyQueue
  <1>4. /\ \A i \in Ids : In(ready', Worker(i))
        /\ Distinct(ready')
    BY <1>1, <1>2, <1>3, StartQueue DEF QInv
  <1>5. /\ clock = 0 /\ \A i \in Ids : wpc[i] = "new"
    BY <1>1 DEF DurInv, BeforeRun
  <1>6. /\ Deadlines' /\ BeforeRun' /\ RunningPhase' /\ WorkersQueued'
        /\ ClockCapped'
    BY <1>1, <1>4 DEF DurInv, Deadlines, BeforeRun, RunningPhase,
       WorkersQueued, ClockCapped, Queued
  <1>7. MainWoken'
    <2>1. 0 \in Ids /\ wpc'[0] # "done"
      BY <1>1, <1>5, WorkersAssumption DEF Ids
    <2>2. QED
      BY <2>1 DEF MainWoken
  <1>8. StartsInTime'
    <2> SUFFICES ASSUME NEW j \in Ids
                 PROVE  clock' + MaxChunk
                          * StartPending(holding, work_units, ready, j)'
                          <= StartBudget
      BY DEF StartsInTime
    <2>1. /\ IsFiniteSet(Ids) /\ Cardinality(Ids) = Workers
      BY WorkersAssumption, FS_Interval DEF Ids
    <2>2. AheadOfT(ready', Worker(j)) \subseteq Ids \ {j}
      BY <1>2, <1>4, AheadTSelf, AheadTFacts DEF QInv, TypeOK, Tasks, WorkerSet
    <2>3. Cardinality(AheadOfT(ready', Worker(j))) + 1 <= Workers
      BY <2>1, <2>2, AheadShrink
    <2>4. StartPending(holding, work_units, ready, j)'
            = NaiveEvery * Cardinality(AheadOfT(ready', Worker(j)))
      <3>1. NoTask # Worker(j) /\ NoTask \notin WorkerSet
        BY TaskNames DEF Tasks, WorkerSet
      <3>2. QED
        BY <1>1, <3>1, AheadTFacts DEF StartPending, RemOf, NaiveEvery
    <2>5. /\ Cardinality(AheadOfT(ready', Worker(j))) \in Nat
          /\ Cardinality(AheadOfT(ready', Worker(j))) <= Workers - 1
      BY <2>3, AheadTFacts, WorkersAssumption
    <2>6. /\ NaiveEvery * Cardinality(AheadOfT(ready', Worker(j))) \in Nat
          /\ NaiveEvery * (Workers - 1) \in Nat
          /\ NaiveEvery * Cardinality(AheadOfT(ready', Worker(j)))
               <= NaiveEvery * (Workers - 1)
      BY <2>5, WorkersAssumption DEF NaiveEvery
    <2>7. MaxChunk * (NaiveEvery * Cardinality(AheadOfT(ready', Worker(j))))
            <= MaxChunk * (NaiveEvery * (Workers - 1))
      BY <1>0, <2>6, MulMono
    <2>8. QED
      BY <1>0, <1>1, <1>5, <2>4, <2>5, <2>6, <2>7
  <1>9. QED
    BY <1>2, <1>6, <1>7, <1>8 DEF DurInv

(* Worker i takes its end_time: the loop is its own, so it starts within   *)
(* the start budget.                                                       *)
LEMMA DurWorkerStart ==
  ASSUME NaiveMode, ChunksBounded, DurInv, [Next]_vars,
         NEW i \in Ids, WorkerStart(i)
  PROVE  DurInv'
  <1>0. /\ clock \in Nat /\ work_units \in Nat /\ QInv
        /\ MaxChunk \in Nat \ {0} /\ StartBudget \in Nat
    BY DurFacts
  <1>1. ~(Mode = "morpheus" /\ (~Native \/ bound # -1))
    BY DEF NaiveMode
  <1>2. /\ holding = Worker(i) /\ wpc[i] = "new"
        /\ wpc' = [wpc EXCEPT ![i] = "loop"]
        /\ end_time' = [end_time EXCEPT ![i] = clock + Duration]
        /\ UNCHANGED <<clock, ready, holding, mpc, work_units, running, ppc,
                       wake>>
    BY <1>1 DEF WorkerStart
  <1>3. QInv'
    BY QInvStep DEF DurInv
  <1>4. mpc # "start"
    <2>1. Worker(i) \in WorkerSet
      BY DEF WorkerSet
    <2>2. QED
      BY <1>0, <1>2, <2>1 DEF QInv
  <1>5. clock <= StartBudget
    <2>1. clock + MaxChunk * StartPending(holding, work_units, ready, i)
            <= StartBudget
      BY <1>2, <1>4 DEF DurInv, StartsInTime
    <2>2. StartPending(holding, work_units, ready, i) = 0
      BY <1>2 DEF StartPending
    <2>3. QED
      BY <1>0, <2>1, <2>2
  <1>6. Deadlines'
    <2> SUFFICES ASSUME NEW k \in Ids
                 PROVE  /\ wpc'[k] # "failed"
                        /\ end_time'[k] <= Duration + StartBudget
      BY DEF Deadlines
    <2>1. /\ wpc \in [Ids -> {"new", "loop", "done", "failed"}]
          /\ end_time \in [Ids -> Nat]
      BY DurFacts DEF TypeOK
    <2>2. CASE k = i
      BY <1>0, <1>2, <1>5, <2>1, <2>2, DurationAssumption
    <2>3. CASE k # i
      BY <1>2, <2>1, <2>3 DEF DurInv, Deadlines
    <2>4. QED
      BY <2>2, <2>3
  <1>7. /\ BeforeRun' /\ RunningPhase' /\ WorkersQueued' /\ StartsInTime'
        /\ ClockCapped'
    BY <1>2, <1>4 DEF DurInv, BeforeRun, RunningPhase, WorkersQueued,
       StartsInTime, ClockCapped, Queued
  <1>8. MainWoken'
    BY <1>2 DEF MainWoken
  <1>9. QED
    BY <1>3, <1>6, <1>7, <1>8 DEF DurInv

(* One chunk of work by worker i: it runs only before i's end_time, and   *)
(* brings every worker still to start one chunk nearer to its turn.        *)
LEMMA DurWorkChunk ==
  ASSUME NaiveMode, ChunksBounded, DurInv, [Next]_vars,
         NEW i \in Ids, NEW c \in ChunkTicks, WorkChunk(i, c)
  PROVE  DurInv'
  <1>0. /\ ready \in Seq(Tasks) /\ clock \in Nat /\ work_units \in Nat
        /\ QInv /\ Distinct(ready)
        /\ MaxChunk \in Nat \ {0} /\ StartBudget \in Nat /\ RunCap \in Nat
        /\ RunCap = Duration + StartBudget + MaxChunk
        /\ c \in Nat /\ c <= MaxChunk
    BY DurFacts, ChunkTicksAssumption
  <1>1. /\ holding = Worker(i) /\ wpc[i] = "loop" /\ clock < end_time[i]
        /\ clock' = clock + c /\ work_units' = work_units + 1
        /\ UNCHANGED <<mpc, wpc, end_time, running, ppc, wake>>
    BY DEF WorkChunk
  <1>2. YieldsAfter(work_units + 1) <=> (work_units + 1) % NaiveEvery = 0
    BY DEF YieldsAfter, NaiveMode
  <1>3. \/ /\ (work_units + 1) % NaiveEvery = 0
           /\ ready' = Append(ready, Worker(i)) /\ holding' = NoTask
        \/ /\ (work_units + 1) % NaiveEvery # 0
           /\ ready' = ready /\ holding' = holding
    BY <1>2 DEF WorkChunk, Release
  <1>4. QInv'
    BY QInvStep DEF DurInv
  <1>5. /\ Worker(i) \in Tasks /\ Worker(i) \in WorkerSet
        /\ mpc # "start"
    BY <1>0, <1>1 DEF QInv, Tasks, WorkerSet
  <1>6. \A t : In(ready, t) => In(ready', t)
    <2>1. CASE ready' = Append(ready, Worker(i))
      BY <1>0, <1>5, <2>1, AppendQueue
    <2>2. CASE ready' = ready
      BY <2>2
    <2>3. QED
      BY <1>3, <2>1, <2>2
  <1>7. /\ Deadlines' /\ BeforeRun' /\ RunningPhase'
    BY <1>1, <1>5 DEF DurInv, Deadlines, BeforeRun, RunningPhase
  <1>8. MainWoken'
    BY <1>1 DEF MainWoken
  <1>9. WorkersQueued'
    <2> SUFFICES ASSUME NEW k \in Ids, wpc'[k] \in {"new", "loop"}
                 PROVE  Queued(ready, holding, Worker(k))'
      BY DEF WorkersQueued
    <2>1. CASE k = i
      <3>1. CASE ready' = Append(ready, Worker(i))
        BY <1>0, <1>5, <2>1, <3>1, AppendQueue DEF Queued
      <3>2. CASE holding' = holding
        BY <1>1, <2>1, <3>2 DEF Queued
      <3>3. QED
        BY <1>3, <3>1, <3>2
    <2>2. CASE k # i
      <3>1. In(ready, Worker(k))
        BY <1>1, <1>5, <2>2, TaskNames DEF DurInv, WorkersQueued, Queued
      <3>2. QED
        BY <1>6, <3>1 DEF Queued
    <2>3. QED
      BY <2>1, <2>2
  <1>10. StartsInTime'
    <2> SUFFICES ASSUME NEW j \in Ids, wpc'[j] = "new"
                 PROVE  clock' + MaxChunk
                          * StartPending(holding, work_units, ready, j)'
                          <= StartBudget
      BY <1>1 DEF StartsInTime
    <2>1. j # i /\ Worker(j) # Worker(i)
      BY <1>1, TaskNames
    <2>2. clock + MaxChunk * StartPending(holding, work_units, ready, j)
            <= StartBudget
      BY <1>1, <1>5 DEF DurInv, StartsInTime
    <2>3. /\ Cardinality(AheadOfT(ready, Worker(j))) \in 0..Workers
          /\ StartPending(holding, work_units, ready, j)
               = NaiveEvery - (work_units % NaiveEvery)
                   + NaiveEvery * Cardinality(AheadOfT(ready, Worker(j)))
      BY <1>1, <1>5, <2>1, AheadTFacts DEF StartPending, RemOf
    <2>4. /\ StartPending(holding, work_units, ready, j)' \in Nat
          /\ StartPending(holding, work_units, ready, j)' + 1
               <= StartPending(holding, work_units, ready, j)
      <3>1. CASE (work_units + 1) % NaiveEvery = 0
        <4>1. ready' = Append(ready, Worker(i)) /\ holding' = NoTask
          BY <1>3, <3>1
        <4>2. AheadOfT(ready', Worker(j)) \subseteq AheadOfT(ready, Worker(j))
          BY <1>0, <1>5, <2>1, <4>1, AheadTAppend
        <4>3. Cardinality(AheadOfT(ready', Worker(j)))
                <= Cardinality(AheadOfT(ready, Worker(j)))
          BY <4>2, AheadTFacts, AheadSub
        <4>4. StartPending(holding, work_units, ready, j)'
                = NaiveEvery * Cardinality(AheadOfT(ready', Worker(j)))
          <5>1. NoTask # Worker(j) /\ NoTask \notin WorkerSet
            BY TaskNames DEF Tasks, WorkerSet
          <5>2. QED
            BY <4>1, <5>1, AheadTFacts DEF StartPending, RemOf, NaiveEvery
        <4>5. QED
          BY <1>0, <2>3, <3>1, <4>3, <4>4, AheadTFacts DEF NaiveEvery
      <3>2. CASE (work_units + 1) % NaiveEvery # 0
        <4>1. ready' = ready /\ holding' = holding
          BY <1>3, <3>2
        <4>2. StartPending(holding, work_units, ready, j)'
                = NaiveEvery - ((work_units + 1) % NaiveEvery)
                    + NaiveEvery * Cardinality(AheadOfT(ready, Worker(j)))
          BY <1>1, <1>5, <2>1, <4>1 DEF StartPending, RemOf
        <4>3. (work_units + 1) % NaiveEvery = (work_units % NaiveEvery) + 1
          BY <1>0, <3>2 DEF NaiveEvery
        <4>4. QED
          BY <1>0, <2>3, <4>2, <4>3 DEF NaiveEvery
      <3>3. QED
        BY <1>3, <3>1, <3>2
    <2>5. StartPending(holding, work_units, ready, j) \in Nat
      BY <1>0, SPFacts
    <2>6. MaxChunk * StartPending(holding, work_units, ready, j)' + MaxChunk
            <= MaxChunk * StartPending(holding, work_units, ready, j)
      BY <1>0, <2>4, <2>5, MulMono
    <2>7. /\ MaxChunk * StartPending(holding, work_units, ready, j)' \in Nat
          /\ MaxChunk * StartPending(holding, work_units, ready, j) \in Nat
      BY <1>0, <2>4, <2>5
    <2>8. QED
      BY <1>0, <1>1, <2>2, <2>6, <2>7
  <1>11. ClockCapped'
    <2>1. end_time[i] <= Duration + StartBudget
      BY DEF DurInv, Deadlines
    <2>2. end_time[i] \in Nat
      BY DurFacts DEF TypeOK
    <2>3. clock' < RunCap
      BY <1>0, <1>1, <2>1, <2>2, DurationAssumption
    <2>4. QED
      BY <1>1, <2>3 DEF DurInv, ClockCapped
  <1>12. QED
    BY <1>4, <1>7, <1>8, <1>9, <1>10, <1>11 DEF DurInv

(* A step that releases the loop without moving the clock, with no fewer   *)
(* workers ahead of any worker still to start, starts none of them later. *)
LEMMA StartsRelease ==
  ASSUME ChunksBounded, DurInv,
         clock' = clock, work_units' = work_units, holding' = NoTask,
         mpc # "start",
         \A j \in Ids : wpc'[j] = "new" =>
            /\ wpc[j] = "new" /\ holding # Worker(j)
            /\ AheadOfT(ready', Worker(j)) \subseteq AheadOfT(ready, Worker(j))
  PROVE  StartsInTime'
  <1> SUFFICES ASSUME NEW j \in Ids, wpc'[j] = "new"
               PROVE  clock' + MaxChunk
                        * StartPending(holding, work_units, ready, j)'
                        <= StartBudget
    BY DEF StartsInTime
  <1>0. /\ clock \in Nat /\ work_units \in Nat
        /\ MaxChunk \in Nat \ {0} /\ StartBudget \in Nat
    BY DurFacts
  <1>1. /\ wpc[j] = "new" /\ holding # Worker(j)
        /\ AheadOfT(ready', Worker(j)) \subseteq AheadOfT(ready, Worker(j))
    OBVIOUS
  <1>2. clock + MaxChunk * StartPending(holding, work_units, ready, j)
          <= StartBudget
    BY <1>1 DEF DurInv, StartsInTime
  <1>3. /\ Cardinality(AheadOfT(ready', Worker(j))) \in 0..Workers
        /\ Cardinality(AheadOfT(ready, Worker(j))) \in 0..Workers
        /\ Cardinality(AheadOfT(ready', Worker(j)))
             <= Cardinality(AheadOfT(ready, Worker(j)))
    BY <1>1, AheadTFacts, AheadSub
  <1>4. StartPending(holding, work_units, ready, j)'
          = NaiveEvery * Cardinality(AheadOfT(ready', Worker(j)))
    <2>1. NoTask # Worker(j) /\ NoTask \notin WorkerSet
      BY TaskNames DEF Tasks, WorkerSet
    <2>2. QED
      BY <2>1, AheadTFacts DEF StartPending, RemOf, NaiveEvery
  <1>5. StartPending(holding, work_units, ready, j)
          >= NaiveEvery * Cardinality(AheadOfT(ready, Worker(j)))
    BY <1>0, <1>1, <1>3 DEF StartPending, RemOf, NaiveEvery
  <1>6. /\ StartPending(holding, work_units, ready, j)' \in Nat
        /\ StartPending(holding, work_units, ready, j) \in Nat
        /\ StartPending(holding, work_units, ready, j)'
             <= StartPending(holding, work_units, ready, j)
    <2>1. StartPending(holding, work_units, ready, j)' \in Nat
      BY <1>3, <1>4 DEF NaiveEvery
    <2>2. StartPending(holding, work_units, ready, j) \in Nat
      BY <1>0, <1>3 DEF StartPending, RemOf, NaiveEvery
    <2>3. QED
      BY <1>3, <1>4, <1>5, <2>1, <2>2 DEF NaiveEvery
  <1>7. MaxChunk * StartPending(holding, work_units, ready, j)'
          <= MaxChunk * StartPending(holding, work_units, ready, j)
    BY <1>0, <1>6, MulMono
  <1>8. /\ MaxChunk * StartPending(holding, work_units, ready, j)' \in Nat
        /\ MaxChunk * StartPending(holding, work_units, ready, j) \in Nat
    BY <1>0, <1>6
  <1>9. QED
    BY <1>0, <1>2, <1>7, <1>8

(* Worker i returns past its end_time; the last one wakes main.            *)
LEMMA DurWorkerEnd ==
  ASSUME ChunksBounded, DurInv, [Next]_vars, NEW i \in Ids, WorkerEnd(i)
  PROVE  DurInv'
  <1>0. /\ ready \in Seq(Tasks) /\ Distinct(ready) /\ QInv
        /\ wpc \in [Ids -> {"new", "loop", "done", "failed"}]
        /\ end_time \in [Ids -> Nat]
    BY DurFacts DEF TypeOK
  <1>1. /\ holding = Worker(i) /\ wpc[i] = "loop"
        /\ wpc' = [wpc EXCEPT ![i] = "done"]
        /\ ready' = IF \A j \in Ids \ {i} : wpc[j] = "done"
                      THEN WakeUp(ready, Main) ELSE ready
        /\ holding' = NoTask
        /\ UNCHANGED <<clock, mpc, end_time, work_units, running, ppc, wake>>
    BY DEF WorkerEnd, Release
  <1>2. QInv'
    BY QInvStep DEF DurInv
  <1>3. Worker(i) \in WorkerSet /\ mpc # "start"
    BY <1>0, <1>1 DEF QInv, WorkerSet
  <1>4. /\ \A t : In(ready, t) => In(ready', t)
        /\ \A j \in Ids : AheadOfT(ready', Worker(j))
                            \subseteq AheadOfT(ready, Worker(j))
    <2>1. \A j \in Ids : Worker(j) # Main
      BY TaskNames DEF WorkerSet
    <2>2. CASE \A j \in Ids \ {i} : wpc[j] = "done"
      BY <1>0, <1>1, <2>1, <2>2, WakeUpQueue, AheadTWake
    <2>3. CASE ~\A j \in Ids \ {i} : wpc[j] = "done"
      BY <1>1, <2>3
    <2>4. QED
      BY <2>2, <2>3
  <1>5. Deadlines'
    <2> SUFFICES ASSUME NEW k \in Ids
                 PROVE  /\ wpc'[k] # "failed"
                        /\ end_time'[k] <= Duration + StartBudget
      BY DEF Deadlines
    <2>1. CASE k = i
      BY <1>0, <1>1, <2>1 DEF DurInv, Deadlines
    <2>2. CASE k # i
      BY <1>0, <1>1, <2>2 DEF DurInv, Deadlines
    <2>3. QED
      BY <2>1, <2>2
  <1>6. BeforeRun' /\ RunningPhase' /\ ClockCapped'
    BY <1>1, <1>3 DEF DurInv, BeforeRun, RunningPhase, ClockCapped
  <1>7. MainWoken'
    <2> SUFFICES ASSUME mpc' = "gather", \A k \in Ids : wpc'[k] = "done"
                 PROVE  In(ready', Main)
      BY DEF MainWoken, Queued
    <2>1. \A j \in Ids \ {i} : wpc[j] = "done"
      BY <1>0, <1>1
    <2>2. QED
      BY <1>0, <1>1, <2>1, WakeUpQueue
  <1>8. WorkersQueued'
    <2> SUFFICES ASSUME NEW k \in Ids, wpc'[k] \in {"new", "loop"}
                 PROVE  In(ready', Worker(k))
      BY <1>1 DEF WorkersQueued, Queued
    <2>1. k # i /\ wpc[k] = wpc'[k]
      BY <1>0, <1>1
    <2>2. Worker(k) # Worker(i)
      BY <2>1, TaskNames
    <2>3. In(ready, Worker(k))
      BY <1>1, <1>3, <2>1, <2>2 DEF DurInv, WorkersQueued, Queued
    <2>4. QED
      BY <1>4, <2>3
  <1>9. StartsInTime'
    <2>1. \A j \in Ids : wpc'[j] = "new" =>
             /\ wpc[j] = "new" /\ holding # Worker(j)
             /\ AheadOfT(ready', Worker(j)) \subseteq AheadOfT(ready, Worker(j))
      BY <1>0, <1>1, <1>4, TaskNames
    <2>2. QED
      BY <1>1, <1>3, <2>1, StartsRelease
  <1>10. QED
    BY <1>2, <1>5, <1>6, <1>7, <1>8, <1>9 DEF DurInv

(* Main resumes after the gather: no worker failed, so running is cleared. *)
LEMMA DurGatherDone ==
  ASSUME ChunksBounded, DurInv, [Next]_vars, GatherDone
  PROVE  DurInv'
  <1>0. QInv
    BY DEF DurInv
  <1>1. ~\E i \in Ids : wpc[i] = "failed"
    BY DEF DurInv, Deadlines
  <1>2. /\ holding = Main /\ mpc = "gather" /\ running' = FALSE
        /\ mpc' \in {"report", "probe"} /\ holding' = NoTask
        /\ UNCHANGED <<clock, ready, wpc, end_time, work_units, ppc, wake>>
    BY <1>1 DEF GatherDone, Release
  <1>3. QInv'
    BY QInvStep DEF DurInv
  <1>4. /\ Deadlines' /\ BeforeRun' /\ RunningPhase' /\ MainWoken'
        /\ ClockCapped'
    BY <1>2 DEF DurInv, Deadlines, BeforeRun, RunningPhase, MainWoken,
       ClockCapped
  <1>5. WorkersQueued'
    BY <1>2, TaskNames DEF DurInv, WorkersQueued, Queued, WorkerSet
  <1>6. StartsInTime'
    <2>1. \A j \in Ids : Main # Worker(j)
      BY TaskNames DEF WorkerSet
    <2>2. QED
      BY <1>2, <2>1, StartsRelease
  <1>7. QED
    BY <1>3, <1>4, <1>5, <1>6 DEF DurInv

(* Main prints its report: the run is over.                                *)
LEMMA DurReport ==
  ASSUME ChunksBounded, DurInv, [Next]_vars, Report
  PROVE  DurInv'
  <1>1. /\ holding = Main /\ mpc \in {"report", "probe"}
        /\ mpc' \in {"stats_error", "done"} /\ holding' = NoTask
        /\ UNCHANGED <<clock, ready, wpc, end_time, work_units, running, ppc,
                       wake>>
    BY DEF Report, Release
  <1>2. QInv'
    BY QInvStep DEF DurInv
  <1>3. /\ Deadlines' /\ BeforeRun' /\ RunningPhase' /\ MainWoken'
        /\ ClockCapped'
    BY <1>1 DEF DurInv, Deadlines, BeforeRun, RunningPhase, MainWoken,
       ClockCapped
  <1>4. WorkersQueued'
    BY <1>1, TaskNames DEF DurInv, WorkersQueued, Queued, WorkerSet
  <1>5. StartsInTime'
    <2>1. \A j \in Ids : Main # Worker(j)
      BY TaskNames DEF WorkerSet
    <2>2. QED
      BY <1>1, <2>1, StartsRelease
  <1>6. QED
    BY <1>2, <1>3, <1>4, <1>5 DEF DurInv

(* The probe's while test: it measures while running, else it returns.     *)
LEMMA DurProbeLoop ==
  ASSUME ChunksBounded, DurInv, [Next]_vars, ProbeLoop
  PROVE  DurInv'
  <1>0. /\ ready \in Seq(Tasks) /\ Distinct(ready) /\ QInv
        /\ Probe \in Tasks /\ Probe # Main /\ Probe \notin WorkerSet
    BY DurFacts, TaskNames DEF Tasks
  <1>1. /\ holding = Probe /\ ppc \in {"new", "woken"} /\ holding' = NoTask
        /\ \/ /\ running /\ ppc' = "measuring"
              /\ ready' = Append(ready, Probe)
           \/ /\ ~running /\ ppc' = "done"
              /\ ready' \in {WakeUp(ready, Main), ready}
        /\ UNCHANGED <<clock, mpc, wpc, end_time, work_units, running, wake>>
    BY DEF ProbeLoop, Release
  <1>2. QInv'
    BY QInvStep DEF DurInv
  <1>3. mpc # "start"
    BY <1>0, <1>1 DEF QInv
  <1>4. /\ \A t : In(ready, t) => In(ready', t)
        /\ \A j \in Ids : AheadOfT(ready', Worker(j))
                            \subseteq AheadOfT(ready, Worker(j))
    <2>1. \A j \in Ids : Worker(j) # Main /\ Worker(j) # Probe
      BY <1>0, TaskNames DEF WorkerSet
    <2>2. CASE ready' = Append(ready, Probe)
      BY <1>0, <2>1, <2>2, AppendQueue, AheadTAppend
    <2>3. CASE ready' = WakeUp(ready, Main)
      BY <1>0, <2>1, <2>3, WakeUpQueue, AheadTWake
    <2>4. CASE ready' = ready
      BY <2>4
    <2>5. QED
      BY <1>1, <2>2, <2>3, <2>4
  <1>5. /\ Deadlines' /\ BeforeRun' /\ RunningPhase'
    BY <1>1, <1>3 DEF DurInv, Deadlines, BeforeRun, RunningPhase
  <1>6. MainWoken' /\ WorkersQueued'
    BY <1>0, <1>1, <1>4, TaskNames
       DEF DurInv, MainWoken, WorkersQueued, Queued, WorkerSet
  <1>7. ClockCapped'
    BY <1>1 DEF DurInv, ClockCapped
  <1>8. StartsInTime'
    <2>1. \A j \in Ids : Probe # Worker(j)
      BY <1>0 DEF WorkerSet
    <2>2. QED
      BY <1>1, <1>3, <1>4, <2>1, StartsRelease
  <1>9. QED
    BY <1>2, <1>5, <1>6, <1>7, <1>8 DEF DurInv

(* The probe records a sample and sleeps: it was measuring, so the run is *)
(* not over and the timer is set before RunCap + ProbeSleep.               *)
LEMMA DurProbeSample ==
  ASSUME ChunksBounded, DurInv, [Next]_vars, ProbeSample
  PROVE  DurInv'
  <1>0. /\ QInv /\ clock \in Nat /\ RunCap \in Nat
        /\ Probe # Main /\ Probe \notin WorkerSet
    BY DurFacts, TaskNames
  <1>1. /\ holding = Probe /\ ppc = "measuring" /\ ppc' = "sleeping"
        /\ wake' = clock + ProbeSleep /\ holding' = NoTask
        /\ UNCHANGED <<clock, ready, mpc, wpc, end_time, work_units, running>>
    BY DEF ProbeSample, Release
  <1>2. QInv'
    BY QInvStep DEF DurInv
  <1>3. mpc # "start"
    BY <1>0, <1>1 DEF QInv
  <1>4. /\ Deadlines' /\ BeforeRun' /\ RunningPhase'
    BY <1>1, <1>3 DEF DurInv, Deadlines, BeforeRun, RunningPhase
  <1>5. MainWoken' /\ WorkersQueued'
    BY <1>0, <1>1 DEF DurInv, MainWoken, WorkersQueued, Queued, WorkerSet
  <1>6. ClockCapped'
    <2>1. clock < RunCap
      BY <1>1 DEF DurInv, ClockCapped
    <2>2. QED
      BY <1>0, <1>1, <2>1 DEF ClockCapped, ProbeSleep
  <1>7. StartsInTime'
    <2>1. \A j \in Ids : Probe # Worker(j)
      BY <1>0 DEF WorkerSet
    <2>2. QED
      BY <1>1, <1>3, <2>1, StartsRelease
  <1>8. QED
    BY <1>2, <1>4, <1>5, <1>6, <1>7 DEF DurInv

(* The probe's timer is due: it is queued behind every ready task.         *)
LEMMA DurTimerDue ==
  ASSUME ChunksBounded, DurInv, [Next]_vars, TimerDue
  PROVE  DurInv'
  <1>0. /\ ready \in Seq(Tasks) /\ QInv
        /\ Probe \in Tasks /\ \A j \in Ids : Worker(j) # Probe
    BY DurFacts, TaskNames DEF Tasks, WorkerSet
  <1>1. /\ holding = NoTask /\ ppc = "sleeping" /\ ppc' = "woken"
        /\ ready' = Append(ready, Probe)
        /\ UNCHANGED <<clock, holding, mpc, wpc, end_time, work_units,
                       running, wake>>
    BY DEF TimerDue
  <1>2. QInv'
    BY QInvStep DEF DurInv
  <1>3. mpc # "start"
    BY <1>1 DEF DurInv, QInv
  <1>4. /\ \A t : In(ready, t) => In(ready', t)
        /\ \A j \in Ids : AheadOfT(ready', Worker(j))
                            \subseteq AheadOfT(ready, Worker(j))
    BY <1>0, <1>1, AppendQueue, AheadTAppend
  <1>5. /\ Deadlines' /\ BeforeRun' /\ RunningPhase' /\ ClockCapped'
    BY <1>1, <1>3 DEF DurInv, Deadlines, BeforeRun, RunningPhase,
       ClockCapped
  <1>6. MainWoken' /\ WorkersQueued'
    BY <1>1, <1>4 DEF DurInv, MainWoken, WorkersQueued, Queued
  <1>7. StartsInTime'
    <2>1. \A j \in Ids : NoTask # Worker(j)
      BY TaskNames DEF Tasks, WorkerSet
    <2>2. QED
      BY <1>1, <1>3, <1>4, <2>1, StartsRelease
  <1>8. QED
    BY <1>2, <1>5, <1>6, <1>7 DEF DurInv

(* select blocks until the probe's timer: nothing is queued, so no worker  *)
(* is unfinished and main was not woken, hence running is already clear.  *)
LEMMA DurIdle ==
  ASSUME ChunksBounded, DurInv, [Next]_vars, Idle
  PROVE  DurInv'
  <1>0. /\ QInv
        /\ wpc \in [Ids -> {"new", "loop", "done", "failed"}]
    BY DurFacts DEF TypeOK
  <1>1. /\ holding = NoTask /\ ready = <<>> /\ ppc = "sleeping"
        /\ clock < wake /\ clock' = wake
        /\ UNCHANGED <<ready, holding, mpc, wpc, end_time, work_units,
                       running, ppc, wake>>
    BY DEF Idle
  <1>2. QInv'
    BY QInvStep DEF DurInv
  <1>3. mpc # "start"
    BY <1>1 DEF DurInv, QInv
  <1>4. \A t \in Tasks : ~Queued(ready, holding, t)
    BY <1>1, TaskNames DEF Queued, In
  <1>5. \A i \in Ids : wpc[i] = "done"
    <2> SUFFICES ASSUME NEW i \in Ids PROVE wpc[i] = "done"
      OBVIOUS
    <2>1. wpc[i] # "failed"
      BY DEF DurInv, Deadlines
    <2>2. ~Queued(ready, holding, Worker(i))
      BY <1>4 DEF Tasks, WorkerSet
    <2>3. QED
      BY <1>0, <1>3, <2>1, <2>2 DEF DurInv, WorkersQueued
  <1>6. ~running
    <2>1. ~Queued(ready, holding, Main)
      BY <1>4 DEF Tasks
    <2>2. mpc # "gather"
      BY <1>5, <2>1 DEF DurInv, MainWoken
    <2>3. QED
      BY <1>3, <2>2 DEF DurInv, RunningPhase
  <1>7. ClockCapped'
    <2>1. wake \in Nat /\ wake < RunCap + ProbeSleep
      BY DurFacts DEF DurInv, ClockCapped
    <2>2. QED
      BY <1>1, <1>6, <2>1 DEF ClockCapped
  <1>8. StartsInTime'
    BY <1>1, <1>5 DEF StartsInTime
  <1>9. /\ Deadlines' /\ BeforeRun' /\ RunningPhase' /\ MainWoken'
        /\ WorkersQueued'
    BY <1>1, <1>3 DEF DurInv, Deadlines, BeforeRun, RunningPhase,
       MainWoken, WorkersQueued, Queued
  <1>10. QED
    BY <1>2, <1>7, <1>8, <1>9 DEF DurInv

(* Every step of the loop keeps DurInv.                                    *)
LEMMA DurStep ==
  ASSUME NaiveMode, ChunksBounded, DurInv, [Next]_vars
  PROVE  DurInv'
  <1>1. CASE Schedule
    BY <1>1, DurSchedule
  <1>2. CASE StartRun
    BY <1>2, DurStartRun
  <1>3. ASSUME NEW i \in Ids, WorkerStart(i) PROVE DurInv'
    BY <1>3, DurWorkerStart
  <1>4. ASSUME NEW i \in Ids, NEW c \in ChunkTicks, WorkChunk(i, c)
        PROVE  DurInv'
    BY <1>4, DurWorkChunk
  <1>5. ASSUME NEW i \in Ids, WorkerEnd(i) PROVE DurInv'
    BY <1>5, DurWorkerEnd
  <1>6. CASE GatherDone
    BY <1>6, DurGatherDone
  <1>7. CASE ProbeLoop
    BY <1>7, DurProbeLoop
  <1>8. CASE ProbeSample
    BY <1>8, DurProbeSample
  <1>9. CASE TimerDue
    BY <1>9, DurTimerDue
  <1>10. CASE Idle
    BY <1>10, DurIdle
  <1>11. CASE Report
    BY <1>11, DurReport
  <1>12. ~KernelHint
    BY DEF NaiveMode, KernelHint
  <1>13. CASE UNCHANGED vars
    <2>1. /\ clock' = clock /\ ready' = ready /\ holding' = holding
          /\ mpc' = mpc /\ wpc' = wpc /\ end_time' = end_time
          /\ work_units' = work_units /\ running' = running /\ ppc' = ppc
          /\ pstart' = pstart /\ wake' = wake /\ samples' = samples
          /\ maxlat' = maxlat /\ bound' = bound /\ hint' = hint
      BY <1>13 DEF vars
    <2>2. QInv'
      BY QInvStep DEF DurInv
    <2>3. /\ Deadlines' /\ BeforeRun' /\ RunningPhase' /\ MainWoken'
          /\ WorkersQueued' /\ ClockCapped'
      BY <2>1 DEF DurInv, Deadlines, BeforeRun, RunningPhase, MainWoken,
         WorkersQueued, ClockCapped, Queued, In
    <2>4. StartsInTime'
      BY <2>1 DEF DurInv, StartsInTime, StartPending, RemOf, AheadOfT
    <2>5. QED
      BY <2>2, <2>3, <2>4 DEF DurInv
  <1>14. QED
    BY <1>1, <1>2, <1>3, <1>4, <1>5, <1>6, <1>7, <1>8, <1>9, <1>10,
       <1>11, <1>12, <1>13 DEF Next

(* In naive mode, whatever the number of workers, the duration and the    *)
(* chunk durations, when main prints the throughput (Report in            *)
(* benchmark.py's main) the clock is within one round of the workers past *)
(* --duration: every worker reaches its first turn within the start       *)
(* budget, stops at its end_time, and after the gather at most one probe  *)
(* sleep passes.                                                           *)
THEOREM DurationHonestHolds ==
  ASSUME NaiveMode, ChunksBounded
  PROVE  Spec => []DurationHonest
  <1>1. DurInv => DurationHonest
    <2> SUFFICES ASSUME DurInv
                 PROVE  clock <= Duration + Workers * NaiveEvery * MaxChunk
      BY DEF DurationHonest
    <2>1. /\ clock \in Nat /\ wake \in Nat /\ MaxChunk \in Nat \ {0}
          /\ StartBudget \in Nat /\ RunCap = Duration + StartBudget + MaxChunk
          /\ Budget = StartBudget + MaxChunk * NaiveEvery
      BY DurFacts, BudgetFacts
    <2>2. clock < RunCap + ProbeSleep
      BY <2>1 DEF DurInv, ClockCapped, ProbeSleep
    <2>3. QED
      BY <2>1, <2>2, DurationAssumption DEF Budget, NaiveEvery, ProbeSleep
  <1>2. Init => DurInv
    BY DurInit
  <1>3. DurInv /\ [Next]_vars => DurInv'
    BY DurStep
  <1>4. QED
    BY <1>1, <1>2, <1>3, PTL DEF Spec

=============================================================================
