--------------------------- MODULE BenchmarkProofs ---------------------------
(***************************************************************************)
(* Proofs about the benchmark driver for every number of workers, every   *)
(* duration and every set of chunk durations.                              *)
(***************************************************************************)
EXTENDS Benchmark, FiniteSets, FiniteSetTheorems, SequenceTheorems, TLAPS

WorkerSet == {Worker(i) : i \in Ids}
Tasks == {Main, Probe} \cup WorkerSet

(* The task names are distinct.                                            *)
LEMMA TaskNames ==
  /\ Main # Probe /\ Main \notin WorkerSet /\ Probe \notin WorkerSet
  /\ NoTask \notin Tasks
  /\ \A i, j \in Ids : Worker(i) = Worker(j) => i = j
  BY DEF WorkerSet, Tasks, Main, Probe, NoTask, Worker

(* The initial state is typed.                                             *)
LEMMA TypeInit == Init => TypeOK
  <1> SUFFICES ASSUME Init PROVE TypeOK
    OBVIOUS
  <1>1. ready \in Seq({Main, Probe} \cup {Worker(i) : i \in Ids})
    BY DEF Init
  <1>2. running \in BOOLEAN /\ hint \in BOOLEAN
    BY Zenon DEF Init
  <1>3. QED
    BY <1>1, <1>2, WorkersAssumption DEF Init, TypeOK, Ids, Main, Probe, NoTask

(* Waking a task keeps the ready queue a queue of tasks.                   *)
LEMMA WakeUpType ==
  ASSUME NEW q \in Seq(Tasks), NEW t \in Tasks
  PROVE  WakeUp(q, t) \in Seq(Tasks)
  BY AppendProperties DEF WakeUp

(* The queue StartRun builds: the workers in order, then the probe.        *)
LEMMA StartQueueType ==
  ASSUME NEW q \in Seq(Tasks)
  PROVE  q \o [j \in 1..Workers |-> Worker(j - 1)] \o <<Probe>> \in Seq(Tasks)
  <1>1. [j \in 1..Workers |-> Worker(j - 1)] \in Seq(Tasks)
    BY WorkersAssumption DEF Tasks, WorkerSet, Ids
  <1>2. <<Probe>> \in Seq(Tasks)
    BY DEF Tasks
  <1>3. QED
    BY <1>1, <1>2, ConcatProperties

(* TypeOK, with its ready queue written over Tasks.                        *)
LEMMA TypeOKTasks ==
  TypeOK <=> /\ TypeOK
             /\ ready \in Seq(Tasks)
             /\ holding \in Tasks \cup {NoTask}
  BY DEF TypeOK, Tasks, WorkerSet

(* Every step keeps the state typed.                                       *)
LEMMA TypeStep == TypeOK /\ [Next]_vars => TypeOK'
  <1> SUFFICES ASSUME TypeOK, [Next]_vars PROVE TypeOK'
    OBVIOUS
  <1>0. ready \in Seq(Tasks) /\ holding \in Tasks \cup {NoTask}
    BY TypeOKTasks
  <1> DEFINE Rest == /\ clock' \in Nat
                     /\ mpc' \in {"start", "gather", "probe", "report", "done",
                                  "stats_error", "init_error"}
                     /\ wpc' \in [Ids -> {"new", "loop", "done", "failed"}]
                     /\ end_time' \in [Ids -> Nat]
                     /\ work_units' \in Nat
                     /\ ppc' \in {"new", "measuring", "sleeping", "woken", "done"}
                     /\ pstart' \in Nat /\ wake' \in Nat
                     /\ samples' \in Nat /\ maxlat' \in Nat
                     /\ bound' \in Ids \cup {-1}
             Bools == running' \in BOOLEAN /\ hint' \in BOOLEAN
  <1> SUFFICES /\ ready' \in Seq(Tasks)
               /\ holding' \in Tasks \cup {NoTask}
               /\ Rest /\ Bools
    BY DEF TypeOK, Tasks, WorkerSet
  <1>1. CASE Schedule
    <2>1. ready # <<>> /\ holding' = Head(ready) /\ ready' = Tail(ready)
      BY <1>1 DEF Schedule
    <2>2. Bools
      BY <1>1, Zenon DEF Schedule, TypeOK
    <2>3. QED
      BY <1>0, <1>1, <2>1, <2>2, HeadTailProperties DEF Schedule, TypeOK
  <1>2. CASE StartRun
    <2>1. Bools
      BY <1>2, Zenon DEF StartRun, TypeOK
    <2>2. QED
      BY <1>0, <1>2, <2>1, StartQueueType DEF StartRun, Release, TypeOK, Tasks
  <1>3. ASSUME NEW i \in Ids, WorkerStart(i) PROVE Rest /\ Bools
                 /\ ready' \in Seq(Tasks) /\ holding' \in Tasks \cup {NoTask}
    <2>1. Bools
      BY <1>3, Zenon DEF WorkerStart, TypeOK
    <2>2. WakeUp(ready, Main) \in Seq(Tasks)
      BY <1>0, WakeUpType DEF Tasks
    <2> DEFINE Fails == Mode = "morpheus" /\ (~Native \/ bound # -1)
    <2>3. /\ clock' = clock /\ mpc' = mpc /\ work_units' = work_units
          /\ ppc' = ppc /\ pstart' = pstart /\ wake' = wake
          /\ samples' = samples /\ maxlat' = maxlat
      BY <1>3 DEF WorkerStart
    <2>4. CASE Fails
      <3>1. /\ wpc' = [wpc EXCEPT ![i] = "failed"]
            /\ ready' = WakeUp(ready, Main) /\ holding' = NoTask
            /\ end_time' = end_time /\ bound' = bound
        BY <1>3, <2>4 DEF WorkerStart, Release
      <3>2. QED
        BY <2>1, <2>2, <2>3, <3>1 DEF TypeOK
    <2>5. CASE ~Fails
      <3>1. /\ wpc' = [wpc EXCEPT ![i] = "loop"]
            /\ end_time' = [end_time EXCEPT ![i] = clock + Duration]
            /\ bound' \in Ids \cup {-1}
            /\ ready' = ready /\ holding' = holding
        BY <1>3, <2>5 DEF WorkerStart, TypeOK
      <3>2. QED
        BY <1>0, <2>1, <2>3, <3>1, DurationAssumption DEF TypeOK
    <2>6. QED
      BY <2>4, <2>5
  <1>4. ASSUME NEW i \in Ids, NEW c \in ChunkTicks, WorkChunk(i, c)
        PROVE  Rest /\ Bools
               /\ ready' \in Seq(Tasks) /\ holding' \in Tasks \cup {NoTask}
    <2>1. Bools
      BY <1>4, Zenon DEF WorkChunk, Release, TypeOK
    <2>2. Append(ready, Worker(i)) \in Seq(Tasks)
      BY <1>0, AppendProperties DEF Tasks, WorkerSet
    <2>3. /\ clock' = clock + c /\ work_units' = work_units + 1
          /\ mpc' = mpc /\ wpc' = wpc /\ end_time' = end_time
          /\ ppc' = ppc /\ pstart' = pstart /\ wake' = wake
          /\ samples' = samples /\ maxlat' = maxlat /\ bound' = bound
      BY <1>4 DEF WorkChunk
    <2>4. ready' \in Seq(Tasks) /\ holding' \in Tasks \cup {NoTask}
      <3>1. CASE YieldsAfter(work_units + 1)
        <4>1. ready' = Append(ready, Worker(i)) /\ holding' = NoTask
          BY <1>4, <3>1 DEF WorkChunk, Release
        <4>2. QED
          BY <2>2, <4>1
      <3>2. CASE ~YieldsAfter(work_units + 1)
        <4>1. ready' = ready /\ holding' = holding
          BY <1>4, <3>2 DEF WorkChunk
        <4>2. QED
          BY <1>0, <4>1
      <3>3. QED
        BY <3>1, <3>2
    <2>5. QED
      BY <2>1, <2>3, <2>4, ChunkTicksAssumption DEF TypeOK
  <1>5. ASSUME NEW i \in Ids, WorkerEnd(i)
        PROVE  Rest /\ Bools
               /\ ready' \in Seq(Tasks) /\ holding' \in Tasks \cup {NoTask}
    <2>1. Bools
      BY <1>5, Zenon DEF WorkerEnd, TypeOK
    <2>2. WakeUp(ready, Main) \in Seq(Tasks)
      BY <1>0, WakeUpType DEF Tasks
    <2>3. QED
      BY <1>0, <1>5, <2>1, <2>2 DEF WorkerEnd, Release, TypeOK
  <1>6. CASE GatherDone
    <2>1. Bools
      BY <1>6, Zenon DEF GatherDone, TypeOK
    <2>2. QED
      BY <1>0, <1>6, <2>1 DEF GatherDone, Release, TypeOK
  <1>7. CASE ProbeLoop
    <2>1. Bools
      BY <1>7, Zenon DEF ProbeLoop, TypeOK
    <2>2. WakeUp(ready, Main) \in Seq(Tasks) /\ Append(ready, Probe) \in Seq(Tasks)
      BY <1>0, WakeUpType, AppendProperties DEF Tasks
    <2>3. QED
      BY <1>0, <1>7, <2>1, <2>2 DEF ProbeLoop, Release, TypeOK
  <1>8. CASE ProbeSample
    <2>1. Bools
      BY <1>8, Zenon DEF ProbeSample, TypeOK
    <2>2. QED
      BY <1>0, <1>8, <2>1 DEF ProbeSample, Release, Larger, ProbeSleep, TypeOK
  <1>9. CASE TimerDue
    <2>1. Bools
      BY <1>9, Zenon DEF TimerDue, TypeOK
    <2>2. Append(ready, Probe) \in Seq(Tasks)
      BY <1>0, AppendProperties DEF Tasks
    <2>3. QED
      BY <1>0, <1>9, <2>1, <2>2 DEF TimerDue, TypeOK
  <1>10. CASE Idle
    <2>1. Bools
      BY <1>10, Zenon DEF Idle, TypeOK
    <2>2. QED
      BY <1>0, <1>10, <2>1 DEF Idle, TypeOK
  <1>11. CASE Report
    <2>1. Bools
      BY <1>11, Zenon DEF Report, TypeOK
    <2>2. QED
      BY <1>0, <1>11, <2>1 DEF Report, Release, TypeOK
  <1>12. CASE KernelHint
    <2>1. Bools
      BY <1>12, Zenon DEF KernelHint, TypeOK
    <2>2. QED
      BY <1>0, <1>12, <2>1 DEF KernelHint, TypeOK
  <1>13. CASE UNCHANGED vars
    <2>1. Bools
      BY <1>13, Zenon DEF vars, TypeOK
    <2>2. QED
      BY <1>0, <1>13, <2>1 DEF vars, TypeOK
  <1>14. QED
    BY <1>1, <1>2, <1>3, <1>4, <1>5, <1>6, <1>7, <1>8, <1>9, <1>10, <1>11,
       <1>12, <1>13 DEF Next

(* Whatever the mode, the number of workers and the chunk durations, the  *)
(* driver's state stays typed: the ready queue holds only the run's tasks, *)
(* the clock and the counters are naturals, and init_worker binds one of   *)
(* the workers' slots or none.                                             *)
THEOREM TypeCorrect == Spec => []TypeOK
  BY TypeInit, TypeStep, PTL DEF Spec

-----------------------------------------------------------------------------
(* The ready queue as the loop uses it: a FIFO of distinct tasks.          *)

(* t is waiting in queue q.                                                *)
In(q, t) == \E j \in 1..Len(q) : q[j] = t

(* No task is queued twice in q.                                           *)
Distinct(q) == \A j, m \in 1..Len(q) : j # m => q[j] # q[m]

(* The workers queued in q ahead of the probe.                             *)
AheadOf(q) ==
  {i \in Ids : \E j, m \in 1..Len(q) :
                 j < m /\ q[j] = Worker(i) /\ q[m] = Probe}

(* The loop takes the head of a queue of distinct tasks: the rest stays    *)
(* distinct and holds everything but the head.                             *)
LEMMA TailQueue ==
  ASSUME NEW q \in Seq(Tasks), q # <<>>, Distinct(q)
  PROVE  /\ Tail(q) \in Seq(Tasks) /\ Head(q) \in Tasks
         /\ In(q, Head(q))
         /\ Distinct(Tail(q))
         /\ \A t : In(Tail(q), t) <=> In(q, t) /\ t # Head(q)
  <1>1. /\ Tail(q) \in Seq(Tasks) /\ Head(q) \in Tasks
        /\ Len(Tail(q)) = Len(q) - 1
        /\ \A j \in 1..Len(Tail(q)) : Tail(q)[j] = q[j + 1]
        /\ Head(q) = q[1] /\ Len(q) \in Nat \ {0}
    BY HeadTailProperties, EmptySeq, LenProperties
  <1>2. Distinct(Tail(q))
    BY <1>1 DEF Distinct
  <1>3. ASSUME NEW t PROVE In(Tail(q), t) <=> In(q, t) /\ t # Head(q)
    <2>1. In(Tail(q), t) => In(q, t) /\ t # Head(q)
      BY <1>1 DEF In, Distinct
    <2>2. In(q, t) /\ t # Head(q) => In(Tail(q), t)
      <3> SUFFICES ASSUME NEW j \in 1..Len(q), q[j] = t, t # Head(q)
                   PROVE  In(Tail(q), t)
        BY DEF In
      <3>1. j # 1 /\ j - 1 \in 1..Len(Tail(q)) /\ Tail(q)[j - 1] = t
        BY <1>1
      <3>2. QED
        BY <3>1 DEF In
    <2>3. QED
      BY <2>1, <2>2
  <1>4. In(q, Head(q))
    BY <1>1 DEF In
  <1>5. QED
    BY <1>1, <1>2, <1>3, <1>4

(* A task appended to a queue it is not in: the queue stays distinct and   *)
(* now also holds it.                                                      *)
LEMMA AppendQueue ==
  ASSUME NEW q \in Seq(Tasks), NEW u \in Tasks
  PROVE  /\ Append(q, u) \in Seq(Tasks)
         /\ Distinct(q) /\ ~In(q, u) => Distinct(Append(q, u))
         /\ \A t : In(Append(q, u), t) <=> In(q, t) \/ t = u
  <1>1. /\ Append(q, u) \in Seq(Tasks)
        /\ Len(Append(q, u)) = Len(q) + 1 /\ Len(q) \in Nat
        /\ \A j \in 1..Len(q) : Append(q, u)[j] = q[j]
        /\ Append(q, u)[Len(q) + 1] = u
    BY AppendProperties, LenProperties
  <1>2. Distinct(q) /\ ~In(q, u) => Distinct(Append(q, u))
    BY <1>1 DEF Distinct, In
  <1>3. ASSUME NEW t PROVE In(Append(q, u), t) <=> In(q, t) \/ t = u
    BY <1>1 DEF In
  <1>4. QED
    BY <1>1, <1>2, <1>3

(* Appending a task other than the probe puts no worker ahead of it.       *)
LEMMA AheadAppend ==
  ASSUME NEW q \in Seq(Tasks), NEW u \in Tasks, u # Probe
  PROVE  AheadOf(Append(q, u)) \subseteq AheadOf(q)
  <1>1. /\ Len(Append(q, u)) = Len(q) + 1 /\ Len(q) \in Nat
        /\ \A j \in 1..Len(q) : Append(q, u)[j] = q[j]
        /\ Append(q, u)[Len(q) + 1] = u
    BY AppendProperties, LenProperties
  <1>2. QED
    BY <1>1 DEF AheadOf

(* Waking main keeps the queue distinct, adds main, and puts no worker     *)
(* ahead of the probe.                                                     *)
LEMMA WakeUpQueue ==
  ASSUME NEW q \in Seq(Tasks), Distinct(q)
  PROVE  /\ WakeUp(q, Main) \in Seq(Tasks)
         /\ Distinct(WakeUp(q, Main))
         /\ \A t : In(WakeUp(q, Main), t) <=> In(q, t) \/ t = Main
         /\ AheadOf(WakeUp(q, Main)) \subseteq AheadOf(q)
  <1>1. Main \in Tasks /\ Main # Probe
    BY DEF Tasks, Main, Probe
  <1>2. CASE In(q, Main)
    <2>1. WakeUp(q, Main) = q
      BY <1>2 DEF WakeUp, In
    <2>2. QED
      BY <1>2, <2>1
  <1>3. CASE ~In(q, Main)
    <2>1. WakeUp(q, Main) = Append(q, Main)
      BY <1>3 DEF WakeUp, In
    <2>2. QED
      BY <1>1, <1>3, <2>1, AppendQueue, AheadAppend
  <1>4. QED
    BY <1>2, <1>3

(* The loop takes the head of the queue: a worker at the head was ahead    *)
(* of the probe if the probe is still queued, and is no longer; nobody     *)
(* else moves ahead of it.                                                 *)
LEMMA AheadTail ==
  ASSUME NEW q \in Seq(Tasks), q # <<>>, Distinct(q)
  PROVE  /\ AheadOf(Tail(q)) \subseteq AheadOf(q)
         /\ \A i \in Ids : Head(q) = Worker(i) =>
              /\ i \notin AheadOf(Tail(q))
              /\ In(Tail(q), Probe) => i \in AheadOf(q)
  <1>1. /\ Len(Tail(q)) = Len(q) - 1
        /\ \A j \in 1..Len(Tail(q)) : Tail(q)[j] = q[j + 1]
        /\ Head(q) = q[1] /\ Len(q) \in Nat \ {0}
    BY HeadTailProperties, EmptySeq, LenProperties
  <1>2. AheadOf(Tail(q)) \subseteq AheadOf(q)
    <2> SUFFICES ASSUME NEW i \in Ids, NEW j \in 1..Len(Tail(q)),
                        NEW m \in 1..Len(Tail(q)), j < m,
                        Tail(q)[j] = Worker(i), Tail(q)[m] = Probe
                 PROVE  i \in AheadOf(q)
      BY DEF AheadOf
    <2>1. j + 1 \in 1..Len(q) /\ m + 1 \in 1..Len(q) /\ j + 1 < m + 1
          /\ q[j + 1] = Worker(i) /\ q[m + 1] = Probe
      BY <1>1
    <2>2. QED
      BY <2>1 DEF AheadOf
  <1>3. ASSUME NEW i \in Ids, Head(q) = Worker(i)
        PROVE  /\ i \notin AheadOf(Tail(q))
               /\ In(Tail(q), Probe) => i \in AheadOf(q)
    <2>1. i \notin AheadOf(Tail(q))
      BY <1>1, <1>3 DEF AheadOf, Distinct
    <2>2. In(Tail(q), Probe) => i \in AheadOf(q)
      <3> SUFFICES ASSUME NEW m \in 1..Len(Tail(q)), Tail(q)[m] = Probe
                   PROVE  i \in AheadOf(q)
        BY DEF In
      <3>1. 1 \in 1..Len(q) /\ m + 1 \in 1..Len(q) /\ 1 < m + 1
            /\ q[1] = Worker(i) /\ q[m + 1] = Probe
        BY <1>1, <1>3
      <3>2. QED
        BY <3>1 DEF AheadOf
    <2>3. QED
      BY <2>1, <2>2
  <1>4. QED
    BY <1>2, <1>3

(* At most every worker is ahead of the probe.                             *)
LEMMA AheadCard ==
  ASSUME NEW S \in SUBSET Ids
  PROVE  IsFiniteSet(S) /\ Cardinality(S) \in 0..Workers
  <1>1. IsFiniteSet(Ids) /\ Cardinality(Ids) = Workers
    BY WorkersAssumption, FS_Interval DEF Ids
  <1>2. QED
    BY <1>1, FS_Subset, FS_CardinalityType
-----------------------------------------------------------------------------
(* The ready queue of the run.                                             *)

(* The ready queue holds each task at most once, never the task that       *)
(* holds the loop, none of the run's tasks before Workload.run creates     *)
(* them, and the probe is where its program counter says: off the queue    *)
(* while it sleeps, on it (or running) while it measures.                  *)
QInv ==
  /\ TypeOK
  /\ Distinct(ready)
  /\ holding # NoTask => ~In(ready, holding)
  /\ mpc = "start" => /\ ppc = "new"
                      /\ \A t \in {Probe} \cup WorkerSet :
                           ~In(ready, t) /\ holding # t
  /\ ppc = "sleeping" => ~In(ready, Probe) /\ holding # Probe
  /\ ppc = "measuring" => In(ready, Probe) \/ holding = Probe
(* Workload.run has not started: only main is queued.                      *)
LEMMA QInvInit == Init => QInv
  <1> SUFFICES ASSUME Init PROVE QInv
    OBVIOUS
  <1>1. ready = <<Main>> /\ holding = NoTask /\ mpc = "start" /\ ppc = "new"
    BY DEF Init
  <1>2. Distinct(ready) /\ \A t : In(ready, t) <=> t = Main
    BY <1>1 DEF Distinct, In
  <1>3. QED
    BY <1>1, <1>2, TypeInit, TaskNames DEF QInv, Tasks

(* Every step keeps the ready queue a queue of distinct tasks, and the     *)
(* probe where its program counter says.                                   *)
LEMMA QInvStep == QInv /\ [Next]_vars => QInv'
  <1> DEFINE Goal ==
         /\ Distinct(ready')
         /\ holding' # NoTask => ~In(ready', holding')
         /\ mpc' = "start" =>
              /\ ppc' = "new"
              /\ \A t \in {Probe} \cup WorkerSet :
                   ~In(ready', t) /\ holding' # t
         /\ ppc' = "sleeping" => ~In(ready', Probe) /\ holding' # Probe
         /\ ppc' = "measuring" => In(ready', Probe) \/ holding' = Probe
  <1> SUFFICES ASSUME QInv, [Next]_vars PROVE Goal
    BY TypeStep DEF QInv
  <1>0. /\ ready \in Seq(Tasks) /\ holding \in Tasks \cup {NoTask}
        /\ Distinct(ready)
        /\ Main \in Tasks /\ Probe \in Tasks /\ WorkerSet \subseteq Tasks
    BY TypeOKTasks DEF QInv, Tasks
  <1>1. CASE Schedule
    <2>1. /\ ready # <<>> /\ holding = NoTask
          /\ holding' = Head(ready) /\ ready' = Tail(ready)
          /\ mpc' = mpc /\ ppc' = ppc
      BY <1>1 DEF Schedule
    <2>2. QED
      BY <1>0, <2>1, TailQueue, TaskNames DEF QInv
  <1>2. CASE StartRun
    <2> DEFINE W == [j \in 1..Workers |-> Worker(j - 1)]
    <2>1. /\ holding = Main /\ mpc = "start" /\ ppc = "new"
          /\ ready' = ready \o W \o <<Probe>>
          /\ holding' = NoTask /\ mpc' = "gather" /\ ppc' = ppc
      BY <1>2 DEF StartRun, Release, QInv
    <2>2. ready = <<>>
      <3>1. \A j \in 1..Len(ready) : ready[j] \in Tasks
        BY <1>0, ElementOfSeq
      <3>2. \A t \in Tasks : ~In(ready, t)
        BY <2>1, TaskNames DEF QInv, Tasks
      <3>3. Len(ready) = 0
        BY <3>1, <3>2, <1>0, LenProperties DEF In
      <3>4. QED
        BY <3>3, <1>0, EmptySeq, LenProperties
    <2>3. /\ Len(ready') = Workers + 1
          /\ \A j \in 1..Workers : ready'[j] = Worker(j - 1)
          /\ ready'[Workers + 1] = Probe
      <3>1. W \in Seq(Tasks) /\ Len(W) = Workers /\ <<>> \o W = W
        BY WorkersAssumption, ConcatEmptySeq DEF Tasks, WorkerSet, Ids
      <3>2. QED
        BY <1>0, <2>1, <2>2, <3>1, ConcatProperties, WorkersAssumption
    <2>4. Distinct(ready')
      BY <2>3, WorkersAssumption DEF Distinct, Worker, Probe
    <2>5. QED
      BY <2>1, <2>4, TaskNames
  <1>3. ASSUME NEW i \in Ids, WorkerStart(i) PROVE Goal
    <2>1. /\ holding = Worker(i) /\ mpc' = mpc /\ ppc' = ppc
          /\ Worker(i) \in WorkerSet
      BY <1>3 DEF WorkerStart, WorkerSet
    <2>2. mpc # "start" /\ holding # Probe
      BY <2>1, TaskNames DEF QInv
    <2> DEFINE Fails == Mode = "morpheus" /\ (~Native \/ bound # -1)
    <2>3. CASE Fails
      <3>1. ready' = WakeUp(ready, Main) /\ holding' = NoTask
        BY <1>3, <2>3 DEF WorkerStart, Release
      <3>2. QED
        BY <1>0, <2>1, <2>2, <3>1, WakeUpQueue, TaskNames DEF QInv
    <2>4. CASE ~Fails
      <3>1. ready' = ready /\ holding' = holding
        BY <1>3, <2>4 DEF WorkerStart
      <3>2. QED
        BY <2>1, <3>1 DEF QInv
    <2>5. QED
      BY <2>3, <2>4
  <1>4. ASSUME NEW i \in Ids, NEW c \in ChunkTicks, WorkChunk(i, c) PROVE Goal
    <2>1. /\ holding = Worker(i) /\ mpc' = mpc /\ ppc' = ppc
          /\ Worker(i) \in WorkerSet
      BY <1>4 DEF WorkChunk, WorkerSet
    <2>2. mpc # "start" /\ holding # Probe /\ Worker(i) # Probe
      BY <2>1, TaskNames DEF QInv
    <2>3. CASE YieldsAfter(work_units + 1)
      <3>1. ready' = Append(ready, Worker(i)) /\ holding' = NoTask
        BY <1>4, <2>3 DEF WorkChunk, Release
      <3>2. ~In(ready, Worker(i))
        BY <2>1, TaskNames DEF QInv, Tasks
      <3>3. QED
        BY <1>0, <2>1, <2>2, <3>1, <3>2, AppendQueue, TaskNames DEF QInv
    <2>4. CASE ~YieldsAfter(work_units + 1)
      <3>1. ready' = ready /\ holding' = holding
        BY <1>4, <2>4 DEF WorkChunk
      <3>2. QED
        BY <2>1, <3>1 DEF QInv
    <2>5. QED
      BY <2>3, <2>4
  <1>5. ASSUME NEW i \in Ids, WorkerEnd(i) PROVE Goal
    <2>1. /\ holding = Worker(i) /\ mpc' = mpc /\ ppc' = ppc
          /\ holding' = NoTask
          /\ ready' \in {ready, WakeUp(ready, Main)}
          /\ Worker(i) \in WorkerSet
      BY <1>5 DEF WorkerEnd, Release, WorkerSet
    <2>2. mpc # "start" /\ holding # Probe
      BY <2>1, TaskNames DEF QInv
    <2>3. QED
      BY <1>0, <2>1, <2>2, WakeUpQueue, TaskNames DEF QInv
  <1>6. CASE GatherDone
    <2>1. /\ holding = Main /\ mpc = "gather" /\ mpc' # "start"
          /\ ppc' = ppc /\ ready' = ready /\ holding' = NoTask
      BY <1>6 DEF GatherDone, Release
    <2>2. QED
      BY <1>0, <2>1, TaskNames DEF QInv
  <1>7. CASE ProbeLoop
    <2>1. /\ holding = Probe /\ mpc' = mpc /\ holding' = NoTask
      BY <1>7 DEF ProbeLoop, Release
    <2>2. mpc # "start" /\ ~In(ready, Probe)
      BY <1>0, <2>1, TaskNames DEF QInv
    <2>3. CASE running
      <3>1. ppc' = "measuring" /\ ready' = Append(ready, Probe)
        BY <1>7, <2>3 DEF ProbeLoop
      <3>2. QED
        BY <1>0, <2>1, <2>2, <3>1, AppendQueue
    <2>4. CASE ~running
      <3>1. ppc' = "done" /\ ready' \in {ready, WakeUp(ready, Main)}
        BY <1>7, <2>4 DEF ProbeLoop
      <3>2. QED
        BY <1>0, <2>1, <2>2, <3>1, WakeUpQueue
    <2>5. QED
      BY <2>3, <2>4
  <1>8. CASE ProbeSample
    <2>1. /\ holding = Probe /\ mpc' = mpc /\ holding' = NoTask
          /\ ppc' = "sleeping" /\ ready' = ready
      BY <1>8 DEF ProbeSample, Release
    <2>2. QED
      BY <1>0, <2>1, TaskNames DEF QInv
  <1>9. CASE TimerDue
    <2>1. /\ holding = NoTask /\ ppc = "sleeping" /\ ppc' = "woken"
          /\ mpc' = mpc /\ holding' = holding
          /\ ready' = Append(ready, Probe)
      BY <1>9 DEF TimerDue
    <2>2. mpc # "start" /\ ~In(ready, Probe)
      BY <2>1 DEF QInv
    <2>3. QED
      BY <1>0, <2>1, <2>2, AppendQueue
  <1>10. CASE Idle
    <2>1. UNCHANGED <<ready, holding, mpc, ppc>>
      BY <1>10 DEF Idle
    <2>2. QED
      BY <2>1 DEF QInv
  <1>11. CASE Report
    <2>1. /\ holding = Main /\ mpc' # "start"
          /\ ppc' = ppc /\ ready' = ready /\ holding' = NoTask
      BY <1>11 DEF Report, Release
    <2>2. QED
      BY <1>0, <2>1, TaskNames DEF QInv
  <1>12. CASE KernelHint
    <2>1. UNCHANGED <<ready, holding, mpc, ppc>>
      BY <1>12 DEF KernelHint
    <2>2. QED
      BY <2>1 DEF QInv
  <1>13. CASE UNCHANGED vars
    <2>1. UNCHANGED <<ready, holding, mpc, ppc>>
      BY <1>13 DEF vars
    <2>2. QED
      BY <2>1 DEF QInv
  <1>14. QED
    BY <1>1, <1>2, <1>3, <1>4, <1>5, <1>6, <1>7, <1>8, <1>9, <1>10, <1>11,
       <1>12, <1>13 DEF Next

(* The ready queue of every run holds each task at most once and never the *)
(* task running: asyncio's loop calls a callback once per wake-up, the    *)
(* code's futures wake a waiting task once, and a yielding task is queued  *)
(* only when it gives up the loop.                                         *)
THEOREM QueueSound == Spec => []QInv
  BY QInvInit, QInvStep, PTL DEF Spec

-----------------------------------------------------------------------------
(* The probe's latency in naive mode.                                      *)

(* The run is in naive mode.                                               *)
NaiveMode == Mode = "naive"

(* A chunk of work takes at most some number of milliseconds: MaxChunk is  *)
(* then the longest a chunk takes.                                         *)
ChunksBounded == \E m \in ChunkTicks : \A d \in ChunkTicks : d <= m

(* The chunks worker h, holding the loop, may still run before the shared *)
(* counter u reaches a multiple of NaiveEvery and it awaits sleep(0).      *)
RemOf(h, u) == IF h \in WorkerSet THEN NaiveEvery - (u % NaiveEvery) ELSE 0

(* The chunks that may still run before the probe does: the holder's and  *)
(* NaiveEvery for each worker queued ahead of the probe in q.              *)
Pending(h, u, q) == RemOf(h, u) + NaiveEvery * Cardinality(AheadOf(q))

(* The bound LatencyBounded states.                                        *)
Budget == Workers * NaiveEvery * MaxChunk

(* While a sample is being taken, the time it has already taken plus the   *)
(* longest the chunks that may still run ahead of the probe can take stays *)
(* within the bound; every recorded sample is within it.                   *)
LatInv ==
  /\ QInv
  /\ maxlat <= Budget
  /\ ppc = "measuring" =>
       /\ pstart <= clock
       /\ clock - pstart + MaxChunk * Pending(holding, work_units, ready)
            <= Budget

(* MaxChunk is the longest chunk.                                          *)
LEMMA MaxChunkFacts ==
  ASSUME ChunksBounded
  PROVE  /\ MaxChunk \in Nat \ {0}
         /\ \A d \in ChunkTicks : d <= MaxChunk
  <1>1. MaxChunk \in ChunkTicks /\ \A d \in ChunkTicks : d <= MaxChunk
    BY DEF ChunksBounded, MaxChunk
  <1>2. QED
    BY <1>1, ChunkTicksAssumption

(* Scaling by a natural keeps an order, and a smaller weight by one saves  *)
(* at least the scale.                                                     *)
LEMMA MulMono ==
  ASSUME NEW a \in Nat, NEW x \in Nat, NEW y \in Nat, x <= y
  PROVE  /\ a * x \in Nat /\ a * x <= a * y
         /\ x + 1 <= y => a * x + a <= a * y
  OBVIOUS

(* The holder's remaining chunks and the weight are naturals, the holder's *)
(* at most NaiveEvery.                                                     *)
LEMMA PendingFacts ==
  ASSUME NEW h, NEW u \in Nat, NEW q
  PROVE  /\ RemOf(h, u) \in 0..NaiveEvery
         /\ h \notin WorkerSet => RemOf(h, u) = 0
         /\ IsFiniteSet(AheadOf(q))
         /\ Cardinality(AheadOf(q)) \in 0..Workers
         /\ Pending(h, u, q) \in Nat
  <1>1. RemOf(h, u) \in 0..NaiveEvery /\ (h \notin WorkerSet => RemOf(h, u) = 0)
    BY DEF RemOf, NaiveEvery
  <1>2. AheadOf(q) \subseteq Ids
    BY DEF AheadOf
  <1>3. QED
    BY <1>1, <1>2, AheadCard DEF Pending, NaiveEvery

(* The workers ahead of the probe in any queue are at most all of them.   *)
LEMMA AheadFacts ==
  ASSUME NEW q
  PROVE  /\ IsFiniteSet(AheadOf(q))
         /\ Cardinality(AheadOf(q)) \in 0..Workers
  <1>1. AheadOf(q) \subseteq Ids
    BY DEF AheadOf
  <1>2. QED
    BY <1>1, AheadCard

(* Fewer workers ahead of the probe, no greater count.                     *)
LEMMA AheadSub ==
  ASSUME NEW T \in SUBSET Ids, NEW S \in SUBSET T
  PROVE  Cardinality(S) <= Cardinality(T)
  BY AheadCard, FS_Subset

(* A worker taken off the head of the queue leaves the workers ahead of   *)
(* the probe one fewer.                                                    *)
LEMMA AheadShrink ==
  ASSUME NEW T \in SUBSET Ids, NEW S \in SUBSET Ids, NEW i \in T,
         S \subseteq T \ {i}
  PROVE  Cardinality(S) + 1 <= Cardinality(T)
  <1>1. IsFiniteSet(T) /\ Cardinality(T) \in Nat
    BY AheadCard
  <1>2. IsFiniteSet(T \ {i}) /\ Cardinality(T \ {i}) = Cardinality(T) - 1
    BY <1>1, FS_RemoveElement
  <1>3. Cardinality(S) <= Cardinality(T \ {i})
    BY <1>2, FS_Subset
  <1>4. QED
    BY <1>1, <1>2, <1>3, AheadCard

(* No sample is taken yet when the run starts.                             *)
LEMMA LatInit == ASSUME ChunksBounded PROVE Init => LatInv
  <1> SUFFICES ASSUME Init PROVE LatInv
    OBVIOUS
  <1>1. maxlat = 0 /\ ppc = "new"
    BY DEF Init
  <1>2. Budget \in Nat
    BY MaxChunkFacts, WorkersAssumption DEF Budget, NaiveEvery
  <1>3. QED
    BY <1>1, <1>2, QInvInit DEF LatInv

(* A step that moves neither the clock nor the probe and adds no weight    *)
(* keeps the latency clauses.                                              *)
LEMMA LatKeep ==
  ASSUME ChunksBounded, LatInv,
         clock' = clock, pstart' = pstart, ppc' = ppc, maxlat' = maxlat,
         Pending(holding, work_units, ready)' \in Nat,
         Pending(holding, work_units, ready)'
           <= Pending(holding, work_units, ready)
  PROVE  /\ maxlat' <= Budget
         /\ ppc' = "measuring" =>
              /\ pstart' <= clock'
              /\ clock' - pstart'
                   + MaxChunk * Pending(holding, work_units, ready)'
                   <= Budget
  <1>1. MaxChunk \in Nat \ {0}
    BY MaxChunkFacts
  <1>2. /\ Pending(holding, work_units, ready) \in Nat
        /\ clock \in Nat
        /\ pstart \in Nat
    BY PendingFacts DEF LatInv, QInv, TypeOK
  <1>3. Budget \in Nat
    BY <1>1, WorkersAssumption DEF Budget, NaiveEvery
  <1>4. /\ MaxChunk * Pending(holding, work_units, ready)' \in Nat
        /\ MaxChunk * Pending(holding, work_units, ready)'
             <= MaxChunk * Pending(holding, work_units, ready)
    BY <1>1, <1>2, MulMono
  <1>5. maxlat' <= Budget
    BY DEF LatInv
  <1>6. ASSUME ppc' = "measuring"
        PROVE  /\ pstart' <= clock'
               /\ clock' - pstart'
                    + MaxChunk * Pending(holding, work_units, ready)'
                    <= Budget
    <2>1. /\ pstart <= clock
          /\ clock - pstart + MaxChunk * Pending(holding, work_units, ready)
               <= Budget
      BY <1>6 DEF LatInv
    <2>2. pstart' <= clock' /\ clock' - pstart' = clock - pstart
      BY <1>2, <2>1
    <2>3. clock - pstart + MaxChunk * Pending(holding, work_units, ready)'
            <= Budget
      BY <1>1, <1>2, <1>3, <1>4, <2>1
    <2>4. QED
      BY <2>2, <2>3
  <1>7. QED
    BY <1>5, <1>6

(* In naive mode every step keeps the latency invariant.                   *)
LEMMA LatStep ==
  ASSUME NaiveMode, ChunksBounded, LatInv, [Next]_vars
  PROVE  LatInv'
  <1> DEFINE M == MaxChunk
             Goal == /\ maxlat' <= Budget
                     /\ ppc' = "measuring" =>
                          /\ pstart' <= clock'
                          /\ clock' - pstart'
                               + M * Pending(holding, work_units, ready)'
                               <= Budget
  <1> SUFFICES Goal
    BY QInvStep DEF LatInv
  <1>0. /\ TypeOK /\ QInv
        /\ ready \in Seq(Tasks) /\ holding \in Tasks \cup {NoTask}
        /\ Pending(holding, work_units, ready) \in Nat /\ work_units \in Nat
        /\ clock \in Nat /\ pstart \in Nat
        /\ M \in Nat \ {0} /\ \A d \in ChunkTicks : d <= M
        /\ Budget = M * (NaiveEvery * Workers) /\ Budget \in Nat
    <2>1. TypeOK /\ QInv /\ Pending(holding, work_units, ready) \in Nat
      BY PendingFacts, AheadFacts DEF LatInv, QInv, TypeOK
    <2>2. M \in Nat \ {0} /\ \A d \in ChunkTicks : d <= M
      BY MaxChunkFacts
    <2>3. QED
      BY <2>1, <2>2, TypeOKTasks, WorkersAssumption DEF Budget, NaiveEvery,
         TypeOK
  <1>1. CASE Schedule
    <2>1. /\ ready # <<>> /\ holding = NoTask
          /\ holding' = Head(ready) /\ ready' = Tail(ready)
          /\ clock' = clock /\ pstart' = pstart /\ ppc' = ppc
          /\ maxlat' = maxlat /\ work_units' = work_units
      BY <1>1 DEF Schedule
    <2> SUFFICES ASSUME ppc' = "measuring"
                 PROVE  clock' - pstart'
                          + M * Pending(holding, work_units, ready)'
                          <= Budget
      BY <2>1 DEF LatInv
    <2>2. /\ Distinct(ready) /\ In(ready, Probe) /\ work_units \in Nat
          /\ ppc = "measuring"
      BY <1>0, <2>1, TaskNames DEF QInv, TypeOK, Tasks
    <2>3. Pending(holding, work_units, ready)'
            <= Pending(holding, work_units, ready)
      <3>1. /\ Pending(holding, work_units, ready)
                 = NaiveEvery * Cardinality(AheadOf(ready))
            /\ Pending(holding, work_units, ready)'
                 = RemOf(Head(ready), work_units)
                   + NaiveEvery * Cardinality(AheadOf(Tail(ready)))
        <4>1. RemOf(NoTask, work_units) = 0
          BY <2>2, PendingFacts, AheadFacts, TaskNames DEF Tasks
        <4>2. Pending(holding, work_units, ready)'
                = Pending(Head(ready), work_units, Tail(ready))
          BY <2>1
        <4>3. QED
          BY <2>1, <2>2, <4>1, <4>2, PendingFacts, AheadFacts DEF Pending,
             NaiveEvery
      <3>2. /\ AheadOf(Tail(ready)) \subseteq AheadOf(ready)
            /\ AheadOf(ready) \subseteq Ids
        BY <1>0, <2>1, <2>2, AheadTail DEF AheadOf
      <3>3. CASE Head(ready) \in WorkerSet
        <4>1. PICK i \in Ids : Head(ready) = Worker(i)
          BY <3>3 DEF WorkerSet
        <4>2. In(Tail(ready), Probe)
          BY <1>0, <2>1, <2>2, <4>1, TailQueue, TaskNames DEF WorkerSet
        <4>3. i \in AheadOf(ready)
              /\ AheadOf(Tail(ready)) \subseteq AheadOf(ready) \ {i}
          BY <1>0, <2>1, <2>2, <4>1, <4>2, <3>2, AheadTail
        <4>4. Cardinality(AheadOf(Tail(ready))) + 1
                <= Cardinality(AheadOf(ready))
          BY <3>2, <4>3, AheadShrink DEF AheadOf
        <4>5. RemOf(Head(ready), work_units) <= NaiveEvery
          BY <2>2, PendingFacts, AheadFacts
        <4>6. QED
          BY <3>1, <4>4, <4>5, <2>2, PendingFacts, AheadFacts DEF NaiveEvery
      <3>4. CASE Head(ready) \notin WorkerSet
        <4>1. RemOf(Head(ready), work_units) = 0
          BY <2>2, <3>4, PendingFacts, AheadFacts
        <4>2. Cardinality(AheadOf(Tail(ready))) <= Cardinality(AheadOf(ready))
          BY <3>2, AheadSub
        <4>3. QED
          BY <3>1, <4>1, <4>2, <2>2, PendingFacts, AheadFacts DEF NaiveEvery
      <3>5. QED
        BY <3>3, <3>4
    <2>4. Pending(holding, work_units, ready)' \in Nat
      <3>1. Pending(holding, work_units, ready)'
              = Pending(Head(ready), work_units, Tail(ready))
        BY <2>1
      <3>2. QED
        BY <2>2, <3>1, PendingFacts, AheadFacts
    <2>5. /\ M * Pending(holding, work_units, ready)' \in Nat
          /\ M * Pending(holding, work_units, ready)'
               <= M * Pending(holding, work_units, ready)
      BY <1>0, <2>3, <2>4, MulMono
    <2>6. clock - pstart + M * Pending(holding, work_units, ready) <= Budget
      BY <2>2 DEF LatInv
    <2>7. QED
      BY <1>0, <2>1, <2>5, <2>6
  <1>2. CASE StartRun
    <2>1. ppc = "new" /\ ppc' = ppc /\ maxlat' = maxlat
      BY <1>0, <1>2 DEF StartRun, QInv
    <2>2. QED
      BY <2>1 DEF LatInv
  <1>3. ASSUME NEW i \in Ids, WorkerStart(i) PROVE Goal
    <2>1. ~(Mode = "morpheus" /\ (~Native \/ bound # -1))
      BY DEF NaiveMode
    <2>2. /\ ready' = ready /\ holding' = holding /\ work_units' = work_units
          /\ clock' = clock /\ pstart' = pstart /\ ppc' = ppc
          /\ maxlat' = maxlat
      BY <1>3, <2>1 DEF WorkerStart
    <2>3. Pending(holding, work_units, ready)'
            = Pending(holding, work_units, ready)
      BY <2>2
    <2>4. QED
      BY <1>0, <2>2, <2>3, LatKeep
  <1>4. ASSUME NEW i \in Ids, NEW c \in ChunkTicks, WorkChunk(i, c) PROVE Goal
    <2>1. /\ holding = Worker(i) /\ clock' = clock + c
          /\ work_units' = work_units + 1
          /\ pstart' = pstart /\ ppc' = ppc /\ maxlat' = maxlat
      BY <1>4 DEF WorkChunk
    <2>2. c \in Nat /\ c <= M
      BY <1>0, ChunkTicksAssumption
    <2> SUFFICES ASSUME ppc' = "measuring"
                 PROVE  /\ pstart' <= clock'
                        /\ clock' - pstart'
                             + M * Pending(holding, work_units, ready)'
                             <= Budget
      BY <2>1 DEF LatInv
    <2>3. /\ pstart <= clock
          /\ clock - pstart + M * Pending(holding, work_units, ready) <= Budget
      BY <2>1 DEF LatInv
    <2>4. /\ Worker(i) \in WorkerSet /\ Worker(i) \in Tasks /\ Worker(i) # Probe
          /\ Cardinality(AheadOf(ready)) \in 0..Workers
          /\ Pending(holding, work_units, ready)
               = NaiveEvery - (work_units % NaiveEvery)
                   + NaiveEvery * Cardinality(AheadOf(ready))
      BY <1>0, <2>1, PendingFacts, AheadFacts, TaskNames DEF WorkerSet, Tasks,
         Pending, RemOf
    <2>5. YieldsAfter(work_units + 1) <=> (work_units + 1) % NaiveEvery = 0
      BY DEF YieldsAfter, NaiveMode
    <2>6. /\ Pending(holding, work_units, ready)' \in Nat
          /\ Pending(holding, work_units, ready)' + 1
               <= Pending(holding, work_units, ready)
      <3>1. CASE (work_units + 1) % NaiveEvery = 0
        <4>1. ready' = Append(ready, Worker(i)) /\ holding' = NoTask
          BY <1>4, <2>5, <3>1 DEF WorkChunk, Release
        <4>2. RemOf(NoTask, work_units + 1) = 0
          BY <1>0, PendingFacts, AheadFacts, TaskNames DEF Tasks
        <4>3. Cardinality(AheadOf(ready')) <= Cardinality(AheadOf(ready))
          BY <1>0, <2>4, <4>1, AheadAppend, AheadSub DEF AheadOf
        <4>4. Pending(holding, work_units, ready)'
                = NaiveEvery * Cardinality(AheadOf(ready'))
          BY <1>0, <2>1, <4>1, <4>2, PendingFacts, AheadFacts DEF Pending,
            NaiveEvery
        <4>5. QED
          BY <1>0, <2>4, <3>1, <4>3, <4>4, PendingFacts,
            AheadFacts DEF NaiveEvery
      <3>2. CASE (work_units + 1) % NaiveEvery # 0
        <4>1. ready' = ready /\ holding' = holding
          BY <1>4, <2>5, <3>2 DEF WorkChunk
        <4>2. Pending(holding, work_units, ready)'
                = NaiveEvery - ((work_units + 1) % NaiveEvery)
                    + NaiveEvery * Cardinality(AheadOf(ready))
          BY <2>1, <2>4, <4>1 DEF Pending, RemOf
        <4>3. QED
          BY <1>0, <2>4, <3>2, <4>2, WorkersAssumption DEF NaiveEvery
      <3>3. QED
        BY <3>1, <3>2
    <2>7. /\ M * Pending(holding, work_units, ready)' \in Nat
          /\ M * Pending(holding, work_units, ready)' + M
               <= M * Pending(holding, work_units, ready)
      BY <1>0, <2>6, MulMono
    <2>8. QED
      BY <1>0, <2>1, <2>2, <2>3, <2>7
  <1>5. ASSUME NEW i \in Ids, WorkerEnd(i) PROVE Goal
    <2>1. /\ holding' = NoTask /\ ready' \in {ready, WakeUp(ready, Main)}
          /\ work_units' = work_units
          /\ clock' = clock /\ pstart' = pstart /\ ppc' = ppc
          /\ maxlat' = maxlat
      BY <1>5 DEF WorkerEnd, Release
    <2>2. AheadOf(ready') \subseteq AheadOf(ready)
      BY <1>0, <2>1, WakeUpQueue DEF QInv
    <2>3. /\ Pending(holding, work_units, ready)' \in Nat
          /\ Pending(holding, work_units, ready)'
               <= Pending(holding, work_units, ready)
      <3>1. RemOf(NoTask, work_units) = 0
        BY <1>0, PendingFacts, AheadFacts, TaskNames DEF Tasks
      <3>2. Cardinality(AheadOf(ready')) <= Cardinality(AheadOf(ready))
        BY <2>2, AheadSub DEF AheadOf
      <3>3. /\ RemOf(holding, work_units) \in 0..NaiveEvery
            /\ Cardinality(AheadOf(ready)) \in 0..Workers
            /\ Cardinality(AheadOf(ready')) \in 0..Workers
        BY <1>0, PendingFacts, AheadFacts
      <3>4. /\ Pending(holding, work_units, ready)
                 = RemOf(holding, work_units)
                   + NaiveEvery * Cardinality(AheadOf(ready))
            /\ Pending(holding, work_units, ready)'
                 = RemOf(NoTask, work_units)
                   + NaiveEvery * Cardinality(AheadOf(ready'))
        BY <2>1 DEF Pending
      <3>5. QED
        BY <3>1, <3>2, <3>3, <3>4, WorkersAssumption DEF NaiveEvery
    <2>4. QED
      BY <1>0, <2>1, <2>3, LatKeep
  <1>6. CASE GatherDone
    <2>1. /\ holding = Main /\ holding' = NoTask /\ ready' = ready
          /\ work_units' = work_units
          /\ clock' = clock /\ pstart' = pstart /\ ppc' = ppc
          /\ maxlat' = maxlat
      BY <1>6 DEF GatherDone, Release
    <2>2. Pending(holding, work_units, ready)'
            = Pending(holding, work_units, ready)
      BY <1>0, <2>1, PendingFacts, AheadFacts, TaskNames DEF Pending, Tasks
    <2>3. QED
      BY <1>0, <2>1, <2>2, LatKeep
  <1>7. CASE ProbeLoop
    <2>1. /\ holding = Probe /\ holding' = NoTask /\ work_units' = work_units
          /\ clock' = clock /\ maxlat' = maxlat
      BY <1>7 DEF ProbeLoop, Release
    <2>2. CASE running
      <3>1. /\ ppc' = "measuring"
            /\ pstart' = clock
            /\ ready' = Append(ready, Probe)
        BY <1>7, <2>2 DEF ProbeLoop
      <3>2. Pending(holding, work_units, ready)'
              = NaiveEvery * Cardinality(AheadOf(ready'))
        BY <1>0, <2>1, PendingFacts, AheadFacts, TaskNames DEF Pending, Tasks,
           NaiveEvery
      <3>3. /\ Pending(holding, work_units, ready)' \in Nat
            /\ Pending(holding, work_units, ready)' <= NaiveEvery * Workers
        BY <3>2, AheadFacts, WorkersAssumption DEF NaiveEvery
      <3>4. /\ M * Pending(holding, work_units, ready)' \in Nat
            /\ M * Pending(holding, work_units, ready)'
                 <= M * (NaiveEvery * Workers)
        BY <1>0, <3>3, MulMono, WorkersAssumption DEF NaiveEvery
      <3>5. QED
        BY <1>0, <2>1, <3>1, <3>4 DEF LatInv
    <2>3. CASE ~running
      <3>1. ppc' = "done"
        BY <1>7, <2>3 DEF ProbeLoop
      <3>2. QED
        BY <2>1, <3>1 DEF LatInv
    <2>4. QED
      BY <2>2, <2>3
  <1>8. CASE ProbeSample
    <2>1. /\ ppc = "measuring" /\ ppc' = "sleeping"
          /\ maxlat' = Larger(maxlat, clock - pstart)
      BY <1>8 DEF ProbeSample
    <2>2. M * Pending(holding, work_units, ready) \in Nat
      BY <1>0, MulMono
    <2>3. clock - pstart <= Budget
      BY <1>0, <2>1, <2>2 DEF LatInv
    <2>4. QED
      BY <2>1, <2>3 DEF LatInv, Larger
  <1>9. CASE TimerDue
    <2>1. ppc' = "woken" /\ maxlat' = maxlat
      BY <1>9 DEF TimerDue
    <2>2. QED
      BY <2>1 DEF LatInv
  <1>10. CASE Idle
    <2>1. ppc = "sleeping" /\ ppc' = ppc /\ maxlat' = maxlat
      BY <1>10 DEF Idle
    <2>2. QED
      BY <2>1 DEF LatInv
  <1>11. CASE Report
    <2>1. /\ holding = Main /\ holding' = NoTask /\ ready' = ready
          /\ work_units' = work_units
          /\ clock' = clock /\ pstart' = pstart /\ ppc' = ppc
          /\ maxlat' = maxlat
      BY <1>11 DEF Report, Release
    <2>2. Pending(holding, work_units, ready)'
            = Pending(holding, work_units, ready)
      BY <1>0, <2>1, PendingFacts, AheadFacts, TaskNames DEF Pending, Tasks
    <2>3. QED
      BY <1>0, <2>1, <2>2, LatKeep
  <1>12. CASE KernelHint
    BY <1>12 DEF KernelHint, NaiveMode
  <1>13. CASE UNCHANGED vars
    <2>1. /\ ready' = ready /\ holding' = holding /\ work_units' = work_units
          /\ clock' = clock /\ pstart' = pstart /\ ppc' = ppc
          /\ maxlat' = maxlat
      BY <1>13 DEF vars
    <2>2. Pending(holding, work_units, ready)'
            = Pending(holding, work_units, ready)
      BY <2>1
    <2>3. QED
      BY <1>0, <2>1, <2>2, LatKeep
  <1>14. QED
    BY <1>1, <1>2, <1>3, <1>4, <1>5, <1>6, <1>7, <1>8, <1>9, <1>10, <1>11,
       <1>12, <1>13 DEF Next

(* In naive mode, however the chunks' durations and the probe's timer      *)
(* interleave with the workers, no latency the probe records (the time     *)
(* latency_probe's await asyncio.sleep(0) takes) exceeds one round of the  *)
(* workers, each holding the loop for at most NaiveEvery chunks: the       *)
(* worker running when the probe queues itself finishes its run of        *)
(* chunks, and each worker queued ahead of the probe runs at most          *)
(* NaiveEvery chunks before the shared counter makes it yield.             *)
THEOREM LatencyBoundedHolds ==
  ASSUME NaiveMode, ChunksBounded
  PROVE  Spec => []LatencyBounded
  <1>1. LatInv => LatencyBounded
    BY DEF LatInv, LatencyBounded, Budget
  <1>2. Init => LatInv
    BY LatInit
  <1>3. LatInv /\ [Next]_vars => LatInv'
    BY LatStep
  <1>4. QED
    BY <1>1, <1>2, <1>3, PTL DEF Spec

=============================================================================

