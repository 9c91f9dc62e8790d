------------------------------ MODULE Benchmark ------------------------------
(***************************************************************************)
(* The Python benchmark driver, bench/benchmark.py, on its asyncio loop.   *)
(*                                                                         *)
(* main() starts Workload.run, which creates one task per worker and then  *)
(* the latency probe, awaits the gather of the workers, clears running and *)
(* awaits the probe; main then prints the percentiles of the probe's       *)
(* samples.  A worker (in morpheus mode, after init_worker) runs chunks of *)
(* CPU work until its deadline and, between chunks, yields or not          *)
(* according to the mode.  The probe times an asyncio.sleep(0) and then    *)
(* sleeps 0.01 s.                                                          *)
(*                                                                         *)
(* Time is counted in milliseconds: a chunk of work takes about 1 ms (the  *)
(* code's comment) and is modelled as taking one of ChunkTicks.  The loop  *)
(* is the one of EventLoop: a FIFO ready queue, one task at a time, a      *)
(* timer that becomes ready once its time has come and the loop is free.   *)
(***************************************************************************)
EXTENDS Integers, Sequences

CONSTANTS
  Mode,        \* --mode: "blocking", "naive" or "morpheus"
  Workers,     \* --workers
  Duration,    \* --duration, in milliseconds
  ChunkTicks,  \* how many milliseconds a chunk of work may take
  Native       \* whether the _morpheus extension is installed

ASSUME ModeAssumption == Mode \in {"blocking", "naive", "morpheus"}
ASSUME WorkersAssumption == Workers \in Nat \ {0}
ASSUME DurationAssumption == Duration \in Nat
ASSUME ChunkTicksAssumption == ChunkTicks \subseteq Nat \ {0} /\ ChunkTicks # {}
ASSUME NativeAssumption == Native \in BOOLEAN

(* The literals of the code: the naive mode yields every 10 work units; the *)
(* probe sleeps 0.01 s between samples.                                    *)
NaiveEvery == 10
ProbeSleep == 10

Ids == 0..(Workers - 1)
Worker(i) == <<"worker", i>>
Probe == <<"probe", 0>>
Main == <<"main", 0>>
NoTask == <<"none", 0>>

VARIABLES
  clock,      \* time.time(), in milliseconds since the run began
  ready,      \* the loop's ready queue of tasks
  holding,    \* the task the loop is running, or NoTask
  mpc,        \* where main() / Workload.run is
  wpc,        \* per worker, where worker_loop is
  end_time,   \* per worker, its end_time
  work_units, \* self.work_units, shared by the workers
  running,    \* self.running
  ppc,        \* where latency_probe is
  pstart,     \* the probe's start timestamp
  wake,       \* when the probe's sleep(0.01) ends
  samples,    \* len(self.latencies)
  maxlat,     \* max(self.latencies), in milliseconds
  bound,      \* the slot init_worker bound the loop's thread to, or -1
  hint        \* a kernel hint is pending on the thread's SCB

vars == <<clock, ready, holding, mpc, wpc, end_time, work_units, running,
          ppc, pstart, wake, samples, maxlat, bound, hint>>

-----------------------------------------------------------------------------

(* Wake a task awaiting a future that has completed: its callback is put   *)
(* on the ready queue once.                                                *)
WakeUp(q, t) == IF \E j \in 1..Len(q) : q[j] = t THEN q ELSE Append(q, t)

Release == holding' = NoTask

(* asyncio.run has returned or raised: the program is over. *)
Over == mpc \in {"done", "stats_error", "init_error"}

MaxChunk == CHOOSE c \in ChunkTicks : \A d \in ChunkTicks : d <= c

(* Bound on the clock: every worker's duration, one round of the workers  *)
(* each, and a probe period.                                               *)
TimeBound == (Workers + 1) * (Duration + NaiveEvery * MaxChunk) + ProbeSleep

Larger(a, b) == IF a >= b THEN a ELSE b

(* Mutant of YieldsAfter: the naive mode's asyncio.sleep(0) is called but *)
(* not awaited.                                                            *)
YieldsAfterNoAwait(units) ==
  CASE Mode = "blocking" -> FALSE
    [] Mode = "naive"    -> FALSE
    [] Mode = "morpheus" -> hint

(* The yielding strategy after a chunk: whether the worker awaits.  In     *)
(* morpheus mode async_checkpoint suspends iff checkpoint() is true, that  *)
(* is a hint is pending (the worker holds no critical section).            *)
YieldsAfter(units) ==
  CASE Mode = "blocking" -> FALSE
    [] Mode = "naive"    -> units % NaiveEvery = 0
    [] Mode = "morpheus" -> hint

(* asyncio.run(main()): argument parsing is done, the mode check passed,   *)
(* the Workload is built; only main's task is ready.                       *)
Init ==
  /\ clock = 0
  /\ ready = <<Main>>
  /\ holding = NoTask
  /\ mpc = "start"
  /\ wpc = [i \in Ids |-> "new"]
  /\ end_time = [i \in Ids |-> 0]
  /\ work_units = 0
  /\ running = TRUE
  /\ ppc = "new"
  /\ pstart = 0
  /\ wake = 0
  /\ samples = 0
  /\ maxlat = 0
  /\ bound = -1
  /\ hint = FALSE

(* The loop takes the task at the head of the ready queue. *)
Schedule ==
  /\ ~Over
  /\ holding = NoTask
  /\ ready # <<>>
  /\ holding' = Head(ready)
  /\ ready' = Tail(ready)
  /\ UNCHANGED <<clock, mpc, wpc, end_time, work_units, running, ppc, pstart,
                 wake, samples, maxlat, bound, hint>>

(* Workload.run up to its first await: the worker tasks, then the probe,   *)
(* are created, and run awaits the gather.                                 *)
StartRun ==
  /\ holding = Main
  /\ mpc = "start"
  /\ ready' = ready \o [j \in 1..Workers |-> Worker(j - 1)] \o <<Probe>>
  /\ mpc' = "gather"
  /\ Release
  /\ UNCHANGED <<clock, wpc, end_time, work_units, running, ppc, pstart, wake,
                 samples, maxlat, bound, hint>>

(* Mutant of WorkerStart: the slot is numbered from 1. *)
WorkerStartFromOne(i) ==
  /\ holding = Worker(i)
  /\ wpc[i] = "new"
  /\ IF Mode = "morpheus" /\ (~Native \/ bound # -1)
       THEN /\ wpc' = [wpc EXCEPT ![i] = "failed"]
            /\ ready' = WakeUp(ready, Main)
            /\ Release
            /\ UNCHANGED <<end_time, bound>>
       ELSE /\ wpc' = [wpc EXCEPT ![i] = "loop"]
            /\ end_time' = [end_time EXCEPT ![i] = clock + Duration]
            /\ bound' = IF Mode = "morpheus" THEN i + 1 ELSE bound
            /\ UNCHANGED <<ready, holding>>
  /\ UNCHANGED <<clock, mpc, work_units, running, ppc, pstart, wake, samples,
                 maxlat, hint>>

(* The start of worker_loop: in morpheus mode init_worker binds the        *)
(* thread, which fails without the extension (the package has no           *)
(* init_worker then) and, per the registry contract, when the thread is    *)
(* already bound; the exception is re-raised and fails the gather, which   *)
(* wakes run.  Otherwise the worker takes its end_time and goes on.        *)
WorkerStart(i) ==
  /\ holding = Worker(i)
  /\ wpc[i] = "new"
  /\ IF Mode = "morpheus" /\ (~Native \/ bound # -1)
       THEN /\ wpc' = [wpc EXCEPT ![i] = "failed"]
            /\ ready' = WakeUp(ready, Main)
            /\ Release
            /\ UNCHANGED <<end_time, bound>>
       ELSE /\ wpc' = [wpc EXCEPT ![i] = "loop"]
            /\ end_time' = [end_time EXCEPT ![i] = clock + Duration]
            /\ bound' = IF Mode = "morpheus" THEN i ELSE bound
            /\ UNCHANGED <<ready, holding>>
  /\ UNCHANGED <<clock, mpc, work_units, running, ppc, pstart, wake, samples,
                 maxlat, hint>>

(* One turn of the while loop: a chunk of work, the shared counter, and    *)
(* the mode's yield: the worker awaits (and is queued again) or keeps the  *)
(* loop.                                                                   *)
WorkChunk(i, c) ==
  /\ holding = Worker(i)
  /\ wpc[i] = "loop"
  /\ clock < end_time[i]
  /\ clock' = clock + c
  /\ work_units' = work_units + 1
  /\ IF YieldsAfter(work_units + 1)
       THEN /\ Release
            /\ ready' = Append(ready, Worker(i))
            /\ hint' = FALSE
       ELSE UNCHANGED <<holding, ready, hint>>
  /\ UNCHANGED <<mpc, wpc, end_time, running, ppc, pstart, wake, samples,
                 maxlat, bound>>

(* The deadline has passed: worker_loop returns; the last worker to return *)
(* completes the gather, which wakes run.                                  *)
WorkerEnd(i) ==
  /\ holding = Worker(i)
  /\ wpc[i] = "loop"
  /\ clock >= end_time[i]
  /\ wpc' = [wpc EXCEPT ![i] = "done"]
  /\ ready' = IF \A j \in Ids \ {i} : wpc[j] = "done"
                THEN WakeUp(ready, Main) ELSE ready
  /\ Release
  /\ UNCHANGED <<clock, mpc, end_time, work_units, running, ppc, pstart, wake,
                 samples, maxlat, bound, hint>>

(* Mutant of GatherDone: self.running is not cleared. *)
GatherDoneKeepsRunning ==
  /\ holding = Main
  /\ mpc = "gather"
  /\ IF \E i \in Ids : wpc[i] = "failed"
       THEN mpc' = "init_error"
       ELSE mpc' = IF ppc = "done" THEN "report" ELSE "probe"
  /\ Release
  /\ UNCHANGED <<clock, ready, wpc, end_time, work_units, running, ppc, pstart,
                 wake, samples, maxlat, bound, hint>>

(* Workload.run after the gather: a failed worker's exception propagates   *)
(* out of run and main; otherwise running is cleared and run awaits the    *)
(* probe (or goes on if it has already returned).                          *)
GatherDone ==
  /\ holding = Main
  /\ mpc = "gather"
  /\ IF \E i \in Ids : wpc[i] = "failed"
       THEN /\ mpc' = "init_error"
            /\ UNCHANGED running
       ELSE /\ running' = FALSE
            /\ mpc' = IF ppc = "done" THEN "report" ELSE "probe"
  /\ Release
  /\ UNCHANGED <<clock, ready, wpc, end_time, work_units, ppc, pstart, wake,
                 samples, maxlat, bound, hint>>

(* Mutant of ProbeLoop: the start timestamp is taken once, before the    *)
(* while loop.                                                             *)
ProbeLoopStartOnce ==
  /\ holding = Probe
  /\ ppc \in {"new", "woken"}
  /\ IF running
       THEN /\ ppc' = "measuring"
            /\ pstart' = IF ppc = "new" THEN clock ELSE pstart
            /\ ready' = Append(ready, Probe)
       ELSE /\ ppc' = "done"
            /\ ready' = IF mpc = "probe" THEN WakeUp(ready, Main) ELSE ready
            /\ UNCHANGED pstart
  /\ Release
  /\ UNCHANGED <<clock, mpc, wpc, end_time, work_units, running, wake, samples,
                 maxlat, bound, hint>>

(* The probe's while test, and the start of a sample: the timestamp is     *)
(* taken and the probe awaits sleep(0).                                    *)
ProbeLoop ==
  /\ holding = Probe
  /\ ppc \in {"new", "woken"}
  /\ IF running
       THEN /\ ppc' = "measuring"
            /\ pstart' = clock
            /\ ready' = Append(ready, Probe)
       ELSE /\ ppc' = "done"
            /\ ready' = IF mpc = "probe" THEN WakeUp(ready, Main) ELSE ready
            /\ UNCHANGED pstart
  /\ Release
  /\ UNCHANGED <<clock, mpc, wpc, end_time, work_units, running, wake, samples,
                 maxlat, bound, hint>>

(* Back from sleep(0): the latency is recorded, and the probe sleeps.      *)
ProbeSample ==
  /\ holding = Probe
  /\ ppc = "measuring"
  /\ samples' = samples + 1
  /\ maxlat' = Larger(maxlat, clock - pstart)
  /\ ppc' = "sleeping"
  /\ wake' = clock + ProbeSleep
  /\ Release
  /\ UNCHANGED <<clock, ready, mpc, wpc, end_time, work_units, running, pstart,
                 bound, hint>>

(* The loop, free, finds the probe's timer due and makes the probe ready. *)
TimerDue ==
  /\ ~Over
  /\ holding = NoTask
  /\ ppc = "sleeping"
  /\ clock >= wake
  /\ ppc' = "woken"
  /\ ready' = Append(ready, Probe)
  /\ UNCHANGED <<clock, holding, mpc, wpc, end_time, work_units, running,
                 pstart, wake, samples, maxlat, bound, hint>>

(* Nothing is ready: select blocks until the probe's timer (the model    *)
(* stops time at TimeBound, which a run of the code never reaches).       *)
Idle ==
  /\ ~Over
  /\ wake <= TimeBound
  /\ holding = NoTask
  /\ ready = <<>>
  /\ ppc = "sleeping"
  /\ clock < wake
  /\ clock' = wake
  /\ UNCHANGED <<ready, holding, mpc, wpc, end_time, work_units, running, ppc,
                 pstart, wake, samples, maxlat, bound, hint>>

(* run has returned (or the probe it awaited has): main prints throughput  *)
(* and, if there are samples, statistics.quantiles(n=100), which raises    *)
(* StatisticsError on a single data point.                                 *)
Report ==
  /\ holding = Main
  /\ mpc \in {"report", "probe"}
  /\ (mpc = "probe" => ppc = "done")
  /\ mpc' = IF samples = 1 THEN "stats_error" ELSE "done"
  /\ Release
  /\ UNCHANGED <<clock, ready, wpc, end_time, work_units, running, ppc, pstart,
                 wake, samples, maxlat, bound, hint>>

(* The kernel raises preempt_seq on the thread's SCB. *)
KernelHint ==
  /\ Mode = "morpheus"
  /\ ~Over
  /\ ~hint
  /\ bound # -1
  /\ hint' = TRUE
  /\ UNCHANGED <<clock, ready, holding, mpc, wpc, end_time, work_units,
                 running, ppc, pstart, wake, samples, maxlat, bound>>

Next ==
  \/ Schedule
  \/ StartRun
  \/ \E i \in Ids : \/ WorkerStart(i)
                    \/ \E c \in ChunkTicks : WorkChunk(i, c)
                    \/ WorkerEnd(i)
  \/ GatherDone
  \/ ProbeLoop
  \/ ProbeSample
  \/ TimerDue
  \/ Idle
  \/ Report
  \/ KernelHint

(* The loop runs whatever is ready; time passes.                           *)
Spec == Init /\ [][Next]_vars /\ WF_vars(Next)

-----------------------------------------------------------------------------

TypeOK ==
  /\ clock \in Nat
  /\ ready \in Seq({Main, Probe} \cup {Worker(i) : i \in Ids})
  /\ holding \in {Main, Probe, NoTask} \cup {Worker(i) : i \in Ids}
  /\ mpc \in {"start", "gather", "probe", "report", "done", "stats_error",
              "init_error"}
  /\ wpc \in [Ids -> {"new", "loop", "done", "failed"}]
  /\ end_time \in [Ids -> Nat]
  /\ work_units \in Nat /\ running \in BOOLEAN
  /\ ppc \in {"new", "measuring", "sleeping", "woken", "done"}
  /\ pstart \in Nat /\ wake \in Nat
  /\ samples \in Nat /\ maxlat \in Nat
  /\ bound \in Ids \cup {-1} /\ hint \in BOOLEAN

(* The probe measures what it is for, the loop's responsiveness: in naive  *)
(* mode no sample of the time an asyncio.sleep(0) takes exceeds one round  *)
(* of the workers, each holding the loop for at most ten chunks, however   *)
(* the chunks' durations and the probe's timer interleave.                  *)
LatencyBounded == maxlat <= Workers * NaiveEvery * MaxChunk

(* main divides the work done by --duration to report throughput, so the  *)
(* run must last about --duration: when run returns and the throughput is *)
(* printed, no more than one round of the workers (the time the last       *)
(* worker waits for its first turn) past the duration has gone by.         *)
DurationHonest ==
  mpc \in {"done", "stats_error"} => clock <= Duration + Workers * NaiveEvery * MaxChunk

(* The probe collects enough samples for main's report: statistics.quantiles *)
(* raises on a single data point.                                          *)
ReportComputes == mpc # "stats_error"

(* Every worker of a morpheus-mode run registers: init_worker does not     *)
(* fail, so the run is not aborted by the exception worker_loop re-raises. *)
WorkersRegister == mpc # "init_error"

(* The benchmark terminates: asyncio.run(main()) returns or raises, the    *)
(* probe having seen running cleared.                                      *)
RunEnds == <>Over

=============================================================================
