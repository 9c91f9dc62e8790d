# A TLA+ model of the Morpheus Python runtime

This directory holds TLA+ models of the Python side of Morpheus (`src/morpheus-py`), together with the TLC configurations that check them and the TLAPS proofs about them.

Morpheus is a kernel-guided cooperative scheduler. A sched_ext scheduler decides when a worker thread should yield. It advances `preempt_seq` in the thread's Shared Control Block (SCB). The runtime notices this at the next checkpoint, yields, and writes `last_ack_seq`.

The native extension `_morpheus` and the kernel scheduler are not in the repository. Where the Python code depends on them, the models follow `spec.md`, and `PROJECT.json` marks those definitions `spec_modelled`.

## 1. The system and its parts

| Part | Source | State | Operations |
|---|---|---|---|
| Checkpoint helpers | `python/morpheus_asyncio.py` 44-126, `python/morpheus/asyncio.py` 40-73 | the thread's SCB fields `preempt_seq`, `is_in_critical_section`, `last_ack_seq` | `morpheus_checkpoint`, `force_yield`, `morpheus_critical` (enter, then exit in a `finally`) |
| Native engine and defensive tracker (spec 4.3-4.5) | not in the repository | runtime mode, last observed sequence, exit streak | `checkpoint`, `acknowledge_yield`, `enter/exit_critical_section` |
| Kernel hint publisher (spec 4.1-4.2) | not in the repository | `preempt_seq`; a lossy ring buffer | publish a hint, possibly dropping the record |
| `AdaptiveCheckpointer` | `morpheus_asyncio.py` 129-177, `morpheus/asyncio.py` 76-93 | `_last_check`, min and max interval | `should_check(i)` |
| Event loop policy and `_MorpheusEventLoop` | `morpheus/asyncio.py` 96-175, `morpheus_asyncio.py` 180-230 | the inner asyncio loop; `_check_handle`; `_running` | `new_event_loop`, `run_forever`, `run_until_complete`, `_schedule_check`, `_cancel_check`, `_check_and_reschedule`, `close`, `__getattr__` |
| Package imports and binding resolution | `morpheus/__init__.py`, `morpheus/asyncio.py` 8-37, `morpheus_asyncio.py` 23-41, `morpheus_common/__init__.py`, the importing programs | `sys.modules`, each module's namespace, which object `_morpheus` is bound to | the top-level statements, executed under Python's import rules |
| SCB layout | `morpheus_common/_morpheus_shared.py` 99-189 | the ctypes structures | class creation, `verify_offsets` |
| Benchmark driver | `bench/benchmark.py` | the workload's tasks, its clock, the probe's samples | `Workload.run`, `worker_loop`, `latency_probe`, `main`'s report |
| Framework examples | `examples/celery_worker.py`, `flask_app.py`, `django_middleware.py` | a serving thread's request, loop index and yield counter; its SCB | the compute loops, `batch_process`, the `critical()` FFI sections, the Django middleware and view decorator |
| Runner, FastAPI example, analysis scripts | `run.py`, `examples/fastapi_app.py`, `bench/analyze.py`, `scripts/` | | |

**How the parts interact.**
- A worker thread runs one asyncio loop. The policy wraps that loop in `_MorpheusEventLoop`.
- While the loop runs, the wrapper queues a callback with `call_soon`. On every tick the callback calls `_morpheus.checkpoint()` and re-arms itself.
- The tasks of the loop call `morpheus_checkpoint()` between units of work. `AdaptiveCheckpointer` can pace those calls.
- `morpheus_checkpoint()` reads the SCB through the native engine. When a yield is due, it acknowledges the hint and sleeps for 0.
- `morpheus_critical` raises the thread's critical count while its body runs. While the count is above zero, checkpoints do not yield.
- The kernel advances `preempt_seq` at any moment.

**The hard behaviours.**
- The tasks of one thread interleave at every `await`. That includes an `await` inside `morpheus_critical`, although the critical count belongs to the thread, not to the task.
- Exceptions and cancellations unwind nested critical scopes.
- The kernel writes the SCB between any two native calls.
- Hints can arrive faster than checkpoints observe them.
- The checkpoint callback re-arms itself, and it races the tasks for the loop.
- One loop can be run several times. One pacer can be reused across loops.

## 2. Modules

### Checkpoint (`Checkpoint.tla`, `MC_Checkpoint.tla`, `CheckpointProofs.tla`)

This module models one worker thread: its SCB, the native engine, the kernel, and the thread's asyncio tasks.

**State**
- The SCB fields `preempt_seq`, `last_ack_seq` and `is_in_critical_section`.
- The tracker variables `mode`, `last_seen` and `streak`.
- For each task, `pc` and `depth`. `depth` is the number of `morpheus_critical` scopes the task has open.
- The history variable `hint_lost`.

**Actions**

| Action | Code |
|---|---|
| `PublishHint(dropped)` | the kernel |
| `Resume` | the loop runs a ready task |
| `MorpheusCheckpoint` | `checkpoint()` at line 62, including the tracker update |
| `AcknowledgeAndSleep` | lines 63-65 |
| `ForceYield` | lines 70-77 |
| `EnterCritical`, `ExitCritical` | lines 97 and 100-101 |
| `AwaitOther` | an `await` of other work, which suspends inside a scope only when `SuspendInCritical` |
| `Finish` | the task ends |
| `Raise`, `ResumeRaising` | an exception, or a cancellation delivered at an await, unwinding every open scope through its `finally` |

A task step is the code a task runs between two awaits. asyncio runs one task at a time, so task steps never overlap. The kernel's writes can fall between any two of them.

### Pacer (`Pacer.tla`, `MC_Pacer.tla`, `PacerProofs.tla`)

This module models `AdaptiveCheckpointer` driven by the loop of `adaptive_checkpoint_example`, run `Loops` times over one checker.

**State**
- `pressure`, what `pressure_level()` returns; it may be absent.
- `last_check`, the checker's `_last_check`.
- `i`, the loop variable.
- `loop`, the number of loops started.
- The history variables `anchor`, where the current unchecked stretch began, and `returned`, the last answer.

**Actions**
- `ShouldCheck` is one whole iteration: the interpolation, the floor division, the `>=` test and the cursor move.
- `SetPressure` is the kernel changing the level.
- `StartLoop` starts a new `range()` loop over the same checker.

### EventLoop (`EventLoop.tla`, `MC_EventLoop.tla`, `EventLoopProofs.tla`)

This module models the wrapper class and the policy over an inner asyncio loop. The inner loop is modelled from `BaseEventLoop._run_once`:
- a FIFO ready queue;
- each iteration runs exactly the handles that were queued when it began;
- `select` uses timeout 0 when anything is ready;
- `stop()` takes effect at the end of the iteration.

**State**
- `phase`, the state of the loop.
- `ready` and `batch`, the ready queue and the handles left in the current iteration.
- `stopping`.
- `check_handle`, the wrapper's `_check_handle`.
- `remaining`, the main task's remaining work.
- `waiting`, whether the main task waits on I/O.
- `runs`, the number of runs started.

**Constants**
- `Variant` selects the package wrapper (`morpheus/asyncio.py`) or the legacy one (`morpheus_asyncio.py`).
- `Binding` selects what `_morpheus` is bound to: the native module, or the package itself through the circular fallback import.
- `Entries` selects the entry points used: `asyncio.run`, `run_until_complete`, `run_forever`.

**Method dispatch**

`Overridden` is the set of methods the wrapper defines. A call to any other method of `AbstractEventLoop` reaches the base class, which raises `NotImplementedError` (`EnterUnimplemented`). Python consults `__getattr__` only for names that neither the class nor its bases define.

**Actions**

| Action | Code |
|---|---|
| `Run(e)` | `run_forever` and `run_until_complete`, including `_schedule_check` |
| `RunCheck` | `_check_and_reschedule` |
| `ReturnFromRun` | the `finally` and `_cancel_check` |
| `Close` | `close` |
| `BeginIteration`, `IOComplete`, `SkipCancelled`, `RunStep`, `RunStop` | the inner loop and the main task |

### LoopRun (`LoopRun.tla`): what a wrapped loop promises

`LoopRun` is the abstract specification of a loop made by `MorpheusEventLoopPolicy`, with the inner loop and its ready queue hidden.
- **State:** `phase`, whether a checkpoint callback is `armed`, and `runs`.
- **Actions:** `Start` arms the callback, `Fail` and `Refuse` are runs that cannot start or that a closed loop refuses, `Return` disarms it, `Close`.
- **Liveness:** `Return` is weakly fair, so every run returns.

`EventLoop` implements it. `Abstract == INSTANCE LoopRun WITH armed <- LiveChecks # {}` maps the wrapper's state onto it: the callback is armed when a live checkpoint handle is in the ready queue, and `phase` and `runs` map to themselves. Its safety part, `Abstract!SafeSpec`, is proved for every bound in `EventLoopProofs` (`RefinesLoopRun`); that every run returns is checked directly by `RunReturns`. Queue-level steps (iterations, task steps, the callback re-arming itself) map to stutters. Under this mapping, a `finally` that does not cancel the handle leaves the callback armed after `Return`, which is not a `Return` step of `LoopRun`; the same bug breaks `OneCheckChain`, the mutant of `loop_chain`.

### Imports (`Imports.tla`, `MC_Imports.tla`)

This module runs the top level of every module of the package as a short program of statements, under the rules of `importlib`:
- a module in `sys.modules` is returned even while it is still executing;
- a submodule's package is imported first;
- a module that cannot be found raises ImportError, and so does a from-import of a name the module (possibly partial) does not hold;
- a module whose execution raises is removed from `sys.modules`, and the exception unwinds frame by frame to the nearest `except ImportError`.

**Constants**
- `Installs`: whether the Python package is installed and whether the extension is built.
- `Programs`: which of the repository's importing programs is run: the benchmark, the tests, the Django, Celery and Flask examples, the asyncio example, `python -m morpheus.run` and `import morpheus_common`.

**State**
- `status`: each module's entry in `sys.modules` (absent, partial, done).
- `defined`: the names in each namespace.
- `binding`: what `_morpheus` is bound to in each asyncio helper module.
- `stack`: the frames executing top levels.
- `raising`: an ImportError is propagating.
- `outcome`.

**Actions**
- One per kind of statement step: `ImportBound`, `ImportParent`, `ImportMissing`, `ImportLoad`, `Assign`, `Define`, `EndModule`.
- One per exception step: `Catch`, `Unwind`.
- The module bodies are the definitions `PackageInit`, `AsyncioBody`, `LegacyBody`, `CommonBody`, `SharedBody` and `ProgramBody`. Each statement records the statement that follows on success and on ImportError.

The `_morpheus = None` branch of `morpheus/asyncio.py` is one of the statements of `Assign`. It is never executed: the run imports_fallback shows why.

### ScbLayout (`ScbLayout.tla`, `MC_ScbLayout.tla`, `ScbLayoutProofs.tla`)

This module models what happens when `_morpheus_shared.py` runs as a script.
- The three class statements create their ctypes structures one field at a time (`PlaceField`, `FinishClass`).
- A field's offset is the running end rounded up to its alignment. The alignment is the platform's alignment for the C type, capped by `_pack_`. An array aligns as its element.
- The size of a structure is rounded up to its largest alignment.
- `verify_offsets` then checks its table (`CheckOffset`) and the size (`CheckSize`).
- The constant `Platforms` gives the ABI alignments: x86-64 and ARM (4/8), i386 (4/4), m68k (2/2).

### Benchmark (`Benchmark.tla`, `MC_Benchmark.tla`, `BenchmarkProofs.tla`, `BenchmarkDurationProofs.tla`)

This module models `bench/benchmark.py` on one asyncio loop with a millisecond clock.

**The loop**
- A FIFO ready queue (`Schedule`).
- Timers (`TimerDue`).
- Idling to the next timer (`Idle`).

**The tasks**
- The main task: `StartRun` creates the workers and then the probe. `GatherDone` follows the gather and clears `running`; `Report` is `main`'s statistics.
- `Workers` worker tasks: `WorkerStart` covers `init_worker` in morpheus mode and `end_time`; `WorkChunk` is one unit of work and its await; `WorkerEnd`.
- The probe: `ProbeLoop` and `ProbeSample`.
- `KernelHint` models the kernel advancing `preempt_seq`.

The constant `Mode` selects blocking, naive (an await every 10 units) or morpheus (an await when a hint is pending). `ChunkTicks` is the set of durations a unit of work may take. `Native` says whether the extension is built.

### Frameworks (`Frameworks.tla`, `MC_Frameworks.tla`)

This module models one worker thread of the Flask app, the Celery worker or a Django site with the middleware, serving one request or task at a time. Meanwhile the kernel writes `preempt_seq` and `kernel_pressure_level` into the thread's SCB at any moment.

**Constants**
- `Program` selects the example. `Handlers` is its set of handlers that touch Morpheus.
- `Registered` says whether the thread has an SCB slot. None of the examples calls `init_worker`. On an unregistered thread the native `checkpoint()` returns False, `pressure_level()` returns nothing and `critical()` does nothing (spec 7, T13), the same as the fallbacks.
- `Blocks`, `Items` and `MaxRequests` bound the compute loops, the batch list and the requests served.

**Actions**

| Action | Code |
|---|---|
| `Begin(h)` | dispatch of a request or task; the middleware's `morpheus_yields = 0` |
| `ComputeBlock` | a block of 1000 iterations of `compute` / `cpu_intensive_task`, whose first calls `checkpoint()` |
| `BatchItem` | one item of `batch_process`: `pressure_level() or 0`, `max(1, 100 - pressure)`, and `checkpoint()` when `idx % interval == 0` |
| `FfiEnter`, `FfiExit` | `with critical():` around the simulated FFI call |
| `ViewReturn` | `morpheus_checkpoint_decorator`'s wrapper |
| `Finish` | the handler returns |
| `PublishHint`, `PublishPressure(p)` | the kernel |

No example acknowledges a yield, so `last_ack_seq` keeps the value 0 that registration gives it, and `checkpoint()` answers whether any hint has been published.

## 3. Runs

Each run is listed in `PROJECT.json`.

| Run | Checks | Shows |
|---|---|---|
| checkpoint_crit | `TypeOK`, `CritAccounting` | Two tasks with nested scopes, awaits, raises and cancellations inside them always leave the count equal to the scopes open. |
| hint_liveness | `HintAcknowledged` | With no await inside critical scopes, every hint the kernel publishes is eventually acknowledged by a yielding checkpoint, however hints and task steps interleave. |
| pacer_gap | `TypeOK`, `GapBounded`, `ChecksSpaced` | Over two loops of one checker, the first loop never runs more than `max_interval` iterations unchecked, whatever the pressure does, and checks are at least `min_interval` apart in every loop. |
| loop_chain | `TypeOK`, `OneCheckChain`, `RunReturns` | Over three runs of one loop, exactly one checkpoint callback chain exists while a run is active and none after it (proved for every bound in `EventLoopProofs`), and the self-rearming callback never starves the main task. |
| loop_asyncio_run (violation) | `EntryRuns` | `asyncio.run(main())`, the documented usage, fails at `create_task`. |
| imports_native | `ImportSucceeds`, `CallsResolve`, `AllExported` | With the extension built, no program dies of an ImportError where the package is installed; both helper modules' `_morpheus` provides every attribute they call; every name of `__all__` is defined. |
| imports_fallback (violation) | `CallsResolve` | Without the extension, `morpheus/asyncio.py:21` binds the half-initialised package, never the stub, and the package has no `checkpoint`. |
| scb_layout | `LayoutMatchesSpec` | On all three ABIs every SCB and hint field, reserved and padding fields included, lies where spec sections 3.1 and 3.2 say. |
| bench_naive | `LatencyBounded`, `DurationHonest` | In naive mode no probe sample exceeds one round of ten-unit worker steps, and the run ends within `--duration` plus one round, so the printed throughput is honest. |
| bench_morpheus | `TypeOK`, `RunEnds` | A one-worker morpheus-mode run under arbitrary kernel hints stays typed and always terminates. |
| bench_stats (violation) | `ReportComputes` | In blocking mode the probe takes one sample, after every worker has finished, and `statistics.quantiles` raises. |
| frameworks_batch (violation) | `BatchGapBounded` | In Celery's `batch_process`, a pressure rise from 0 to 1 just before item 100 changes the interval to 99. Index 100 is then skipped, and more than 100 items pass without a checkpoint. The next check is at index 198. The code comment says checkpoints only become more frequent under pressure. |

The findings of the violation runs are in `PROJECT.json`. The benchmark's finding was reproduced on CPython 3.11: `--mode blocking --workers 2 --duration 1` raises StatisticsError at line 149.

**Further observations.** The models state more than the runs above check. Changing a constant in a cfg shows each of the following:
- *Checkpoint.* With `SuspendInCritical = TRUE`, `HintAcknowledged` fails. A task that awaits inside `morpheus_critical` keeps the thread's count raised, so every other task's checkpoint returns False.
- *Checkpoint.* With one task, `NoSpuriousDefensive` fails. Two hints between two checkpoints drive the tracker into DEFENSIVE with no record lost.
- *Pacer.* `GapBounded` is stated for a checker's first loop, the only use `adaptive_checkpoint_example` makes of one. Without the `loop = 1` premise it fails in the second loop of `pacer_gap`: the reused checker's stale `_last_check` lets more than `max_interval` iterations pass unchecked. The theorem `GapBoundedHolds` assumes one loop.
- *Benchmark, morpheus mode.* With `Workers = 2`, `WorkersRegister` fails. Every worker calls `init_worker` on the one event-loop thread, and spec 4.2 rejects a second bind.
- *Benchmark, blocking mode.* `DurationHonest` fails. The workers run one after another, so the run takes `workers × duration`, while throughput is divided by `duration`. The reproduction measured 4943 units/s, against 2186 for naive mode.
- *Imports, without the extension.*
  - `AllExported` fails, because `__all__` names native functions.
  - With the extension built to spec 6.2 and 6.3 alone (`NativeDefs <- MCSpecNativeDefs` in `MC_Imports_native.cfg`), `AllExported` and `CallsResolve` fail while `ImportSucceeds` holds. `__init__.py` re-exports `yield_now_async` from `_morpheus` in the same statement as 20 other names, so one missing name loses all 21. `morpheus/asyncio.py:73` calls `_morpheus.is_defensive_mode`. The spec lists neither name. The extension source is not in the repository, so the passing run assumes it defines what the package imports.
  - The probes `import morpheus` in `bench/benchmark.py:13` and `tests/test_bindings.py:15` succeed, so `MORPHEUS_AVAILABLE` and `HAS_MORPHEUS` become True on a package that has no `init_worker`. The examples probe with a from-import, which fails correctly.

- *Frameworks.* With `Registered = TRUE` and `Program = "flask"`, `YieldsCountRequests` fails: one hint makes every later `checkpoint()` answer True, because nothing acknowledges it, so `kernel_yield_requests` counts checks, not requests. With `Registered = FALSE`, as in the repository, every checkpoint returns False and the count is always 0. This holds even though the Flask docstring says `checkpoint()` signals kernel yield requests.
- *Django middleware* (not modelled, formatting): `str(request.morpheus_pressure or 'N/A')` at line 53 reports a real pressure of 0 as N/A.

**Bounds**

*Checkpoint*
- Two tasks and nesting depth 2. With these, both tasks can hold scopes at once, and a task can nest scopes.
- `MaxSeq = 3`. This is enough for a gap of 2 and for a later contiguous streak.
- `DefensiveExit = 2`. This stands for the spec's 64 contiguous checkpoints. Only the comparison with the streak matters, so a smaller exit value exercises the same transitions.

*Pacer*
- Intervals 2..4 over pressure levels {0, 50, 100} and "absent". With these values the floor division gives three distinct intervals.
- Ten iterations per loop, which is more than twice `max_interval`. There are two loops over the checker, so a loop starts with a stale cursor.

*EventLoop*
- Six steps of work and three runs of one loop. With these, a run can follow a finished run and a close.

*Imports*
- The eight programs, with the extension built and the package installed or not (and, for the violation, the package without the extension). The import machinery is deterministic, so this covers every order in which these programs import the modules.

*ScbLayout*
- Three ABIs. Together they cover a u64 alignment above, equal to and below 4.

*Frameworks*
- `Items = 102` and pressure levels {1, 2}. With these, a pressure change can fall just before index 100, the first index at which the zero-pressure interval checks again. That is the smallest list on which the skipped check is visible.

*Benchmark*
- Two workers, durations 40-60 ms, units of 1 or 2 ms: enough for a naive round to interleave the probe between the workers.
- The morpheus-mode liveness run uses one worker and 30 ms, to keep it within minutes.
- `Idle` never jumps the clock past `TimeBound`, the longest a run can last. This keeps the state space finite without cutting off a reachable end.

**Fairness**
- *Checkpoint*
  - `Resume` is strongly fair, because asyncio's ready queue is FIFO.
  - `AcknowledgeAndSleep` is weakly fair, because the acknowledgement follows `checkpoint()` with no await in between.
  - `ExitCritical` is strongly fair at each depth, because scope bodies are finite.
  - A checkpoint taken outside critical scopes is strongly fair, because workers call `morpheus_checkpoint` between units of work.
- *Benchmark*
  - The whole next-state relation is weakly fair. The loop always runs some ready task or timer, and the kernel's hints are not needed for termination.
- *EventLoop*
  - Running the loop is weakly fair.
  - `IOComplete` is strongly fair. The loop is enabled only intermittently, between iterations, and the I/O the task waits on does complete.

## 4. Proofs

The following are proved for every value of the constants, and `tlapm` checks them to the last leaf.

- **`CheckpointProofs`**
  - `TypeCorrect`: `Spec => []TypeOK`.
  - `CritAccountingHolds`: `Spec => []CritAccounting`.
    - The inductive invariant is `TypeOK /\ CritAccounting`.
    - The set of open scopes is written as `ScopesOf(depth)`, the pairs (task, level) with level at most that task's depth.
    - The lemma `AddScope` shows that an entry adds one pair.
    - The lemma `DropScopes` shows that unwinding `k` scopes removes exactly `k` pairs. It relies on `FS_Interval`, `FS_Product`, `FS_Subset` and `FS_Difference`.
    - The zero clamp of `exit_critical_section` never applies in a reachable state, because the count is never below the number of open scopes.
- **`PacerProofs`**
  - `IntervalRange` and `IntervalMonotone` prove spec property T12. They rest on the lemmas `DivFloor` and `DivMonotone` about `\div 100`.
  - `TypeCorrect`.
  - `GapBoundedHolds`: with one loop per checker, `Spec => []GapBounded`.
    - The inductive invariant adds `last_check = anchor` and `anchor <= i`.
    - The relation between the cursor and the anchor is what fails when the checker is reused. That is why the theorem assumes `Loops = 1`; with `Loops = 2` TLC finds the violation (see "Further observations").
  - `ChecksSpacedHolds`: `Spec => ChecksSpaced`, for any number of loops.
    - The inductive invariant `SpaceInv` is `TypeOK /\ anchor <= last_check`. A True answer moves both to `i`, and a new loop resets the anchor to 0 while the cursor stays put, so the anchor never passes the cursor.
    - From it, a True answer at `i` has `i - anchor >= i - last_check >= Interval(pressure) >= MinInterval`, the last step by `IntervalRange`.
- **`ScbLayoutProofs`**
  - `LayoutCorrect`: under `NaturalAlignment`, `Spec => []LayoutMatchesSpec`.
    - `NaturalAlignment` says each platform aligns `uint32_t` to 1, 2 or 4 and `uint64_t` to 1, 2, 4 or 8. Every ABI ctypes supports does this.
    - The inductive invariant `LInv` says:
      - the classes already built have exactly the normative offsets and size;
      - in the class being built, the first `k - 1` fields sit at the normative offsets, and the running offset is the end of field `k - 1`;
      - `verify_offsets` has checked its first `vk - 1` expected offsets successfully.
    - The step lemmas `PlaceFieldStep`, `FinishClassStep`, `CheckOffsetStep` and `CheckSizeStep` take one action each.
    - The key fact is `PlaceExact`. Every normative offset is a multiple of its field's alignment on every naturally aligned platform, so ctypes inserts no padding and the next field lands exactly where the table says.
- **`BenchmarkProofs`**
  - `TypeCorrect`: `Spec => []TypeOK`, in every mode.
  - `QueueSound`: `Spec => []QInv`, in every mode. `QInv` says:
    - the asyncio ready queue holds no task twice, and never the task that holds the loop;
    - before `main` starts the workers, no worker and no probe is queued or running;
    - a sleeping probe is neither queued nor running;
    - a measuring probe is queued or running, so its wake-up is never lost.
    - The lemmas `TailQueue`, `AppendQueue` and `WakeUpQueue` describe the queue operations by membership (`In`) and distinctness (`Distinct`).
  - `LatencyBoundedHolds`: under `NaiveMode` and `ChunksBounded`, `Spec => []LatencyBounded`.
    - `NaiveMode` restricts the theorem to the mode in which the property is stated and checked (`bench_naive`).
    - `ChunksBounded` says the set of chunk durations has a largest element, so `MaxChunk` is the longest chunk. Each chunk's busy loop does a fixed amount of work, which is why the set is bounded.
    - The inductive invariant `LatInv` adds to `QInv` a potential argument. While the probe is measuring, the elapsed time plus `MaxChunk * Pending` is at most the budget `Workers * NaiveEvery * MaxChunk`.
    - `Pending` is the number of chunks that can still run before the probe resumes:
      - the chunks the running worker has left before its next yield (`RemOf`);
      - plus `NaiveEvery` for each worker queued ahead of the probe (`AheadOf`).
    - A chunk advances the clock by at most `MaxChunk` and lowers `Pending` by one. A yield moves the worker behind the probe, and a new worker start queues behind it too. So the sum never grows, and a sample taken when the probe resumes stays within the budget.
    - `AheadAppend`, `AheadTail` and `AheadCard` bound the set of workers ahead of the probe, and `PendingFacts` gives the arithmetic of `Pending`.
- **`BenchmarkDurationProofs`** (extends `BenchmarkProofs`)
  - `DurationHonestHolds`: under `NaiveMode` and `ChunksBounded`, `Spec => []DurationHonest`. When `main` prints the throughput, the clock is at most `Duration + Workers * NaiveEvery * MaxChunk`.
  - The argument has three parts, and each is a clause of the inductive invariant `DurInv`:
    - *Every worker starts in time* (`StartsInTime`). A worker still to start waits for at most `StartPending` chunks: what the running worker has left before its yield, plus `NaiveEvery` for each worker queued ahead of it (`AheadOfT`). The clock plus `MaxChunk * StartPending` stays within `StartBudget = (Workers - 1) * NaiveEvery * MaxChunk`. So every `end_time` is at most `Duration + StartBudget` (`Deadlines`).
    - *No chunk runs past the last deadline.* A chunk starts only before its worker's `end_time`. So while `running` is set, the clock stays below `RunCap = Duration + StartBudget + MaxChunk` (`ClockCapped`).
    - *The loop idles only after the gather.* While `running` is set, `main` or an unfinished worker is always queued or running. `WorkersQueued` and `MainWoken` (the last worker to return wakes `main`) make this hold. `BeforeRun` and `RunningPhase` (`running` is cleared only by `GatherDone`) tie it to `main`'s phase. So `Idle`, which jumps the clock to the probe's timer, happens only after `running` is cleared. The probe's timer is set less than `ProbeSleep` past `RunCap`, so the clock ends at most `RunCap + ProbeSleep - 1`. Since `MaxChunk >= 1`, `ProbeSleep - 1 = 9 <= (NaiveEvery - 1) * MaxChunk`, which gives the bound.
  - `DurationHonest` itself is not inductive. The clock bound at the end rests on where every worker stands in the queue. Each clause of `DurInv` was checked by TLC in `bench_naive` before it was proved.
  - There is one lemma per action (`DurSchedule` to `DurIdle`), combined in `DurStep`. Shared facts:
    - `StartsRelease`: a step that releases the loop without moving the clock starts no waiting worker later.
    - `AheadTAppend`, `AheadTWake`, `AheadTTail`: the queue operations never add a worker ahead of another.
    - `StartQueue`: the queue `StartRun` builds.
- **`EventLoopProofs`**
  - `TypeCorrect`: `Spec => []TypeOK`.
    - The inductive invariant `TypeInv` adds `phase # "running" => batch = 0`.
    - Without it, `close()` empties the queue and could leave `batch` above `Len(ready)`.
  - `OneCheckChainHolds`: with `Binding = "native"`, `Spec => []OneCheckChain`.
    - `OneCheckChain` counts live checkpoint handles, and the count alone is not inductive. When `_check_and_reschedule` runs, the count cannot tell whether the live check at the head of the queue is the handle `_check_handle` refers to.
    - The inductive invariant `Inv` adds `Chain(ready)` and `(phase = "running") <=> HasCur(ready)`:
      - the handle `_check_handle` refers to (`cur`) is a live check;
      - every live check is that handle;
      - that handle is unique;
      - it exists exactly while the loop runs.
    - There is one lemma per queue operation:
      - `PopChain`: popping a handle;
      - `PushChain`: `call_soon` of a step or the done callback;
      - `ScheduleChain`: `_schedule_check` on a queue without a chain;
      - `CancelChain`: `_cancel_check`;
      - `EmptyChain`: `close()`.
    - These rest on `ScheduleCheckProps` and `CancelCheckProps`, which describe the two queue rewrites element by element, and on `FunIsSeq`.
    - `FS_Singleton` and `FS_EmptySet` turn `Inv` into the cardinality of `LiveChecks`.
    - With `Binding = "circular"` the chain is not re-armed: the first `RunCheck` pops the only live check, and `Inv` fails.
  - `RefinesLoopRun`: with `Binding = "native"`, `Spec => Abstract!SafeSpec`. This means every behaviour of the wrapper is a behaviour of `LoopRun` without its fairness, under the mapping `armed = (LiveChecks # {})`.
    - `ArmedWhileRunning` derives from `Inv` that a live check exists exactly while the phase is running.
    - `AbstractStep` takes one case per action. `Run` maps to `Start` or `Fail`, and entering an unimplemented method maps to `Fail` or `Refuse`. `ReturnFromRun` maps to `Return`, and `Close` maps to `Close`. Every queue-level step leaves `phase`, `runs` and the armed flag unchanged, so it maps to a stutter.
    - The proof needs `Inv`, not just `OneCheckChain`. It is `Inv` that relates the live handles to the phase on both sides of a step.

Some properties are only model-checked.
- The liveness properties (`HintAcknowledged` and `RunReturns`) are outside TLAPS's reach, because the provers do not handle fairness or ENABLED.
- `RunEnds` (the benchmark finishes) is liveness too.
- `ReportComputes`, `BatchGapBounded` and `EntryRuns` are the properties of violation runs. TLC finds them false of the code (section 3), so there is nothing to prove.
- The Imports properties `ImportSucceeds`, `CallsResolve` and `AllExported` are within TLAPS's reach but are not proved. Their TLC check is already complete, for these reasons:
  - `Init` picks one installation and one program, and neither ever changes. So the behaviours for any `Installs` and `Programs` are the union of those for single values.
  - `imports_native` enumerates all eight programs with both package settings and the extension built. For those installations the check is complete.
  - Without the extension, `CallsResolve` and `AllExported` are false: see `imports_fallback` and "Further observations". `ImportSucceeds` is stated for that case too, and no run checks it there. Setting `Installs <- MCPackageOnly` in `MC_Imports_native.cfg` with `ImportSucceeds` alone checks it: 147 states, no violation.
  - A TLAPS proof would need an invariant that spells out every stack of module frames each program can reach, and it would cover no case that TLC does not already cover.
- Every other safety property of a passing run has a theorem above.

## 5. Not modelled

- The native extension, beyond what spec 4.3-4.5 says of checkpoints, acknowledgements, the critical count and the tracker. Budgets, priorities, escalation and stats are not modelled.
- The kernel scheduler.
- `is_kernel_pressured` and `is_defensive_mode`. They are stateless reads.
- `async_checkpoint`. It delegates to native code.
- `run.py`'s argument handling and `runpy` calls; only its imports are modelled, in Imports.
- The IntEnum classes, the configuration constants and `MAP_NAMES` of `_morpheus_shared.py`. They are plain values; Imports records only the names they define.
- The benchmark's argument parsing and JSON output.
- The FastAPI example. The framework examples' response formatting, Celery's `update_state` progress reports and timing.
- `run.py`'s command line (lines 36-70). It only installs the policy, which EventLoop models.
- The analysis and validation scripts (`bench/analyze.py`, `scripts/validate_benchmarks.py`). They read JSON files and plot or compare them offline, with no state shared with the runtime. `analyze.py:37` divides by `len - 1`, which gives NaN for a single sample.
