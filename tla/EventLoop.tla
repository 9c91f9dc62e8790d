------------------------------ MODULE EventLoop ------------------------------
(***************************************************************************)
(* The Morpheus event-loop policy and its loop wrapper, _MorpheusEventLoop *)
(* of python/morpheus/asyncio.py ("package") and of                        *)
(* python/morpheus_asyncio.py ("legacy"), over the inner asyncio loop the  *)
(* policy creates.                                                         *)
(*                                                                         *)
(* The inner loop is modelled from asyncio's BaseEventLoop, which is not   *)
(* part of the repository: a FIFO ready queue of handles, an iteration     *)
(* (_run_once) that runs exactly the handles queued when it began, skips   *)
(* cancelled ones, blocks in select only when the queue is empty, and      *)
(* stops after the iteration in which stop() was called.  A handle is a    *)
(* record: its kind (the wrapper's checkpoint callback, a step of the main *)
(* task, or the future's done callback that stops the loop), whether it is *)
(* still live (not cancelled) and whether the wrapper's _check_handle      *)
(* refers to it.                                                           *)
(*                                                                         *)
(* A program reaches the wrapper through asyncio.run(main()), as the       *)
(* policy's docstring shows, or by calling run_until_complete or           *)
(* run_forever on the loop.  The wrapper subclasses AbstractEventLoop,     *)
(* whose methods all raise NotImplementedError, so its __getattr__         *)
(* forwards only names AbstractEventLoop does not define.                  *)
(***************************************************************************)
EXTENDS Naturals, Sequences, FiniteSets

CONSTANTS
  Variant,     \* "package" or "legacy": which of the two wrappers
  Entries,     \* how programs enter the loop
  Binding,     \* "native": _morpheus.checkpoint exists; "circular": not
  Work,        \* steps of the main coroutine
  MaxRuns      \* bound on the runs of the same loop

EntryPoints == {"asyncio_run", "run_until_complete", "run_forever"}

ASSUME VariantAssumption == Variant \in {"package", "legacy"}
ASSUME EntriesAssumption == Entries \subseteq EntryPoints /\ Entries # {}
ASSUME BindingAssumption == Binding \in {"native", "circular"}
ASSUME WorkAssumption == Work \in Nat \ {0}
ASSUME MaxRunsAssumption == MaxRuns \in Nat \ {0}

Kinds == {"check", "step", "stop"}
Handle == [kind : Kinds, live : BOOLEAN, cur : BOOLEAN]
Phases == {"idle", "running", "stopped", "closed", "refused", "failed"}

VARIABLES
  phase,         \* not yet run, running, returned, closed, refused to run
                 \* (RuntimeError), or failed (NotImplementedError)
  ready,         \* the inner loop's _ready deque
  batch,         \* handles of the current iteration still to run
  stopping,      \* the inner loop's _stopping
  check_handle,  \* the wrapper's _check_handle: "none" or "set"
  remaining,     \* steps the main coroutine still has to take
  waiting,       \* the main task is suspended on I/O
  runs           \* runs of this loop so far

vars == <<phase, ready, batch, stopping, check_handle, remaining, waiting,
          runs>>

-----------------------------------------------------------------------------
(* The public loop methods the package's _MorpheusEventLoop defines.      *)
PackageMethods == {"run_forever", "run_until_complete", "close"}

(* The legacy wrapper defines only _run_once, which nothing calls.         *)
LegacyMethods == {}

(* The methods the wrapper defines itself; every other public method       *)
(* resolves to AbstractEventLoop's, which raises NotImplementedError       *)
(* before __getattr__ is ever consulted.                                   *)
Overridden == IF Variant = "package" THEN PackageMethods ELSE LegacyMethods

(* The loop methods each entry point calls first.                          *)
FirstCall(e) ==
  CASE e = "asyncio_run" -> "create_task"
    [] e = "run_until_complete" -> "run_until_complete"
    [] e = "run_forever" -> "run_forever"

Dispatches(m) == m \in Overridden

(* The live checkpoint callbacks in the ready queue. *)
LiveChecks == {j \in DOMAIN ready : ready[j].kind = "check" /\ ready[j].live}

NewHandle(k) == [kind |-> k, live |-> TRUE, cur |-> FALSE]

(* _schedule_check: call_soon(self._check_and_reschedule), and the new     *)
(* handle becomes self._check_handle.                                      *)
ScheduleCheck(q) ==
  [j \in DOMAIN q |-> [q[j] EXCEPT !.cur = FALSE]]
    \o <<[kind |-> "check", live |-> TRUE, cur |-> TRUE]>>

(* Mutant of CancelCheck: the handle is forgotten but not cancelled. *)
CancelCheckForgetting(q) ==
  [j \in DOMAIN q |-> [q[j] EXCEPT !.cur = FALSE]]

(* _cancel_check: cancel self._check_handle if set, then forget it.        *)
CancelCheck(q) ==
  [j \in DOMAIN q |-> IF q[j].cur THEN [q[j] EXCEPT !.live = FALSE,
                                                   !.cur = FALSE]
                                  ELSE q[j]]

-----------------------------------------------------------------------------
(* MorpheusEventLoopPolicy.new_event_loop: the wrapper around a fresh      *)
(* inner loop, with no check scheduled.                                    *)
Init ==
  /\ phase = "idle"
  /\ ready = <<>>
  /\ batch = 0
  /\ stopping = FALSE
  /\ check_handle = "none"
  /\ remaining = 0
  /\ waiting = FALSE
  /\ runs = 0

(* A program enters the loop and the first method it calls resolves to    *)
(* AbstractEventLoop's: NotImplementedError, and nothing is scheduled.     *)
EnterUnimplemented(e) ==
  /\ phase \in {"idle", "stopped"}
  /\ runs < MaxRuns
  /\ ~Dispatches(FirstCall(e))
  /\ phase' = "failed"
  /\ runs' = runs + 1
  /\ UNCHANGED <<ready, batch, stopping, check_handle, remaining, waiting>>

(* run_until_complete(main()) / run_forever(): _schedule_check, then the   *)
(* inner loop wraps the coroutine in a task, whose first step call_soon    *)
(* queues, and runs forever.  A closed inner loop refuses call_soon in     *)
(* _schedule_check, before the try: RuntimeError.                          *)
Run(e) ==
  /\ phase \in {"idle", "stopped", "closed"}
  /\ runs < MaxRuns
  /\ Dispatches(FirstCall(e))
  /\ runs' = runs + 1
  /\ IF phase = "closed"
     THEN /\ phase' = "refused"
          /\ UNCHANGED <<ready, batch, stopping, check_handle, remaining,
                         waiting>>
     ELSE /\ phase' = "running"
          /\ ready' = ScheduleCheck(ready) \o <<NewHandle("step")>>
          /\ check_handle' = "set"
          /\ batch' = 0
          /\ stopping' = FALSE
          /\ remaining' = Work
          /\ waiting' = FALSE

(* Mutant of BeginIteration: the iteration counts one handle too many. *)
BeginIterationOverrun ==
  /\ phase = "running"
  /\ batch = 0
  /\ ~stopping
  /\ ready # <<>>
  /\ batch' = Len(ready) + 1
  /\ UNCHANGED <<phase, ready, stopping, check_handle, remaining, waiting,
                 runs>>

(* _run_once begins an iteration: with handles ready the select does not  *)
(* block, and the iteration will run the Len(ready) handles queued now.    *)
BeginIteration ==
  /\ phase = "running"
  /\ batch = 0
  /\ ~stopping
  /\ ready # <<>>
  /\ batch' = Len(ready)
  /\ UNCHANGED <<phase, ready, stopping, check_handle, remaining, waiting,
                 runs>>

(* The select at the start of an iteration (blocking when nothing is      *)
(* ready, polling otherwise) returns the I/O the main task awaited; its    *)
(* next step is queued before the iteration counts its handles.           *)
IOComplete ==
  /\ phase = "running"
  /\ batch = 0
  /\ waiting
  /\ waiting' = FALSE
  /\ ready' = Append(ready, NewHandle("step"))
  /\ UNCHANGED <<phase, batch, stopping, check_handle, remaining, runs>>

(* A cancelled handle is popped and skipped. *)
SkipCancelled ==
  /\ phase = "running"
  /\ batch > 0
  /\ ~Head(ready).live
  /\ ready' = Tail(ready)
  /\ batch' = batch - 1
  /\ UNCHANGED <<phase, stopping, check_handle, remaining, waiting, runs>>

(* Mutant of RunCheck: the next check is put before the queued work. *)
RunCheckAtFront ==
  /\ phase = "running"
  /\ batch > 0
  /\ Head(ready).kind = "check" /\ Head(ready).live
  /\ ready' = IF Binding = "native"
              THEN <<[kind |-> "check", live |-> TRUE, cur |-> TRUE]>>
                     \o CancelCheckForgetting(Tail(ready))
              ELSE Tail(ready)
  /\ batch' = batch - 1
  /\ UNCHANGED <<phase, stopping, check_handle, remaining, waiting, runs>>

(* _check_and_reschedule: _morpheus.checkpoint(), then _schedule_check for *)
(* the next tick.  When the binding lacks checkpoint the call raises       *)
(* AttributeError, which the handle's _run logs, and nothing is            *)
(* rescheduled.                                                            *)
RunCheck ==
  /\ phase = "running"
  /\ batch > 0
  /\ Head(ready).kind = "check" /\ Head(ready).live
  /\ ready' = IF Binding = "native" THEN ScheduleCheck(Tail(ready))
              ELSE Tail(ready)
  /\ batch' = batch - 1
  /\ UNCHANGED <<phase, stopping, check_handle, remaining, waiting, runs>>

(* A step of the main task: it awaits asyncio.sleep(0) (queued again),     *)
(* awaits I/O, or returns, and the future's done callback is queued.       *)
RunStep ==
  /\ phase = "running"
  /\ batch > 0
  /\ Head(ready).kind = "step" /\ Head(ready).live
  /\ batch' = batch - 1
  /\ remaining' = remaining - 1
  /\ \/ /\ remaining > 1
        /\ ready' = Append(Tail(ready), NewHandle("step"))
        /\ UNCHANGED waiting
     \/ /\ remaining > 1
        /\ ready' = Tail(ready)
        /\ waiting' = TRUE
     \/ /\ remaining = 1
        /\ ready' = Append(Tail(ready), NewHandle("stop"))
        /\ UNCHANGED waiting
  /\ UNCHANGED <<phase, stopping, check_handle, runs>>

(* The done callback of run_until_complete (or the program's own           *)
(* loop.stop() under run_forever) sets _stopping.                          *)
RunStop ==
  /\ phase = "running"
  /\ batch > 0
  /\ Head(ready).kind = "stop" /\ Head(ready).live
  /\ ready' = Tail(ready)
  /\ batch' = batch - 1
  /\ stopping' = TRUE
  /\ UNCHANGED <<phase, check_handle, remaining, waiting, runs>>

(* After the iteration that set _stopping, run_forever returns; the        *)
(* wrapper's finally calls _cancel_check.                                  *)
ReturnFromRun ==
  /\ phase = "running"
  /\ batch = 0
  /\ stopping
  /\ phase' = "stopped"
  /\ ready' = CancelCheck(ready)
  /\ check_handle' = "none"
  /\ UNCHANGED <<batch, stopping, remaining, waiting, runs>>

(* close(): the inner loop's close clears its ready queue. *)
Close ==
  /\ phase \in {"idle", "stopped"}
  /\ Dispatches("close")
  /\ phase' = "closed"
  /\ ready' = <<>>
  /\ UNCHANGED <<batch, stopping, check_handle, remaining, waiting, runs>>

Next ==
  \/ \E e \in Entries : EnterUnimplemented(e) \/ Run(e)
  \/ BeginIteration
  \/ IOComplete
  \/ SkipCancelled
  \/ RunCheck
  \/ RunStep
  \/ RunStop
  \/ ReturnFromRun
  \/ Close

(* The inner loop keeps iterating while it has handles; the I/O the task   *)
(* awaits completes in the end, and from then on every select of an        *)
(* iteration start reports it, so delivery is strongly fair: it is enabled *)
(* between iterations only, but again and again.                           *)
Fairness ==
  /\ WF_vars(BeginIteration)
  /\ SF_vars(IOComplete)
  /\ WF_vars(SkipCancelled \/ RunCheck \/ RunStep \/ RunStop)
  /\ WF_vars(ReturnFromRun)

Spec == Init /\ [][Next]_vars /\ Fairness

-----------------------------------------------------------------------------
TypeOK ==
  /\ phase \in Phases
  /\ ready \in Seq(Handle)
  /\ batch \in 0..Len(ready)
  /\ stopping \in BOOLEAN
  /\ check_handle \in {"none", "set"}
  /\ remaining \in 0..Work
  /\ waiting \in BOOLEAN
  /\ runs \in 0..MaxRuns

(* The wrapper keeps exactly one checkpoint chain while its loop runs and  *)
(* none once run_until_complete or run_forever has returned: the finally   *)
(* cancels the handle the chain re-armed last, so a later run of the same  *)
(* loop does not start a second chain beside a stale one.                  *)
OneCheckChain ==
  Cardinality(LiveChecks) = IF phase = "running" THEN 1 ELSE 0

(* Every run of the loop returns: the self-rearming checkpoint callback,   *)
(* queued behind the task's handles each tick, never starves the main      *)
(* task or the done callback that stops the loop.                          *)
RunReturns == (phase = "running") ~> (phase = "stopped")

(* The loop seen from its program (LoopRun): a checkpoint callback is      *)
(* armed when some live checkpoint handle is in the inner loop's ready     *)
(* queue.                                                                  *)
Abstract == INSTANCE LoopRun WITH armed <- LiveChecks # {}

(* The policy's docstring: with MorpheusEventLoopPolicy installed,         *)
(* asyncio.run(main()) runs main; so does run_until_complete on the loop   *)
(* it creates.  Entering the loop never fails with NotImplementedError.    *)
EntryRuns == phase # "failed"

=============================================================================
