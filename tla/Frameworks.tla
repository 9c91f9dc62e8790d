----------------------------- MODULE Frameworks -----------------------------
(***************************************************************************)
(* The framework examples: one worker thread of the Flask app              *)
(* (examples/flask_app.py), of the Celery worker                           *)
(* (examples/celery_worker.py) or of a Django site using the middleware    *)
(* (examples/django_middleware.py), serving one request or task at a time, *)
(* while the kernel publishes yield hints and pressure into the thread's   *)
(* SCB at any moment.                                                      *)
(*                                                                         *)
(* The examples call the native functions the package re-exports           *)
(* (checkpoint, critical, pressure_level), or their fallbacks when the     *)
(* import fails.  None of them calls init_worker: on a thread that was     *)
(* never registered the native functions return neutral values (spec 4.3,  *)
(* 7, T13), exactly as the fallbacks do.  Registered says whether the      *)
(* thread was registered by some other means; registration sets            *)
(* last_ack_seq to preempt_seq, and no example acknowledges a yield, so    *)
(* last_ack_seq keeps its initial value 0.  Iterations of the compute      *)
(* loops are counted in blocks of 1000, the stride of their checkpoints.   *)
(***************************************************************************)
EXTENDS Naturals

CONSTANTS
  Program,      \* "flask", "celery" or "django"
  Registered,   \* the serving thread is bound to an SCB slot
  Levels,       \* pressure values the kernel publishes, within 0..100
  MaxSeq,       \* bound on the hints the kernel publishes
  Blocks,       \* iterations of a compute request, in thousands
  Items,        \* length of a batch_process item list
  MaxRequests   \* bound on the requests the thread serves

Handlers ==
  CASE Program = "flask"  -> {"compute", "ffi"}
    [] Program = "celery" -> {"compute", "ffi", "batch"}
    [] Program = "django" -> {"view"}

VARIABLES
  preempt_seq,  \* the SCB's preempt_seq, advanced by the kernel
  pressure,     \* the SCB's kernel_pressure_level
  crit,         \* the SCB's is_in_critical_section
  req,          \* the handler being served, or "none"
  i,            \* the handler's loop index
  yields,       \* its yield counter (yields, kernel_yield_requests)
  last_cp,      \* batch_process: the index of the last checkpoint() call
  served        \* requests served so far

vars == <<preempt_seq, pressure, crit, req, i, yields, last_cp, served>>

-----------------------------------------------------------------------------
(* checkpoint(): a hint is outstanding and no critical section is open;    *)
(* False on an unregistered thread.                                        *)
Checkpoint == Registered /\ preempt_seq # 0 /\ crit = 0

(* pressure_level() or 0: absent on an unregistered thread, and absent is  *)
(* falsy.                                                                  *)
PressureOrZero == IF Registered THEN pressure ELSE 0

(* max(1, 100 - pressure) *)
BatchInterval(p) == IF 100 - p > 1 THEN 100 - p ELSE 1

(* The loop index at which each handler returns. *)
Done(h) ==
  CASE h = "compute" -> Blocks
    [] h = "batch"   -> Items
    [] h = "ffi"     -> 2
    [] h = "view"    -> 1

Init ==
  /\ preempt_seq = 0
  /\ pressure = 0
  /\ crit = 0
  /\ req = "none"
  /\ i = 0
  /\ yields = 0
  /\ last_cp = 0
  /\ served = 0

(* The kernel advances preempt_seq. *)
PublishHint ==
  /\ preempt_seq < MaxSeq
  /\ preempt_seq' = preempt_seq + 1
  /\ UNCHANGED <<pressure, crit, req, i, yields, last_cp, served>>

(* The kernel publishes a pressure level. *)
PublishPressure(p) ==
  /\ pressure' = p
  /\ UNCHANGED <<preempt_seq, crit, req, i, yields, last_cp, served>>

(* A request or task is dispatched to the thread: its counters start at 0 *)
(* (the Django middleware sets request.morpheus_yields = 0).              *)
Begin(h) ==
  /\ req = "none"
  /\ served < MaxRequests
  /\ req' = h
  /\ i' = 0
  /\ yields' = 0
  /\ last_cp' = 0
  /\ served' = served + 1
  /\ UNCHANGED <<preempt_seq, pressure, crit>>

(* compute / cpu_intensive_task: a block of 1000 iterations, whose first   *)
(* (i % 1000 == 0) calls checkpoint() and counts a True answer.            *)
ComputeBlock ==
  /\ req = "compute"
  /\ i < Blocks
  /\ yields' = IF Checkpoint THEN yields + 1 ELSE yields
  /\ i' = i + 1
  /\ UNCHANGED <<preempt_seq, pressure, crit, req, last_cp, served>>

(* batch_process: one item; the interval is recomputed from the pressure   *)
(* read for this item, and checkpoint() is called when idx is a multiple   *)
(* of it (its answer is ignored).                                          *)
BatchItem ==
  /\ req = "batch"
  /\ i < Items
  /\ last_cp' = IF i % BatchInterval(PressureOrZero) = 0 THEN i ELSE last_cp
  /\ i' = i + 1
  /\ UNCHANGED <<preempt_seq, pressure, crit, req, yields, served>>

(* ffi / ffi_task: "with critical():" is entered before the simulated FFI  *)
(* call and left after it; a no-op on an unregistered thread.              *)
FfiEnter ==
  /\ req = "ffi"
  /\ i = 0
  /\ crit' = IF Registered THEN crit + 1 ELSE crit
  /\ i' = 1
  /\ UNCHANGED <<preempt_seq, pressure, req, yields, last_cp, served>>

FfiExit ==
  /\ req = "ffi"
  /\ i = 1
  /\ crit' = IF Registered THEN crit - 1 ELSE crit
  /\ i' = 2
  /\ UNCHANGED <<preempt_seq, pressure, req, yields, last_cp, served>>

(* A Django view wrapped by morpheus_checkpoint_decorator returns, and the *)
(* wrapper calls checkpoint() once and counts a True answer on the request.*)
ViewReturn ==
  /\ req = "view"
  /\ i = 0
  /\ yields' = IF Checkpoint THEN yields + 1 ELSE yields
  /\ i' = 1
  /\ UNCHANGED <<preempt_seq, pressure, crit, req, last_cp, served>>

(* The handler returns its response or result. *)
Finish ==
  /\ req # "none"
  /\ i = Done(req)
  /\ req' = "none"
  /\ UNCHANGED <<preempt_seq, pressure, crit, i, yields, last_cp, served>>

Next ==
  \/ PublishHint
  \/ \E p \in Levels : PublishPressure(p)
  \/ \E h \in Handlers : Begin(h)
  \/ ComputeBlock
  \/ BatchItem
  \/ FfiEnter
  \/ FfiExit
  \/ ViewReturn
  \/ Finish

Spec == Init /\ [][Next]_vars

-----------------------------------------------------------------------------
(* The comment of batch_process: the checkpoint interval adapts to the     *)
(* pressure, "more frequent under pressure", so no list is processed with  *)
(* more than 100 items (the interval at zero pressure) between two         *)
(* checkpoint() calls.                                                     *)
BatchGapBounded == req = "batch" => i - last_cp <= 100

(* The examples report kernel_yield_requests: a handler counts no more     *)
(* yields than the kernel has requested.                                   *)
YieldsCountRequests == yields <= preempt_seq

=============================================================================
