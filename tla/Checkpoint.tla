----------------------------- MODULE Checkpoint -----------------------------
(***************************************************************************)
(* One Morpheus worker thread and its asyncio event loop.                  *)
(*                                                                         *)
(*  - the thread's Shared Control Block slot: preempt_seq (written by the  *)
(*    kernel), last_ack_seq and is_in_critical_section (written by the     *)
(*    runtime), with the layout of MorpheusScb in _morpheus_shared.py;     *)
(*  - the native checkpoint engine (checkpoint, acknowledge_yield, enter/  *)
(*    exit_critical_section) and its defensive-mode tracker, whose code is *)
(*    not in the repository and is modelled from the spec (sections 4.3 to *)
(*    4.5);                                                                *)
(*  - the kernel, which publishes hints by advancing preempt_seq and puts  *)
(*    a record in a lossy ring buffer;                                     *)
(*  - the asyncio tasks of the thread, which run one at a time and call    *)
(*    the helpers of python/morpheus_asyncio.py: morpheus_checkpoint,      *)
(*    force_yield and the morpheus_critical scope, await other things,     *)
(*    raise, are cancelled at an await, and finish.                        *)
(*                                                                         *)
(* A task step is what the task runs between two awaits: asyncio gives the *)
(* loop to one task at a time, so task steps never interleave with each    *)
(* other, but the kernel writes the SCB between any two native calls.      *)
(***************************************************************************)
EXTENDS Naturals, FiniteSets

CONSTANTS
  Tasks,             \* the asyncio tasks created on the worker's loop
  MaxSeq,            \* bound on the hints the kernel publishes
  MaxDepth,          \* bound on a task's nesting of morpheus_critical
  DefensiveExit,     \* contiguous checkpoints that end DEFENSIVE (spec: 64)
  SuspendInCritical  \* whether user code awaits inside morpheus_critical

ASSUME TasksAssumption == IsFiniteSet(Tasks) /\ Tasks # {}
ASSUME MaxSeqAssumption == MaxSeq \in Nat
ASSUME MaxDepthAssumption == MaxDepth \in Nat
ASSUME DefensiveExitAssumption == DefensiveExit \in Nat \ {0}
ASSUME SuspendInCriticalAssumption == SuspendInCritical \in BOOLEAN

(* RuntimeMode of _morpheus_shared.py. *)
RuntimeMode == {"DETERMINISTIC", "PRESSURED", "DEFENSIVE"}

(* Where a task is: ready (in the loop's ready queue, or awaiting), running *)
(* (holding the loop), acking (between checkpoint() and the rest of        *)
(* morpheus_checkpoint, still holding the loop), done.                     *)
TaskState == {"ready", "running", "acking", "done"}

VARIABLES
  preempt_seq,             \* SCB offset 0, kernel -> runtime
  last_ack_seq,            \* SCB offset 72, runtime -> kernel
  is_in_critical_section,  \* SCB offset 64, the thread's re-entrancy count
  hint_lost,               \* history: the kernel dropped a ring record
  mode,                    \* the runtime's RuntimeMode
  last_seen,               \* preempt_seq seen by the previous checkpoint
  streak,                  \* contiguous checkpoints seen while DEFENSIVE
  pc,                      \* per task, a TaskState
  depth                    \* per task, morpheus_critical scopes it has open

scb == <<preempt_seq, last_ack_seq, is_in_critical_section>>
tracker == <<mode, last_seen, streak>>
vars == <<preempt_seq, last_ack_seq, is_in_critical_section, hint_lost,
          mode, last_seen, streak, pc, depth>>

-----------------------------------------------------------------------------
(* The task that holds the loop, if any. *)
Holding == {t \in Tasks : pc[t] \in {"running", "acking"}}

AllDone == \A t \in Tasks : pc[t] = "done"

(* The scopes open on the tasks' stacks, one pair <<task, level>> each. *)
OpenScopes == {fr \in Tasks \X (1..MaxDepth) : fr[2] <= depth[fr[1]]}

(* k calls of exit_critical_section, each clamping the count at zero. *)
ExitCount(c, k) == IF c >= k THEN c - k ELSE 0

(* The defensive tracker's reaction to a checkpoint's read of preempt_seq: *)
(* a gap above 1 since the previous read counts as loss; DefensiveExit     *)
(* contiguous reads in a row leave DEFENSIVE; a first hint leaves          *)
(* DETERMINISTIC.                                                          *)
Gap == preempt_seq - last_seen

ObservedMode ==
  CASE Gap > 1 -> "DEFENSIVE"
    [] mode = "DEFENSIVE" /\ streak + 1 >= DefensiveExit -> "PRESSURED"
    [] mode = "DETERMINISTIC" /\ Gap = 1 -> "PRESSURED"
    [] OTHER -> mode

(* Mutant of ObservedStreak: a counter of contiguous reads kept in every  *)
(* mode.                                                                   *)
StreakInEveryMode ==
  IF Gap <= 1 THEN streak + 1 ELSE 0

ObservedStreak ==
  IF Gap <= 1 /\ mode = "DEFENSIVE" /\ streak + 1 < DefensiveExit
  THEN streak + 1 ELSE 0

(* Mutant of YieldRequired: compare with the previous read, not the ack.   *)
YieldRequiredSinceLastRead(m) ==
  /\ m = "DEFENSIVE" \/ preempt_seq # last_seen
  /\ is_in_critical_section = 0

(* What the native checkpoint() returns once the tracker is in mode m.     *)
YieldRequired(m) ==
  /\ m = "DEFENSIVE" \/ preempt_seq # last_ack_seq
  /\ is_in_critical_section = 0

-----------------------------------------------------------------------------
Init ==
  /\ preempt_seq = 0
  /\ last_ack_seq = preempt_seq
  /\ is_in_critical_section = 0
  /\ hint_lost = FALSE
  /\ mode = "DETERMINISTIC"
  /\ last_seen = preempt_seq
  /\ streak = 0
  /\ pc = [t \in Tasks |-> "ready"]
  /\ depth = [t \in Tasks |-> 0]

(* The kernel publishes a hint: preempt_seq advances, and the hint record  *)
(* is either put in the ring buffer or dropped because the ring is full.   *)
PublishHint(dropped) ==
  /\ preempt_seq < MaxSeq
  /\ preempt_seq' = preempt_seq + 1
  /\ hint_lost' = (hint_lost \/ dropped)
  /\ UNCHANGED <<last_ack_seq, is_in_critical_section, tracker, pc, depth>>

(* The loop is free and runs the next ready task. *)
Resume(t) ==
  /\ Holding = {}
  /\ pc[t] = "ready"
  /\ pc' = [pc EXCEPT ![t] = "running"]
  /\ UNCHANGED <<scb, hint_lost, tracker, depth>>

(* morpheus_checkpoint, first part: the native checkpoint() reads          *)
(* preempt_seq, updates the tracker and decides; if it returns False the   *)
(* helper returns False and the task goes on.                              *)
MorpheusCheckpoint(t) ==
  /\ pc[t] = "running"
  /\ mode' = ObservedMode
  /\ streak' = ObservedStreak
  /\ last_seen' = preempt_seq
  /\ pc' = IF YieldRequired(ObservedMode)
           THEN [pc EXCEPT ![t] = "acking"] ELSE pc
  /\ UNCHANGED <<scb, hint_lost, depth>>

(* morpheus_checkpoint, second part: acknowledge_yield() copies the        *)
(* current preempt_seq into last_ack_seq, then await asyncio.sleep(0)      *)
(* puts the task at the tail of the ready queue.                           *)
AcknowledgeAndSleep(t) ==
  /\ pc[t] = "acking"
  /\ last_ack_seq' = preempt_seq
  /\ pc' = [pc EXCEPT ![t] = "ready"]
  /\ UNCHANGED <<preempt_seq, is_in_critical_section, hint_lost, tracker,
                 depth>>

(* force_yield: acknowledge_yield() then await asyncio.sleep(0).           *)
ForceYield(t) ==
  /\ pc[t] = "running"
  /\ depth[t] = 0 \/ SuspendInCritical
  /\ last_ack_seq' = preempt_seq
  /\ pc' = [pc EXCEPT ![t] = "ready"]
  /\ UNCHANGED <<preempt_seq, is_in_critical_section, hint_lost, tracker,
                 depth>>

(* async with morpheus_critical(): enter_critical_section() runs before    *)
(* the try whose finally exits.                                            *)
EnterCritical(t) ==
  /\ pc[t] = "running"
  /\ depth[t] < MaxDepth
  /\ is_in_critical_section' = is_in_critical_section + 1
  /\ depth' = [depth EXCEPT ![t] = @ + 1]
  /\ UNCHANGED <<preempt_seq, last_ack_seq, hint_lost, tracker, pc>>

(* The body of the scope completes: the finally calls                     *)
(* exit_critical_section().                                                *)
ExitCritical(t) ==
  /\ pc[t] = "running"
  /\ depth[t] > 0
  /\ is_in_critical_section' = ExitCount(is_in_critical_section, 1)
  /\ depth' = [depth EXCEPT ![t] = @ - 1]
  /\ UNCHANGED <<preempt_seq, last_ack_seq, hint_lost, tracker, pc>>

(* Any other await of the task (asyncio.sleep, I/O, an FFI future).        *)
AwaitOther(t) ==
  /\ pc[t] = "running"
  /\ depth[t] = 0 \/ SuspendInCritical
  /\ pc' = [pc EXCEPT ![t] = "ready"]
  /\ UNCHANGED <<scb, hint_lost, tracker, depth>>

(* The task's coroutine returns; its scopes are lexical, so none is open.  *)
Finish(t) ==
  /\ pc[t] = "running"
  /\ depth[t] = 0
  /\ pc' = [pc EXCEPT ![t] = "done"]
  /\ UNCHANGED <<scb, hint_lost, tracker, depth>>

(* Mutant of Unwind: enter/exit paired without try/finally, so the exit   *)
(* is skipped when the body raises.                                        *)
UnwindSkippingFinally(t, k, after) ==
  /\ depth' = [depth EXCEPT ![t] = @ - k]
  /\ pc' = [pc EXCEPT ![t] = after]
  /\ UNCHANGED <<preempt_seq, last_ack_seq, is_in_critical_section,
                 hint_lost, tracker>>

(* An exception leaves the k innermost scopes, each finally calling        *)
(* exit_critical_section(); the task then goes on as after.                *)
Unwind(t, k, after) ==
  /\ is_in_critical_section' = ExitCount(is_in_critical_section, k)
  /\ depth' = [depth EXCEPT ![t] = @ - k]
  /\ pc' = [pc EXCEPT ![t] = after]
  /\ UNCHANGED <<preempt_seq, last_ack_seq, hint_lost, tracker>>

(* Either a handler k scopes out catches it, or it ends the task.          *)
Propagate(t) ==
  \/ \E k \in 1..depth[t] : Unwind(t, k, "running")
  \/ Unwind(t, depth[t], "done")

(* The task's own code raises.                                             *)
Raise(t) ==
  /\ pc[t] = "running"
  /\ Propagate(t)

(* The await the task is suspended at raises when the task is resumed:     *)
(* task.cancel() throws CancelledError there, a failed I/O its error.      *)
ResumeRaising(t) ==
  /\ Holding = {}
  /\ pc[t] = "ready"
  /\ Propagate(t)

Next ==
  \/ \E dropped \in BOOLEAN : PublishHint(dropped)
  \/ \E t \in Tasks :
       \/ Resume(t)
       \/ MorpheusCheckpoint(t)
       \/ AcknowledgeAndSleep(t)
       \/ ForceYield(t)
       \/ EnterCritical(t)
       \/ ExitCritical(t)
       \/ AwaitOther(t)
       \/ Finish(t)
       \/ Raise(t)
       \/ ResumeRaising(t)

(* asyncio's ready queue is FIFO, so a ready task is run once the loop is  *)
(* free often enough; the ack follows checkpoint() with no await between;  *)
(* the body of every scope, at every nesting level, is finite; and a       *)
(* worker calls morpheus_checkpoint between units of work, outside its     *)
(* critical sections.                                                      *)
Fairness ==
  \A t \in Tasks :
    /\ SF_vars(Resume(t))
    /\ WF_vars(AcknowledgeAndSleep(t))
    /\ \A d \in 1..MaxDepth : SF_vars(ExitCritical(t) /\ depth[t] = d)
    /\ SF_vars(MorpheusCheckpoint(t) /\ is_in_critical_section = 0)

Spec == Init /\ [][Next]_vars /\ Fairness

-----------------------------------------------------------------------------
TypeOK ==
  /\ preempt_seq \in 0..MaxSeq
  /\ last_ack_seq \in 0..MaxSeq
  /\ is_in_critical_section \in Nat
  /\ hint_lost \in BOOLEAN
  /\ mode \in RuntimeMode
  /\ last_seen \in 0..MaxSeq
  /\ streak \in 0..DefensiveExit
  /\ pc \in [Tasks -> TaskState]
  /\ depth \in [Tasks -> 0..MaxDepth]

(* The SCB's is_in_critical_section counts exactly the morpheus_critical   *)
(* scopes open on the stacks of the thread's tasks, however their entries, *)
(* exits, awaits, exceptions and cancellations interleave: no finally is   *)
(* skipped and no exit is clamped away.                                    *)
CritAccounting == is_in_critical_section = Cardinality(OpenScopes)

(* Every hint the kernel publishes is eventually acknowledged in           *)
(* last_ack_seq by a yielding morpheus_checkpoint or force_yield, unless   *)
(* every task of the loop has finished.                                    *)
HintAcknowledged ==
  \A s \in 1..MaxSeq :
    (preempt_seq >= s) ~> (last_ack_seq >= s \/ AllDone)

(* The runtime is in DEFENSIVE mode only after a hint was really lost:     *)
(* the glossary and is_defensive_mode's docstring say it is entered on     *)
(* hint loss (ring buffer overflow or sequence gaps).                      *)
NoSpuriousDefensive == mode = "DEFENSIVE" => hint_lost

=============================================================================
