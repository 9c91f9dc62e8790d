------------------------------- MODULE Pacer --------------------------------
(***************************************************************************)
(* The pressure-adaptive pacer, AdaptiveCheckpointer, of                   *)
(* python/morpheus_asyncio.py (and its copy in python/morpheus/asyncio.py) *)
(* driven by the loop of adaptive_checkpoint_example:                      *)
(*                                                                         *)
(*     for i in range(Iterations):                                         *)
(*         if checker.should_check(i): await morpheus_checkpoint()         *)
(*                                                                         *)
(* run Loops times over one checker.  The kernel may change the pressure   *)
(* level it publishes between any two calls; the stub and an unbound       *)
(* thread report it absent, which should_check reads as 0.                 *)
(***************************************************************************)
EXTENDS Naturals

CONSTANTS
  MinInterval,     \* min_interval, the interval at pressure 100
  MaxInterval,     \* max_interval, the interval at pressure 0
  Iterations,      \* the bound of the worker's range()
  Loops,           \* how many loops are run with the same checker
  Levels,          \* the pressure levels the kernel publishes
  Absent           \* pressure_level() on a thread with no SCB: None

ASSUME MinIntervalAssumption == MinInterval \in Nat
ASSUME MaxIntervalAssumption ==
  MaxInterval \in Nat /\ MinInterval <= MaxInterval
ASSUME IterationsAssumption == Iterations \in Nat
ASSUME LoopsAssumption == Loops \in Nat \ {0}
ASSUME LevelsAssumption == Levels \subseteq 0..100 /\ Absent \notin Nat

VARIABLES
  pressure,     \* what _morpheus.pressure_level() returns now
  last_check,   \* the checker's _last_check
  i,            \* the loop variable of the running loop
  loop,         \* how many loops over the checker have started
  anchor,       \* history: iteration the current unchecked stretch began
  returned      \* history: what the last should_check call returned

vars == <<pressure, last_check, i, loop, anchor, returned>>

-----------------------------------------------------------------------------
(* `_morpheus.pressure_level() or 0`: absent (None) and 0 both read as 0. *)
PressureRead(p) == IF p = Absent THEN 0 ELSE p

(* The linear interpolation of should_check, with Python's floor division. *)
Interval(p) ==
  MaxInterval - ((MaxInterval - MinInterval) * PressureRead(p)) \div 100

(* Mutant of Due: a strict comparison. *)
DueStrict(p) == i - last_check > Interval(p)

(* The test of should_check: `iteration - self._last_check >= interval`. *)
Due(p) == i - last_check >= Interval(p)

-----------------------------------------------------------------------------
(* A fresh checker and the first loop, at iteration 0. *)
Init ==
  /\ pressure \in Levels \cup {Absent}
  /\ last_check = 0
  /\ i = 0
  /\ loop = 1
  /\ anchor = 0
  /\ returned = FALSE

(* The kernel publishes a new pressure level (or the view is absent). *)
SetPressure(p) ==
  /\ pressure' = p
  /\ UNCHANGED <<last_check, i, loop, anchor, returned>>

(* Mutant of ShouldCheck: the cursor is not moved on a True answer. *)
ShouldCheckNoCursor ==
  /\ i < Iterations
  /\ returned' = Due(pressure)
  /\ anchor' = IF Due(pressure) THEN i ELSE anchor
  /\ i' = i + 1
  /\ UNCHANGED <<pressure, last_check, loop>>

(* One iteration of the worker: should_check(i) reads the pressure, moves  *)
(* the cursor to i when the interval has elapsed, and the loop goes on to  *)
(* i + 1 (after morpheus_checkpoint when the answer was True).             *)
ShouldCheck ==
  /\ i < Iterations
  /\ returned' = Due(pressure)
  /\ last_check' = IF Due(pressure) THEN i ELSE last_check
  /\ anchor' = IF Due(pressure) THEN i ELSE anchor
  /\ i' = i + 1
  /\ UNCHANGED <<pressure, loop>>

(* Mutant of StartLoop: the loops are not bounded. *)
StartLoopUnbounded ==
  /\ i = Iterations
  /\ loop' = loop + 1
  /\ i' = 0
  /\ anchor' = 0
  /\ UNCHANGED <<pressure, last_check, returned>>

(* The worker runs another range() loop with the same checker. *)
StartLoop ==
  /\ i = Iterations
  /\ loop < Loops
  /\ loop' = loop + 1
  /\ i' = 0
  /\ anchor' = 0
  /\ UNCHANGED <<pressure, last_check, returned>>

Next ==
  \/ \E p \in Levels \cup {Absent} : SetPressure(p)
  \/ ShouldCheck
  \/ StartLoop

Spec == Init /\ [][Next]_vars

-----------------------------------------------------------------------------
TypeOK ==
  /\ pressure \in Levels \cup {Absent}
  /\ last_check \in 0..Iterations
  /\ i \in 0..Iterations
  /\ loop \in 1..Loops
  /\ anchor \in 0..Iterations
  /\ returned \in BOOLEAN

(* max_interval is, as the constructor's docstring says, the maximum       *)
(* number of iterations between checks: however the kernel's pressure      *)
(* moves between calls, no stretch of max_interval + 1 iterations of the   *)
(* first loop over a checker (the only use adaptive_checkpoint_example     *)
(* makes of one) passes without should_check answering True.  A later loop *)
(* over the same checker starts with a stale _last_check and may exceed it.*)
GapBounded == loop = 1 => i - anchor <= MaxInterval

(* min_interval is the minimum number of iterations between checks: a      *)
(* True answer never comes sooner than min_interval iterations after the   *)
(* previous one (or after the loop's start), whatever the pressure.        *)
ChecksSpaced ==
  [][returned' /\ i' = i + 1 => i - anchor >= MinInterval]_vars

=============================================================================
