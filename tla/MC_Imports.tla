----------------------------- MODULE MC_Imports -----------------------------
(* The import system for the repository's programs and installations. *)
EXTENDS Imports

MCAllPrograms == ProgramNames

(* The extension built, with the Python package installed or not. *)
MCNativeInstalls == {[package |-> b, native |-> TRUE] : b \in BOOLEAN}

(* The package installed from source without building the extension. *)
MCPackageOnly == {[package |-> TRUE, native |-> FALSE]}

(* An extension that defines the operations of spec 6.2 and the constants *)
(* of 6.3 and nothing else: no yield_now_async, no is_defensive_mode.      *)
MCSpecNativeDefs ==
  {"init_worker", "checkpoint", "yield_requested", "acknowledge_yield",
   "enter_critical_section", "exit_critical_section", "critical",
   "is_in_critical_section", "pressure_level", "budget_remaining_ns",
   "worker_id", "set_priority", "get_stats", "HINT_BUDGET", "HINT_PRESSURE",
   "HINT_IMBALANCE", "HINT_DEADLINE", "MAX_WORKERS", "DEFAULT_SLICE_NS",
   "GRACE_PERIOD_NS"}

=============================================================================
