------------------------------- MODULE Imports -------------------------------
(***************************************************************************)
(* How Python's import system resolves the modules of the package:         *)
(* morpheus (python/morpheus/__init__.py), morpheus.asyncio, the legacy    *)
(* python/morpheus_asyncio.py, morpheus_common and the native extension    *)
(* _morpheus, for the programs of the repository that import them (the    *)
(* benchmark, the tests, the examples and `python -m morpheus.run`), with  *)
(* the package and the extension installed or not.                         *)
(*                                                                         *)
(* Each module's top level is a short program of import statements, try/   *)
(* except ImportError blocks and definitions.  The import system           *)
(* (importlib._bootstrap)                                                  *)
(*  - returns a module already in sys.modules, even one still executing;   *)
(*  - imports a submodule's parent package first;                          *)
(*  - raises ImportError for a module it cannot find, and for a name a     *)
(*    from-import does not find in the (possibly partial) module;          *)
(*  - puts a module in sys.modules before executing it and removes it      *)
(*    again if its execution raises.                                       *)
(* An exception unwinds the executing modules one frame at a time until a  *)
(* try statement catches it.                                               *)
(***************************************************************************)
EXTENDS Naturals, Sequences

CONSTANTS
  Installs,  \* the installations: records [package |-> b, native |-> b]
  Programs   \* the programs of the repository considered, by name

ProgramNames ==
  {"benchmark", "tests", "django", "celery", "flask", "asyncio_example",
   "runner", "common"}

ASSUME ImportsAssumption ==
  /\ Installs \subseteq [package : BOOLEAN, native : BOOLEAN] /\ Installs # {}
  /\ Programs \subseteq ProgramNames /\ Programs # {}

(* A top-level statement: op, the module it imports, the names it imports *)
(* or defines, the statement that follows on success and on ImportError    *)
(* (0: the exception propagates).                                          *)
Stmt(op, mod, names, ok, err) ==
  [op |-> op, mod |-> mod, names |-> names, ok |-> ok, err |-> err]

(* The names __init__.py imports from .asyncio. *)
AsyncioNames ==
  {"morpheus_checkpoint", "morpheus_critical", "force_yield",
   "is_kernel_pressured", "is_defensive_mode", "AdaptiveCheckpointer",
   "MorpheusEventLoopPolicy", "install_morpheus_loop"}

(* Mutant of NativeNames: acknowledge_yield left out of the re-export.   *)
NativeNamesWithoutAck ==
  {"init_worker", "checkpoint", "yield_requested", "yield_now_async",
   "pressure_level", "budget_remaining_ns",
   "set_priority", "is_in_critical_section", "worker_id", "critical",
   "enter_critical_section", "exit_critical_section", "get_stats",
   "HINT_BUDGET", "HINT_PRESSURE", "HINT_IMBALANCE", "HINT_DEADLINE",
   "MAX_WORKERS", "DEFAULT_SLICE_NS", "GRACE_PERIOD_NS"}

(* The names __init__.py re-exports from _morpheus, all in one statement. *)
NativeNames ==
  {"init_worker", "checkpoint", "yield_requested", "yield_now_async",
   "acknowledge_yield", "pressure_level", "budget_remaining_ns",
   "set_priority", "is_in_critical_section", "worker_id", "critical",
   "enter_critical_section", "exit_critical_section", "get_stats",
   "HINT_BUDGET", "HINT_PRESSURE", "HINT_IMBALANCE", "HINT_DEADLINE",
   "MAX_WORKERS", "DEFAULT_SLICE_NS", "GRACE_PERIOD_NS"}

(* Mutant of AllNames: __all__ lists is_in_critical_section_py, the name  *)
(* the binding tests call, instead of is_in_critical_section.              *)
AllNamesWithPy ==
  AsyncioNames \cup
       {"init_worker", "checkpoint", "yield_requested", "async_checkpoint",
       "acknowledge_yield", "pressure_level", "budget_remaining_ns",
       "set_priority", "is_in_critical_section_py", "worker_id", "critical",
       "enter_critical_section", "exit_critical_section", "get_stats"}

(* The package's __all__. *)
AllNames ==
  AsyncioNames \cup
       {"init_worker", "checkpoint", "yield_requested", "async_checkpoint",
       "acknowledge_yield", "pressure_level", "budget_remaining_ns",
       "set_priority", "is_in_critical_section", "worker_id", "critical",
       "enter_critical_section", "exit_critical_section", "get_stats"}

(* The methods of _MorpheusStub, the same in both helper modules. *)
StubNames ==
  {"checkpoint", "yield_requested", "acknowledge_yield",
   "enter_critical_section", "exit_critical_section",
   "is_in_critical_section", "pressure_level", "is_defensive_mode"}

(* The attributes the helpers of morpheus.asyncio and morpheus_asyncio     *)
(* call on their _morpheus.                                                *)
Needs ==
  {"checkpoint", "acknowledge_yield", "enter_critical_section",
   "exit_critical_section", "pressure_level", "is_defensive_mode"}

(* The names the shared-types module defines and morpheus_common imports. *)
SharedNames ==
  {"MAX_WORKERS", "DEFAULT_SLICE_NS", "GRACE_PERIOD_NS", "RINGBUF_SIZE",
   "MAP_NAMES", "SchedulerMode", "WorkerState", "EscalationPolicy",
   "YieldReason", "RuntimeMode", "HintReason", "MorpheusScb", "MorpheusHint",
   "GlobalPressure", "verify_offsets"}

(* What the native extension defines: what the package re-exports, and the *)
(* is_defensive_mode that morpheus.asyncio calls on it.                    *)
NativeDefs == NativeNames \cup {"is_defensive_mode"}

(* The names the examples import from morpheus to probe for it. *)
ProbeNames(p) ==
  CASE p = "flask" -> {"checkpoint", "critical", "is_defensive_mode"}
    [] p = "django" -> {"checkpoint", "is_defensive_mode", "pressure_level"}
    [] OTHER -> {"checkpoint", "critical", "is_defensive_mode", "pressure_level"}

(* Mutant of PackageInit: the re-export from _morpheus outside a try. *)
PackageInitNoTry ==
  << Stmt("from", "morpheus.asyncio", AsyncioNames, 2, 0),
     Stmt("from", "_morpheus", NativeNames, 4, 0),
     Stmt("pass", "", {}, 4, 0),
     Stmt("define", "", {"__version__", "__all__", "async_checkpoint"}, 5, 0),
     Stmt("end", "", {}, 0, 0) >>

(* python/morpheus/__init__.py *)
PackageInit ==
  << Stmt("from", "morpheus.asyncio", AsyncioNames, 2, 0),
     Stmt("from", "_morpheus", NativeNames, 4, 3),
     Stmt("pass", "", {}, 4, 0),
     Stmt("define", "", {"__version__", "__all__", "async_checkpoint"}, 5, 0),
     Stmt("end", "", {}, 0, 0) >>

(* Mutant of AsyncioBody: the module first takes the package's version    *)
(* with `from morpheus import __version__`.                                *)
AsyncioBodyVersion ==
  << Stmt("from", "morpheus", {"__version__"}, 2, 0),
     Stmt("import", "_morpheus", {}, 5, 3),
     Stmt("import", "morpheus", {}, 5, 4),
     Stmt("none", "", {}, 5, 0),
     Stmt("stub", "", {}, 6, 0),
     Stmt("define", "", AsyncioNames \cup {"_MorpheusEventLoop", "__all__"}, 7, 0),
     Stmt("end", "", {}, 0, 0) >>

(* python/morpheus/asyncio.py *)
AsyncioBody ==
  << Stmt("import", "_morpheus", {}, 4, 2),
     Stmt("import", "morpheus", {}, 4, 3),
     Stmt("none", "", {}, 4, 0),
     Stmt("stub", "", {}, 5, 0),
     Stmt("define", "", AsyncioNames \cup {"_MorpheusEventLoop", "__all__"}, 6, 0),
     Stmt("end", "", {}, 0, 0) >>

(* python/morpheus_asyncio.py *)
LegacyBody ==
  << Stmt("import", "morpheus", {}, 3, 2),
     Stmt("stub", "", {}, 3, 0),
     Stmt("define", "", AsyncioNames \cup {"_MorpheusEventLoop", "__all__"}, 4, 0),
     Stmt("end", "", {}, 0, 0) >>

(* morpheus_common/__init__.py *)
CommonBody ==
  << Stmt("from", "morpheus_common._morpheus_shared", SharedNames, 2, 0),
     Stmt("define", "", {"__all__"}, 3, 0),
     Stmt("end", "", {}, 0, 0) >>

(* morpheus_common/_morpheus_shared.py *)
SharedBody ==
  << Stmt("define", "", SharedNames, 2, 0), Stmt("end", "", {}, 0, 0) >>

(* The extension module: its init function defines its attributes. *)
NativeBody ==
  << Stmt("define", "", NativeDefs, 2, 0), Stmt("end", "", {}, 0, 0) >>

(* The programs of the repository that import the package, each run as    *)
(* __main__.  A "flag" statement sets MORPHEUS_AVAILABLE or HAS_MORPHEUS   *)
(* on the path where the probe import succeeded.                           *)
ProgramBody(p) ==
  CASE p = "benchmark" ->           \* bench/benchmark.py
         << Stmt("import", "morpheus", {}, 2, 3), Stmt("flag", "", {}, 4, 0),
            Stmt("pass", "", {}, 4, 0), Stmt("end", "", {}, 0, 0) >>
    [] p = "tests" ->               \* tests/test_bindings.py
         << Stmt("import", "morpheus", {}, 2, 3), Stmt("flag", "", {}, 4, 0),
            Stmt("pass", "", {}, 4, 0),
            Stmt("from", "morpheus_asyncio", {"morpheus_checkpoint"}, 6, 5),
            Stmt("pass", "", {}, 6, 0), Stmt("end", "", {}, 0, 0) >>
    [] p \in {"django", "celery", "flask"} ->   \* examples/*.py
         << Stmt("from", "morpheus", ProbeNames(p), 2, 3),
            Stmt("flag", "", {}, 4, 0),
            Stmt("define", "", ProbeNames(p), 4, 0), Stmt("end", "", {}, 0, 0) >>
    [] p = "asyncio_example" ->     \* examples/asyncio_example.py
         << Stmt("from", "morpheus_asyncio",
                 {"morpheus_checkpoint", "morpheus_critical",
                  "is_kernel_pressured", "AdaptiveCheckpointer"}, 2, 0),
            Stmt("end", "", {}, 0, 0) >>
    [] p = "runner" ->              \* python -m morpheus.run: run.py as
         << Stmt("from", "morpheus.asyncio", {"install_morpheus_loop"}, 2, 0),
            Stmt("define", "", {"main"}, 3, 0),   \* __main__, its package
            Stmt("end", "", {}, 0, 0) >>          \* imported first
    [] p = "common" ->              \* import morpheus_common
         << Stmt("import", "morpheus_common", {}, 2, 0),
            Stmt("end", "", {}, 0, 0) >>

Modules ==
  {"morpheus", "morpheus.asyncio", "morpheus_asyncio", "morpheus_common",
   "morpheus_common._morpheus_shared", "_morpheus", "__main__"}

(* The modules of the python/ tree, present when the package is installed. *)
PythonPackage == {"morpheus", "morpheus.asyncio", "morpheus_asyncio"}

Parent(m) ==
  CASE m = "morpheus.asyncio"                 -> "morpheus"
    [] m = "morpheus_common._morpheus_shared" -> "morpheus_common"
    [] OTHER                                  -> ""

(* The modules whose top level binds _morpheus. *)
Binders == {"morpheus.asyncio", "morpheus_asyncio"}

VARIABLES
  inst,      \* what is installed: [package |-> BOOLEAN, native |-> BOOLEAN]
  prog,      \* the program run as __main__
  status,    \* per module: "absent" from sys.modules, "partial" (executing) or "done"
  defined,   \* per module, the names its namespace holds
  binding,   \* per binder, what its _morpheus is bound to
  stack,     \* the frames executing module top levels: [mod, pc]
  raising,   \* an ImportError is propagating from the top frame
  outcome    \* "running", "ok" or "ImportError"

vars == <<inst, prog, status, defined, binding, stack, raising, outcome>>

-----------------------------------------------------------------------------
Body(m) ==
  CASE m = "morpheus"                         -> PackageInit
    [] m = "morpheus.asyncio"                 -> AsyncioBody
    [] m = "morpheus_asyncio"                 -> LegacyBody
    [] m = "morpheus_common"                  -> CommonBody
    [] m = "morpheus_common._morpheus_shared" -> SharedBody
    [] m = "_morpheus"                        -> NativeBody
    [] m = "__main__"                         -> ProgramBody(prog)

(* importlib finds the extension when it is built, the python/ modules    *)
(* when the package is installed, and morpheus_common from the source      *)
(* tree.                                                                   *)
Findable(m) ==
  CASE m = "_morpheus"       -> inst.native
    [] m \in PythonPackage   -> inst.package
    [] OTHER                 -> TRUE

Loaded(m) == status[m] \in {"partial", "done"}

(* The package of m, if m is a submodule, is in sys.modules. *)
ParentReady(m) == IF Parent(m) = "" THEN TRUE ELSE Loaded(Parent(m))

Top == stack[Len(stack)]
Cur == Body(Top.mod)[Top.pc]

(* The top frame moves to statement pc. *)
Goto(pc) == stack' = [stack EXCEPT ![Len(stack)].pc = pc]

(* What `import m as _morpheus` binds: the module object of m. *)
ModuleObject(m) == IF m = "_morpheus" THEN "native" ELSE "package"

Init ==
  /\ inst \in Installs
  /\ prog \in Programs
  /\ status = [m \in Modules |-> IF m = "__main__" THEN "partial" ELSE "absent"]
  /\ defined = [m \in Modules |-> {}]
  /\ binding = [m \in Binders |-> "unset"]
  /\ stack = << [mod |-> "__main__", pc |-> 1] >>
  /\ raising = FALSE
  /\ outcome = "running"

Running == stack # <<>> /\ ~raising

(* An import or from-import of a module already in sys.modules: the       *)
(* statement binds it, or, for a from-import, copies the names, raising    *)
(* ImportError if one is missing from the (possibly partial) module.       *)
ImportBound ==
  /\ Running
  /\ Cur.op \in {"import", "from"}
  /\ Loaded(Cur.mod)
  /\ IF Cur.op = "from" /\ ~(Cur.names \subseteq defined[Cur.mod])
       THEN /\ raising' = TRUE
            /\ UNCHANGED <<stack, defined, binding>>
       ELSE /\ Goto(Cur.ok)
            /\ defined' = IF Cur.op = "from"
                            THEN [defined EXCEPT ![Top.mod] = @ \cup Cur.names]
                            ELSE defined
            /\ binding' = IF Cur.op = "import" /\ Top.mod \in Binders
                            THEN [binding EXCEPT ![Top.mod] = ModuleObject(Cur.mod)]
                            ELSE binding
            /\ UNCHANGED raising
  /\ UNCHANGED <<inst, prog, status, outcome>>

(* A submodule whose package is not imported yet: the package first. *)
ImportParent ==
  /\ Running
  /\ Cur.op \in {"import", "from"}
  /\ ~Loaded(Cur.mod)
  /\ Parent(Cur.mod) # ""
  /\ ~Loaded(Parent(Cur.mod))
  /\ IF Findable(Parent(Cur.mod))
       THEN /\ status' = [status EXCEPT ![Parent(Cur.mod)] = "partial"]
            /\ stack' = Append(stack, [mod |-> Parent(Cur.mod), pc |-> 1])
            /\ UNCHANGED raising
       ELSE /\ raising' = TRUE
            /\ UNCHANGED <<status, stack>>
  /\ UNCHANGED <<inst, prog, defined, binding, outcome>>

(* A module that is not installed: ModuleNotFoundError. *)
ImportMissing ==
  /\ Running
  /\ Cur.op \in {"import", "from"}
  /\ ~Loaded(Cur.mod)
  /\ ParentReady(Cur.mod)
  /\ ~Findable(Cur.mod)
  /\ raising' = TRUE
  /\ UNCHANGED <<inst, prog, status, defined, binding, stack, outcome>>

(* A module found and not yet loaded: it enters sys.modules and its top    *)
(* level starts executing.                                                 *)
ImportLoad ==
  /\ Running
  /\ Cur.op \in {"import", "from"}
  /\ ~Loaded(Cur.mod)
  /\ ParentReady(Cur.mod)
  /\ Findable(Cur.mod)
  /\ status' = [status EXCEPT ![Cur.mod] = "partial"]
  /\ stack' = Append(stack, [mod |-> Cur.mod, pc |-> 1])
  /\ UNCHANGED <<inst, prog, defined, binding, raising, outcome>>

(* The one-line statements of the except blocks and the flags: `pass`,    *)
(* `_morpheus = None`, the stub installation (in morpheus.asyncio `if      *)
(* _morpheus is None: _morpheus = _MorpheusStub()`, in morpheus_asyncio    *)
(* unconditional) and `HAS_MORPHEUS = True`, which changes nothing the     *)
(* import system sees.                                                     *)
Assign ==
  /\ Running
  /\ Cur.op \in {"pass", "none", "stub", "flag"}
  /\ binding' =
       CASE Cur.op = "none" -> [binding EXCEPT ![Top.mod] = "none"]
         [] Cur.op = "stub" /\ (Top.mod = "morpheus_asyncio" \/ binding[Top.mod] = "none")
                            -> [binding EXCEPT ![Top.mod] = "stub"]
         [] OTHER           -> binding
  /\ Goto(Cur.ok)
  /\ UNCHANGED <<inst, prog, status, defined, raising, outcome>>

(* def, class and assignment statements. *)
Define ==
  /\ Running
  /\ Cur.op = "define"
  /\ defined' = [defined EXCEPT ![Top.mod] = @ \cup Cur.names]
  /\ Goto(Cur.ok)
  /\ UNCHANGED <<inst, prog, status, binding, raising, outcome>>

(* The top level has run to its end: the module is initialised and the    *)
(* importing statement resumes; when the program's own top level ends the *)
(* import has succeeded.                                                   *)
EndModule ==
  /\ Running
  /\ Cur.op = "end"
  /\ status' = [status EXCEPT ![Top.mod] = "done"]
  /\ stack' = SubSeq(stack, 1, Len(stack) - 1)
  /\ outcome' = IF Len(stack) = 1 THEN "ok" ELSE outcome
  /\ UNCHANGED <<inst, prog, defined, binding, raising>>

(* The statement that raised sits in a try with an except ImportError. *)
Catch ==
  /\ stack # <<>>
  /\ raising
  /\ Cur.err # 0
  /\ Goto(Cur.err)
  /\ raising' = FALSE
  /\ UNCHANGED <<inst, prog, status, defined, binding, outcome>>

(* Uncaught: the module's execution fails, it leaves sys.modules and the  *)
(* exception continues in the module that imported it (from __main__, the *)
(* program dies with the traceback).                                       *)
Unwind ==
  /\ stack # <<>>
  /\ raising
  /\ Cur.err = 0
  /\ status' = [status EXCEPT ![Top.mod] = "absent"]
  /\ defined' = [defined EXCEPT ![Top.mod] = {}]
  /\ stack' = SubSeq(stack, 1, Len(stack) - 1)
  /\ outcome' = IF Len(stack) = 1 THEN "ImportError" ELSE outcome
  /\ UNCHANGED <<inst, prog, binding, raising>>

Next ==
  \/ ImportBound \/ ImportParent \/ ImportMissing \/ ImportLoad
  \/ Assign \/ Define \/ EndModule \/ Catch \/ Unwind

Spec == Init /\ [][Next]_vars

-----------------------------------------------------------------------------
TypeOK ==
  /\ inst \in Installs
  /\ prog \in Programs
  /\ status \in [Modules -> {"absent", "partial", "done"}]
  /\ defined \in [Modules -> SUBSET STRING]
  /\ binding \in [Binders -> {"unset", "native", "package", "stub", "none"}]
  /\ stack \in Seq([mod : Modules, pc : Nat \ {0}])
  /\ raising \in BOOLEAN
  /\ outcome \in {"running", "ok", "ImportError"}

(* The attributes of what a binder's _morpheus is bound to, once the      *)
(* program has finished importing.                                         *)
Attrs(b) ==
  CASE b = "native"  -> NativeDefs
    [] b = "package" -> defined["morpheus"]
    [] b = "stub"    -> StubNames
    [] OTHER         -> {}

(* Where the package is installed, no program of the repository dies of   *)
(* an ImportError, with or without the native extension: the optional      *)
(* imports of __init__.py and of the two asyncio helper modules are all    *)
(* guarded, and a partially initialised package is never asked for a name *)
(* it does not have yet.                                                   *)
ImportSucceeds == inst.package => outcome # "ImportError"

(* Once the program's imports are done, every helper module               *)
(* that bound _morpheus can call on it every attribute its helpers call:  *)
(* checkpoint, acknowledge_yield, enter_critical_section,                  *)
(* exit_critical_section, pressure_level and is_defensive_mode.  Without   *)
(* the extension this is what the stub class is for ("soft degradation"). *)
CallsResolve ==
  outcome = "ok" =>
    \A m \in Binders : status[m] = "done" => Needs \subseteq Attrs(binding[m])

(* Once the package is imported, every name of its __all__ is an attribute *)
(* of it, so `from morpheus import *` succeeds.                            *)
AllExported ==
  outcome = "ok" /\ status["morpheus"] = "done" => AllNames \subseteq defined["morpheus"]

=============================================================================
