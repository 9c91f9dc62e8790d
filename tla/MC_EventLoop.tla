---------------------------- MODULE MC_EventLoop ----------------------------
(* The loop wrapper run up to three times, so that a later run starts      *)
(* while the previous run's cancelled checkpoint handle is still in the    *)
(* ready queue, with a main coroutine of six steps: enough for it to sleep *)
(* and to await I/O more than once before it returns.                      *)
EXTENDS EventLoop

MCEntriesDirect == {"run_until_complete", "run_forever"}
MCEntriesDocumented == {"asyncio_run", "run_until_complete"}
=============================================================================
