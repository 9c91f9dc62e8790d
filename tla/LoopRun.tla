------------------------------- MODULE LoopRun -------------------------------
(***************************************************************************)
(* What a loop made by MorpheusEventLoopPolicy promises its program, with  *)
(* the inner loop and its ready queue hidden: a run arms the Morpheus      *)
(* checkpoint callback, the callback stays armed for as long as the run    *)
(* lasts, and returning from the run disarms it.  A closed loop never runs *)
(* again; a run that cannot start leaves nothing armed.                    *)
(***************************************************************************)
EXTENDS Naturals

CONSTANT MaxRuns      \* bound on the runs of the same loop

VARIABLES
  phase,   \* "idle", "running", "stopped", "closed", "refused" or "failed"
  armed,   \* a checkpoint callback of this loop is pending
  runs     \* runs of this loop so far

avars == <<phase, armed, runs>>

Init ==
  /\ phase = "idle"
  /\ armed = FALSE
  /\ runs = 0

(* A run begins and arms the checkpoint callback. *)
Start ==
  /\ phase \in {"idle", "stopped"}
  /\ runs < MaxRuns
  /\ phase' = "running"
  /\ armed' = TRUE
  /\ runs' = runs + 1

(* A run cannot begin: nothing is armed. *)
Fail ==
  /\ phase \in {"idle", "stopped"}
  /\ runs < MaxRuns
  /\ phase' = "failed"
  /\ runs' = runs + 1
  /\ UNCHANGED armed

(* A closed loop refuses to run. *)
Refuse ==
  /\ phase = "closed"
  /\ runs < MaxRuns
  /\ phase' = "refused"
  /\ runs' = runs + 1
  /\ UNCHANGED armed

(* The run returns and the callback is disarmed. *)
Return ==
  /\ phase = "running"
  /\ phase' = "stopped"
  /\ armed' = FALSE
  /\ UNCHANGED runs

Close ==
  /\ phase \in {"idle", "stopped"}
  /\ phase' = "closed"
  /\ UNCHANGED <<armed, runs>>

Next == Start \/ Fail \/ Refuse \/ Return \/ Close

SafeSpec == Init /\ [][Next]_avars

(* Every run returns. *)
Spec == SafeSpec /\ WF_avars(Return)

=============================================================================
