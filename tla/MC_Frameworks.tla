---------------------------- MODULE MC_Frameworks ----------------------------
(* A Celery worker thread whose kernel publishes pressure 1 or 2 while it  *)
(* runs batch_process over 102 items: one item more than the interval at   *)
(* zero pressure allows between two checkpoints.                           *)
EXTENDS Frameworks

MCLevels == {1, 2}
=============================================================================
