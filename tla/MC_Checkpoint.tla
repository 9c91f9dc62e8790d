--------------------------- MODULE MC_Checkpoint ---------------------------
(***************************************************************************)
(* Instances of Checkpoint for TLC.  Tasks are model values given in each  *)
(* .cfg; the bounds are chosen so that two tasks can both hold scopes,     *)
(* the kernel can publish hints faster than checkpoints read them (a gap   *)
(* of 2 and more), and DEFENSIVE can be entered and left.                  *)
(***************************************************************************)
EXTENDS Checkpoint, TLC

(* Tasks are interchangeable: safety runs use this symmetry. *)
TaskSymmetry == Permutations(Tasks)

=============================================================================
