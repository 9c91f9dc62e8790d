---------------------------- MODULE MC_Benchmark ----------------------------
(***************************************************************************)
(* Instances of Benchmark for TLC: two workers, a run of a few probe       *)
(* periods, chunks of 1 or 2 ms.                                           *)
(***************************************************************************)
EXTENDS Benchmark

(* A chunk of work takes 1 or 2 ms. *)
MCChunks == {1, 2}

(* Chunks of exactly 1 ms, where kernel hints give the nondeterminism. *)
MCUnitChunks == {1}

=============================================================================
