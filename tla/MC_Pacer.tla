------------------------------ MODULE MC_Pacer ------------------------------
(* The pacer with min_interval 2 and max_interval 4, so that pressure 50   *)
(* gives the interval 3 and pressures 0 and 100 its two ends, over a loop  *)
(* of 10 iterations: long enough for two checks at every interval.         *)
EXTENDS Pacer

MCLevels == {0, 50, 100}
=============================================================================
