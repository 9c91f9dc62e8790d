---------------------------- MODULE MC_ScbLayout ----------------------------
(***************************************************************************)
(* The platforms ScbLayout is checked on: x86-64 and 64-bit ARM (a 64-bit  *)
(* integer aligned to 8), i386 (aligned to 4) and m68k (every integer      *)
(* aligned to 2).                                                          *)
(***************************************************************************)
EXTENDS ScbLayout

MCPlatforms ==
  { [u32 |-> 4, u64 |-> 8], [u32 |-> 4, u64 |-> 4], [u32 |-> 2, u64 |-> 2] }

=============================================================================
