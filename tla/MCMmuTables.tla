---------------------------- MODULE MCMmuTables ----------------------------
(***************************************************************************)
(* MmuTables with the linker script's areas, the peripherals' cut short.   *)
(***************************************************************************)
EXTENDS MmuTables
=============================================================================
