---------------------------- MODULE MCScheduler ----------------------------
(***************************************************************************)
(* Scheduler with the slices tasks_init assigns (1, 1 and 8 ticks).        *)
(***************************************************************************)
EXTENDS Scheduler

MCSlice == [t \in Task |-> CASE t = 1 -> 1 [] t = 2 -> 1 [] t = 3 -> 8]
=============================================================================
