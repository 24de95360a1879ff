----------------------------- MODULE MCScheduler -----------------------------
(***************************************************************************)
(* Scheduler for TLC.  Jobs and ticks are interchangeable: nothing orders  *)
(* them, and TLC may treat states that only permute the ticks as one.      *)
(***************************************************************************)
EXTENDS Scheduler, TLC

Ticks == Permutations(Tick)
==============================================================================
