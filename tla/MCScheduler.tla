---------------------------- MODULE MCScheduler -----------------------------
(***************************************************************************)
(* Instances of Scheduler for TLC: three events with a short and a long    *)
(* delay, created by the dispatcher and by one other thread.               *)
(***************************************************************************)
EXTENDS Scheduler, TLC

CONSTANTS e1, e2, e3, disp, net

Symm == Permutations(Events)
=============================================================================
