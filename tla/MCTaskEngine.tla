---------------------------- MODULE MCTaskEngine ----------------------------
(***************************************************************************)
(* Instance of TaskEngine for TLC: two scheduler events and the tasks of   *)
(* the two ways to shut the server down.                                   *)
(***************************************************************************)
EXTENDS TaskEngine

CONSTANTS e1, e2, close, exit, term, net, sched, disp
=============================================================================
