---------------------------- MODULE MCDispatcher ----------------------------
(***************************************************************************)
(* Instances of Dispatcher for TLC: two ordinary tasks (one of them with   *)
(* an expiration), a message release, one setGameState(SHUTDOWN) task and  *)
(* the exit tasks, posted by two threads.                                  *)
(***************************************************************************)
EXTENDS Dispatcher

CONSTANTS t1, t2, rel, close, exit, term, net, sched
=============================================================================
