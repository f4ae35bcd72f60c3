---------------------------- MODULE TimerService ----------------------------
(***************************************************************************)
(* What the Scheduler and the Dispatcher together promise to the game: an  *)
(* armed timer either fires once or is cancelled, a cancelled one never    *)
(* fires, and none is lost before the service begins to close.  When it    *)
(* fires is not promised: an idle scheduler fires early.                   *)
(***************************************************************************)
CONSTANT Events

VARIABLES timer, open

vars == <<timer, open>>

States == {"idle", "armed", "due", "cancelled", "fired", "lost"}

Init == timer = [e \in Events |-> "idle"] /\ open = TRUE

Move(e, from, to) ==
  timer[e] = from /\ timer' = [timer EXCEPT ![e] = to] /\ UNCHANGED open

\* addEvent
Arm(e) == open /\ Move(e, "idle", "armed")
Reject(e) == ~open /\ Move(e, "idle", "lost")

\* stopEvent returning true: only while the timer is armed.
Cancel(e) == Move(e, "armed", "cancelled")

\* The scheduler takes the event: too late to cancel it.
Elapse(e) == Move(e, "armed", "due")

\* The dispatcher has run it.
Fire(e) == Move(e, "due", "fired")

\* Closing drops timers, all that are armed at once or one that is due.
Close ==
  /\ open' = FALSE
  /\ \E L \in SUBSET {e \in Events : timer[e] \in {"armed", "due"}} :
       timer' = [e \in Events |-> IF e \in L THEN "lost" ELSE timer[e]]

Next ==
  \/ \E e \in Events : Arm(e) \/ Reject(e) \/ Cancel(e) \/ Elapse(e) \/ Fire(e)
  \/ Close

Spec == Init /\ [][Next]_vars
=============================================================================
