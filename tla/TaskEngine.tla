----------------------------- MODULE TaskEngine -----------------------------
(***************************************************************************)
(* Dispatcher and Scheduler together, as the server runs them.  The        *)
(* scheduler thread posts due events to the dispatcher; the tasks that run *)
(* there add and stop events; Game::setGameState(GAME_STATE_SHUTDOWN)      *)
(* stops both and Game::shutdown ends both, in that order.                 *)
(***************************************************************************)
EXTENDS Dispatcher, Scheduler

\* The scheduler thread, as a producer of tasks.
CONSTANT SchedThread

\* Events are the tasks created by createSchedulerTask; their cycle is their
\* expiration.  The dispatcher's thread is no producer: its own tasks Spawn.
ASSUME TaskEngineAssumption ==
  /\ Events \subseteq Tasks \ (ReleaseTasks \cup ExitTasks)
  /\ Events \subseteq Expiring
  /\ SchedThread \in Producers \ Callers
  /\ DispatchThread \notin Producers

engineVars == <<vars, schedulerVars>>

EngineInit == Init /\ SchedulerInit

\* exit(3) ends every thread.
Running == Alive /\ schedulerPc # "undefined"

-----------------------------------------------------------------------------
(* Other threads *)

Post(t) ==
  /\ Running
  /\ t \notin Events
  /\ \E p \in Producers \ {SchedThread} : AddTask(p, t)
  /\ UNCHANGED <<expires, schedulerVars>>

DispatcherNotify ==
  /\ Running
  /\ \E p \in Producers : Notify(p)
  /\ UNCHANGED schedulerVars

NetAddEvent(e, delay) ==
  /\ Running
  /\ \E c \in Callers \ {DispatchThread} : AddEvent(c, e, delay)
  /\ UNCHANGED vars

SchedulerNotify ==
  /\ Running
  /\ \E c \in Callers : NotifyScheduler(c) \/ Return(c)
  /\ UNCHANGED vars

ClockTick == Running /\ Tick /\ UNCHANGED vars

-----------------------------------------------------------------------------
(* The scheduler thread.  It owes the dispatcher a signal before it goes on. *)

\* Mutant: the expiration stays set.
KeepExpiration(e) == expires
UnsetExpiration(e) == expires \ {e}

\* A due event goes to the dispatcher's queue without its expiration, as it is
\* by nature past it.
HandOver ==
  /\ Running
  /\ Hand
  /\ AddTask(SchedThread, held)
  /\ expires' = UnsetExpiration(held)

SchedulerStep ==
  /\ Running
  /\ SchedThread \notin owes
  /\ LoopStep
  /\ UNCHANGED vars

EitherWakesByItself ==
  /\ Running
  /\ \/ SpuriousWakeup /\ UNCHANGED schedulerVars
     \/ WakeByItself /\ UNCHANGED vars

-----------------------------------------------------------------------------
(* The dispatcher thread.  A task in the middle of addEvent goes no further. *)

\* A task of the game runs, the one that closes the server included.
InTask == \/ pc = "run" /\ current \notin ExitTasks \cup ShutdownTasks
          \/ pc = "closing"
          \/ pc = "flushRun" /\ flushed \notin ExitTasks

RunAddEvent(e, delay) ==
  /\ Running
  /\ InTask
  /\ AddEvent(DispatchThread, e, delay)
  /\ UNCHANGED vars

RunStopEvent(e) ==
  /\ Running
  /\ InTask
  /\ StopEvent(e)
  /\ UNCHANGED vars

\* The steps that touch nothing of the scheduler's.
DispatcherStep ==
  /\ Running
  /\ ~DispatcherBusy
  /\ \/ TakeOrWait \/ AfterWait \/ Begin \/ BeginClosing \/ EndTask
     \/ \E t \in Tasks \ Events :
          Spawn(t) \/ PostExit(t) \/ SendAllReleases(t)
     \/ FlushTake \/ LockAgain \/ FlushNext \/ Exit
  /\ UNCHANGED schedulerVars

\* delete task: of an event, or of another task.
Delete(t) == IF t \in Events THEN Consume(t) ELSE UNCHANGED schedulerVars

EndOfTask ==
  /\ Running
  /\ ~DispatcherBusy
  /\ \/ (EndFrame \/ Expire) /\ Delete(current)
     \/ FlushRun /\ Delete(flushed)

\* setGameState stops the dispatcher once it has stopped the scheduler ...
StopOrder == schedulerState # "RUNNING"

CloseScheduler ==
  /\ Running
  /\ pc = "stopping"
  /\ StopScheduler
  /\ UNCHANGED vars

CloseDispatcher ==
  /\ Running
  /\ StopOrder
  /\ Stop
  /\ UNCHANGED schedulerVars

\* ... and Game::shutdown shuts down the scheduler, then the dispatcher.
ShutdownScheduler ==
  /\ Running
  /\ pc = "run" /\ current \in ExitTasks
  /\ Shutdown
  /\ UNCHANGED vars

ShutdownDispatcher ==
  /\ Running
  /\ schedulerState = "TERMINATED"
  /\ BeginExit
  /\ UNCHANGED schedulerVars

-----------------------------------------------------------------------------

DispatcherProgress ==
  DispatcherStep \/ EndOfTask \/ CloseScheduler \/ CloseDispatcher
    \/ ShutdownScheduler \/ ShutdownDispatcher

EngineNext ==
  \/ \E t \in Tasks : Post(t)
  \/ \E e \in Events, delay \in Delays :
       NetAddEvent(e, delay) \/ RunAddEvent(e, delay)
  \/ \E e \in Events : RunStopEvent(e)
  \/ DispatcherNotify \/ SchedulerNotify \/ ClockTick \/ EitherWakesByItself
  \/ HandOver \/ SchedulerStep \/ DispatcherProgress

\* Both threads are scheduled, threads reach their notify_one and leave
\* addEvent, and time goes on.
EngineFairness ==
  /\ WF_engineVars(DispatcherProgress)
  /\ WF_engineVars(HandOver) /\ WF_engineVars(SchedulerStep)
  /\ WF_engineVars(ClockTick)
  /\ WF_engineVars(DispatcherNotify) /\ WF_engineVars(SchedulerNotify)

EngineSpec == EngineInit /\ [][EngineNext]_engineVars
EngineFairSpec == EngineSpec /\ EngineFairness

-----------------------------------------------------------------------------
(* Properties *)

\* The state of each event as the game sees it: first what the scheduler knows
\* of it, and once it has handed it over what the dispatcher does.
HandedTimer(e) ==
  CASE fate[e] \in {"queued", "taken"} -> "due"
    [] fate[e] = "done"                -> "fired"
    [] OTHER                           -> "lost"

TimerOf(e) ==
  IF e \in stopped THEN "cancelled"
  ELSE CASE eventFate[e] = "new"                -> "idle"
         [] eventFate[e] = "listed"             -> "armed"
         [] eventFate[e] = "taken"              -> "due"
         [] eventFate[e] \in {"handed", "gone"} -> HandedTimer(e)
         [] OTHER                               -> "lost"

Timers == INSTANCE TimerService WITH
            timer <- [e \in Events |-> TimerOf(e)],
            open  <- schedulerState = "RUNNING"

\* The two threads implement the timer service: an event the game added fires
\* once unless stopEvent answered true for it, one so stopped never fires, and
\* before the shutdown begins none is refused, expires in the dispatcher's
\* queue or is deleted by mistake.
ImplementsTimerService == Timers!Spec

\* An armed timer is eventually fired, cancelled or lost in the shutdown.  The
\* exceptions are those of the code: the scheduler popping an empty list, the
\* dispatcher waiting for its own lock, and a process that is gone.
EveryTimerDecided ==
  \A e \in Events :
    TimerOf(e) = "armed" ~> \/ TimerOf(e) \in {"cancelled", "fired", "lost"}
                            \/ pc \in {"blocked", "exited"}
                            \/ schedulerPc = "undefined"
=============================================================================
