----------------------------- MODULE Dispatcher -----------------------------
(***************************************************************************)
(* The Dispatcher of src/src/tasks.{h,cpp}: one thread that runs, one at a *)
(* time, the tasks every other thread hands to it.  All game logic of the  *)
(* server runs there, so the order in which tasks are taken, the wakeup of *)
(* an idle dispatcher and what the two-phase stop does to queued tasks are *)
(* what the rest of the server relies on.                                  *)
(*                                                                         *)
(* A critical section of m_taskLock is one step, with one exception:       *)
(* Dispatcher::shutdown keeps the lock while flush() runs what is queued.  *)
(* The notify_one that follows a critical section is a step of its own.    *)
(***************************************************************************)
EXTENDS Naturals, Sequences

CONSTANTS
  Tasks,          \* every Task object created by a behaviour
  Producers,      \* the threads other than the dispatcher that call addTask
  ReleaseTasks,   \* tasks of OutputMessagePool::releaseMessage, queued in front
  ShutdownTasks,  \* tasks that run Game::setGameState(GAME_STATE_SHUTDOWN)
  ExitTasks,      \* tasks that run Game::shutdown
  SignalTasks,    \* exit tasks that the SIGTERM handler posts
  Expiring,       \* tasks created with an expiration
  None            \* no task

ASSUME TasksAssumption ==
  /\ ReleaseTasks \subseteq Tasks
  /\ ShutdownTasks \subseteq Tasks
  /\ ExitTasks \subseteq Tasks
  /\ SignalTasks \subseteq ExitTasks
  /\ Expiring \subseteq Tasks
  /\ ReleaseTasks \cap ShutdownTasks = {}
  /\ ReleaseTasks \cap ExitTasks = {}
  /\ ShutdownTasks \cap ExitTasks = {}
  /\ None \notin Tasks

VARIABLES
  taskList,     \* m_taskList
  threadState,  \* m_threadState
  pc,           \* where the dispatcher thread is
  current,      \* the task dispatcherThread has taken
  flushed,      \* the task flush() has taken
  expires,      \* tasks whose m_expiration is set
  owes,         \* threads that left addTask's critical section with signal set
  fate,         \* what became of every task
  ticket,       \* in which order the tasks were accepted (0: not accepted)
  accepted,     \* how many tasks were accepted
  gameState     \* "SHUTDOWN" once Game::setGameState has begun the shutdown

vars == <<taskList, threadState, pc, current, flushed, expires, owes, fate,
          ticket, accepted, gameState>>

Fates == {"new", "queued", "taken", "done", "expired", "refused"}
FlushPcs == {"flush", "flushRun", "flushSend", "blocked"}
Pcs == {"loop", "wait", "woken", "taken", "run", "closing", "stopping",
        "sendAll", "exited"} \cup FlushPcs

\* Tasks of the game proper: they reach the list through push_back.
Ordinary == Tasks \ ReleaseTasks

\* Only flush() keeps m_taskLock over more than one step.
TaskLockFree == pc \notin FlushPcs

Alive == pc # "exited"

Init ==
  /\ taskList = <<>>
  /\ threadState = "RUNNING"
  /\ pc = "loop"
  /\ current = None
  /\ flushed = None
  /\ expires = Expiring
  /\ owes = {}
  /\ fate = [t \in Tasks |-> "new"]
  /\ ticket = [t \in Tasks |-> 0]
  /\ accepted = 0
  /\ gameState = "NORMAL"

-----------------------------------------------------------------------------
(* addTask *)

\* Mutants: push_front and push_back exchanged; the exit task in front as well;
\* a null task pushed.
PlaceAtWrongEnd(t) == IF t \in ReleaseTasks THEN Append(taskList, t)
                                            ELSE <<t>> \o taskList
PlaceExitInFront(t) == IF t \in ReleaseTasks \cup ExitTasks
                       THEN <<t>> \o taskList ELSE Append(taskList, t)
PlaceNull(t) == Append(taskList, None)

\* Release tasks are the only ones queued in front.
Place(t) == IF t \in ReleaseTasks THEN <<t>> \o taskList ELSE Append(taskList, t)

\* Mutant: tasks are refused as soon as the shutdown begins.
AcceptingUntilShutdown == threadState = "RUNNING" /\ gameState # "SHUTDOWN"
Accepting == threadState = "RUNNING"

\* The critical section: a running dispatcher queues the task, any other
\* state lets it go.
Enqueue(t) ==
  /\ fate[t] = "new"
  /\ IF Accepting
     THEN /\ taskList' = Place(t)
          /\ fate' = [fate EXCEPT ![t] = "queued"]
          /\ accepted' = accepted + 1
          /\ ticket' = [ticket EXCEPT ![t] = accepted + 1]
     ELSE /\ fate' = [fate EXCEPT ![t] = "refused"]
          /\ UNCHANGED <<taskList, accepted, ticket>>

\* Mutants: only push_back computes the signal; the list is looked at when the
\* task is already in it.
SignalsBackOnly(t) == Accepting /\ taskList = <<>> /\ t \notin ReleaseTasks
SignalsLate(t) == Accepting /\ Place(t) = <<>>

\* addTask signals iff it found the list empty.
Signals(t) == Accepting /\ taskList = <<>>

\* Another thread calls addTask; the scheduler's unsets the task's expiration
\* before it does.  Game::shutdown is posted by setGameState, on the dispatcher,
\* or by the SIGTERM handler.
AddTask(p, t) ==
  /\ Alive /\ TaskLockFree
  /\ t \notin ExitTasks \ SignalTasks
  /\ p \notin owes
  /\ Enqueue(t)
  /\ owes' = IF Signals(t) THEN owes \cup {p} ELSE owes
  /\ expires' \in {expires, expires \ {t}}
  /\ UNCHANGED <<threadState, pc, current, flushed, gameState>>

\* m_taskSignal.notify_one, outside the lock: only the dispatcher ever waits.
Notify(p) ==
  /\ Alive
  /\ p \in owes
  /\ owes' = owes \ {p}
  /\ pc' = IF pc = "wait" THEN "woken" ELSE pc
  /\ UNCHANGED <<taskList, threadState, current, flushed, expires, fate,
                 ticket, accepted, gameState>>

-----------------------------------------------------------------------------
(* dispatcherThread *)

PopFront ==
  /\ current' = Head(taskList)
  /\ taskList' = Tail(taskList)
  /\ fate' = [fate EXCEPT ![Head(taskList)] = "taken"]
  /\ pc' = "taken"

\* The head of the loop: wait when the list is empty, else take the front.
TakeOrWait ==
  /\ pc = "loop"
  /\ threadState # "TERMINATED"
  /\ IF taskList = <<>>
     THEN pc' = "wait" /\ UNCHANGED <<taskList, current, fate>>
     ELSE PopFront
  /\ UNCHANGED <<threadState, flushed, expires, owes, ticket, accepted,
                 gameState>>

\* A condition variable may wake without a signal.
SpuriousWakeup ==
  /\ pc = "wait"
  /\ pc' = "woken"
  /\ UNCHANGED <<taskList, threadState, current, flushed, expires, owes, fate,
                 ticket, accepted, gameState>>

\* Back from the wait with the lock: the list is looked at again.
AfterWait ==
  /\ pc = "woken"
  /\ IF taskList # <<>> /\ threadState # "TERMINATED"
     THEN PopFront
     ELSE pc' = "loop" /\ UNCHANGED <<taskList, current, fate>>
  /\ UNCHANGED <<threadState, flushed, expires, owes, ticket, accepted,
                 gameState>>

\* A task past its expiration is deleted without being run.
Expire ==
  /\ pc = "taken"
  /\ current \in expires
  /\ fate' = [fate EXCEPT ![current] = "expired"]
  /\ current' = None
  /\ pc' = "loop"
  /\ UNCHANGED <<taskList, threadState, flushed, expires, owes, ticket,
                 accepted, gameState>>

Begin ==
  /\ pc = "taken"
  /\ pc' = "run"
  /\ UNCHANGED <<taskList, threadState, current, flushed, expires, owes, fate,
                 ticket, accepted, gameState>>

\* A running task posts another one; nobody waits, so the signal is void.
\* Message releases add nothing, the exit task is at BeginExit.
Spawn(t) ==
  /\ t \notin ExitTasks
  /\ \/ pc = "run" /\ current \in Ordinary \ (ShutdownTasks \cup ExitTasks)
     \/ pc = "closing"
  /\ Enqueue(t)
  /\ UNCHANGED <<threadState, pc, current, flushed, expires, owes, gameState>>

\* setGameState(GAME_STATE_SHUTDOWN): a second call finds the state set.
BeginClosing ==
  /\ pc = "run" /\ current \in ShutdownTasks
  /\ gameState # "SHUTDOWN"
  /\ gameState' = "SHUTDOWN"
  /\ pc' = "closing"
  /\ UNCHANGED <<taskList, threadState, current, flushed, expires, owes, fate,
                 ticket, accepted>>

\* ... once players are kicked and saved, it posts Game::shutdown ...
PostExit(t) ==
  /\ pc = "closing"
  /\ t \in ExitTasks \ SignalTasks
  /\ Enqueue(t)
  /\ pc' = "stopping"
  /\ UNCHANGED <<threadState, current, flushed, expires, owes, gameState>>

\* ... and stops the dispatcher: from here on addTask takes nothing more.
Stop ==
  /\ pc = "stopping"
  /\ threadState' = "CLOSING"
  /\ fate' = [fate EXCEPT ![current] = "done"]
  /\ pc' = "sendAll"
  /\ UNCHANGED <<taskList, current, flushed, expires, owes, ticket, accepted,
                 gameState>>

EndTask ==
  /\ pc = "run" /\ current \notin ExitTasks
  /\ current \in ShutdownTasks => gameState = "SHUTDOWN"
  /\ fate' = [fate EXCEPT ![current] = "done"]
  /\ pc' = "sendAll"
  /\ UNCHANGED <<taskList, threadState, current, flushed, expires, owes,
                 ticket, accepted, gameState>>

\* OutputMessagePool::sendAll after a task may drop the last reference to a
\* message, whose deleter queues its release in front.
SendAllReleases(t) ==
  /\ pc = "sendAll"
  /\ t \in ReleaseTasks
  /\ Enqueue(t)
  /\ UNCHANGED <<threadState, pc, current, flushed, expires, owes, gameState>>

EndFrame ==
  /\ pc = "sendAll"
  /\ current' = None
  /\ pc' = "loop"
  /\ UNCHANGED <<taskList, threadState, flushed, expires, owes, fate, ticket,
                 accepted, gameState>>

-----------------------------------------------------------------------------
(* shutdown and flush, called by Game::shutdown on the dispatcher thread *)

\* shutdown: take the lock, end the thread's loop, flush.
BeginExit ==
  /\ pc = "run" /\ current \in ExitTasks
  /\ threadState' = "TERMINATED"
  /\ pc' = "flush"
  /\ UNCHANGED <<taskList, current, flushed, expires, owes, fate, ticket,
                 accepted, gameState>>

\* Mutant: flush() returns at once.
FlushNothing == TRUE
FlushDone == taskList = <<>>

\* flush takes the front task and runs it, expired or not.
FlushTake ==
  /\ pc = "flush" /\ ~FlushDone
  /\ flushed' = Head(taskList)
  /\ taskList' = Tail(taskList)
  /\ fate' = [fate EXCEPT ![Head(taskList)] = "taken"]
  /\ pc' = "flushRun"
  /\ UNCHANGED <<threadState, current, expires, owes, ticket, accepted,
                 gameState>>

\* What runs under flush() may call addTask, or shutdown a second time; a
\* message release does neither.
LocksAgain ==
  \/ pc = "flushRun" /\ flushed \notin ReleaseTasks
  \/ pc = "flushSend"

\* m_taskLock is not recursive and this thread holds it: it waits for itself.
LockAgain ==
  /\ LocksAgain
  /\ pc' = "blocked"
  /\ UNCHANGED <<taskList, threadState, current, flushed, expires, owes, fate,
                 ticket, accepted, gameState>>

\* A flushed task that locks nothing: it returns, and sendAll follows.
FlushRun ==
  /\ pc = "flushRun"
  /\ flushed \notin ExitTasks
  /\ flushed \in ShutdownTasks => gameState = "SHUTDOWN"
  /\ fate' = [fate EXCEPT ![flushed] = "done"]
  /\ pc' = "flushSend"
  /\ UNCHANGED <<taskList, threadState, current, flushed, expires, owes,
                 ticket, accepted, gameState>>

FlushNext ==
  /\ pc = "flushSend"
  /\ flushed' = None
  /\ pc' = "flush"
  /\ UNCHANGED <<taskList, threadState, current, expires, owes, fate, ticket,
                 accepted, gameState>>

\* The list is empty: unlock, clean up, exit(3).
Exit ==
  /\ pc = "flush" /\ FlushDone
  /\ fate' = [fate EXCEPT ![current] = "done"]
  /\ pc' = "exited"
  /\ UNCHANGED <<taskList, threadState, current, flushed, expires, owes,
                 ticket, accepted, gameState>>

-----------------------------------------------------------------------------

DispatcherThread ==
  \/ TakeOrWait \/ AfterWait \/ Expire \/ Begin
  \/ BeginClosing \/ Stop \/ EndTask \/ EndFrame
  \/ \E t \in Tasks : Spawn(t) \/ PostExit(t) \/ SendAllReleases(t)
  \/ BeginExit \/ FlushTake \/ LockAgain \/ FlushRun \/ FlushNext \/ Exit

Next ==
  \/ \E p \in Producers, t \in Tasks : AddTask(p, t)
  \/ \E p \in Producers : Notify(p)
  \/ SpuriousWakeup
  \/ DispatcherThread

\* The operating system schedules the dispatcher thread and lets a thread that
\* has left the critical section go on to its notify_one.  Nothing obliges a
\* thread to post a task, nor the condition variable to wake by itself.
Fairness ==
  /\ WF_vars(DispatcherThread)
  /\ \A p \in Producers : WF_vars(Notify(p))

Spec == Init /\ [][Next]_vars
FairSpec == Spec /\ Fairness

-----------------------------------------------------------------------------
(* Properties *)

\* The type of every variable.
TypeOK ==
  /\ taskList \in Seq(Tasks)
  /\ threadState \in {"RUNNING", "CLOSING", "TERMINATED"}
  /\ pc \in Pcs
  /\ current \in Tasks \cup {None}
  /\ flushed \in Tasks \cup {None}
  /\ expires \subseteq Tasks
  /\ owes \subseteq Producers
  /\ fate \in [Tasks -> Fates]
  /\ ticket \in [Tasks -> Nat]
  /\ accepted \in Nat
  /\ gameState \in {"NORMAL", "SHUTDOWN"}

\* addTask signals only when it found the list empty, and outside the lock:
\* still, a dispatcher that waits beside a non-empty list has its wakeup
\* coming from a thread on its way to notify_one.
NoLostWakeup == pc = "wait" /\ taskList # <<>> => owes # {}

\* Whatever release tasks jump in front, the tasks of the game are taken in
\* the order in which addTask accepted them: the list is sorted, and what was
\* taken came before all that is still queued.
OrdinaryInOrder ==
  /\ \A i, j \in DOMAIN taskList :
       i < j /\ taskList[i] \in Ordinary /\ taskList[j] \in Ordinary
         => ticket[taskList[i]] < ticket[taskList[j]]
  /\ \A i \in DOMAIN taskList, t \in Ordinary :
       taskList[i] \in Ordinary /\ fate[t] \in {"taken", "done", "expired"}
         => ticket[t] < ticket[taskList[i]]

\* By the time Game::shutdown takes the lock for good, every task accepted
\* before it has been through the normal loop: what flush() runs, without the
\* expiration check and with the lock held, is only what came later.  So the
\* dispatcher can wait for its own lock only on behalf of a latecomer.
FlushedCameLater ==
  pc \in FlushPcs =>
    \A t \in Tasks : fate[t] # "new" /\ 0 < ticket[t] /\ ticket[t] < ticket[current]
                       => fate[t] \in {"done", "expired"}

\* The process never exits with an accepted task it neither ran nor dropped as
\* expired.
ExitLeavesNothing ==
  pc = "exited" => \A t \in Tasks : ticket[t] > 0 => fate[t] \in {"done", "expired"}

\* Every accepted task is eventually run or dropped as expired, unless the
\* dispatcher came to wait for itself.
EveryTaskTaken ==
  \A t \in Tasks :
    fate[t] = "queued" ~> fate[t] \in {"done", "expired"} \/ pc = "blocked"

\* A shutdown that has begun ends the process, or blocks in flush().
ShutdownEnds == gameState = "SHUTDOWN" ~> pc \in {"exited", "blocked"}
=============================================================================
