----------------------------- MODULE Scheduler ------------------------------
(***************************************************************************)
(* The Scheduler of src/src/scheduler.{h,cpp}: threads hand it events with *)
(* a delay, its own thread waits for the earliest one and hands it to the  *)
(* Dispatcher.  stopEvent forgets the id of an event; the event itself     *)
(* stays in the list until it is due.                                      *)
(*                                                                         *)
(* A critical section of m_eventLock is one step; the notify_one after it, *)
(* the read of the task's id on addEvent's way out and the call of the     *)
(* Dispatcher are steps of their own.                                      *)
(***************************************************************************)
EXTENDS Naturals

CONSTANTS
  Events,          \* every SchedulerTask object created by a behaviour
  Callers,         \* the threads that call addEvent
  DispatchThread,  \* the one that also stops events and runs them
  Delays,          \* the delays createSchedulerTask is called with
  MinTicks,        \* SCHEDULER_MINTICKS
  MaxEventId,      \* where m_lastEvent wraps (0xFFFFFFFF)
  MaxTime,         \* bound on the clock
  SpuriousWakeups, \* whether a wait may end without a signal
  NoEvent          \* no event

ASSUME SchedulerAssumption ==
  /\ DispatchThread \in Callers
  /\ Delays \subseteq Nat \ {0}
  /\ MinTicks \in Nat \ {0}
  /\ MaxEventId \in Nat \ {0}
  /\ MaxTime \in Nat
  /\ SpuriousWakeups \in BOOLEAN
  /\ NoEvent \notin Events

VARIABLES
  eventList,    \* m_eventList, ordered by cycle
  eventIds,     \* m_eventIds: the ids of the events that were not stopped
  lastEvent,    \* m_lastEvent
  schedulerState, \* m_threadState
  schedulerPc,  \* where the scheduler thread is
  deadline,     \* what its timed_wait waits for
  held,         \* the event it has taken and not yet handed over
  now,          \* the clock
  cycle,        \* getCycle() of every event
  eventId,      \* getEventId() of every event
  eventFate,    \* what became of every event
  stopped,      \* events for which stopEvent returned true
  returning,    \* the event with which a thread is on its way out of addEvent
  known,        \* events whose id addEvent has returned
  signallers    \* threads on that way that have the signal to give

schedulerVars ==
  <<eventList, eventIds, lastEvent, schedulerState, schedulerPc, deadline, held,
    now, cycle, eventId, eventFate, stopped, returning, known, signallers>>

EventFates == {"new", "listed", "taken", "handed", "gone", "deleted",
               "dropped", "refused"}
SchedulerPcs == {"loop", "idle", "idleWoken", "timed", "timedOut", "hand",
                 "undefined", "ended"}

\* The memory of an event is freed by the dispatcher or by this thread.
Freed(e) == eventFate[e] \in {"gone", "deleted"}

\* The events that may be m_eventList.top(): equal cycles come in any order.
Tops == {e \in eventList : \A f \in eventList : cycle[e] <= cycle[f]}

DispatcherBusy == returning[DispatchThread] # NoEvent

SchedulerInit ==
  /\ eventList = {} /\ eventIds = {} /\ lastEvent = 0
  /\ schedulerState = "RUNNING" /\ schedulerPc = "loop"
  /\ deadline = 0 /\ held = NoEvent /\ now = 0
  /\ cycle = [e \in Events |-> 0]
  /\ eventId = [e \in Events |-> 0]
  /\ eventFate = [e \in Events |-> "new"]
  /\ stopped = {} /\ known = {} /\ signallers = {}
  /\ returning = [c \in Callers |-> NoEvent]

-----------------------------------------------------------------------------
(* addEvent and stopEvent *)

\* When an event created now is due; short delays are rounded up.
DueAt(delay) == now + (IF delay < MinTicks THEN MinTicks ELSE delay)

\* Mutant: the wrapping test is off by one.
NextEventIdPastMax == IF lastEvent > MaxEventId THEN 1 ELSE lastEvent + 1

\* m_lastEvent is incremented, and starts over at 1.
NextEventId == IF lastEvent >= MaxEventId THEN 1 ELSE lastEvent + 1

\* Mutants: the id is not erased; not looked up.
KeepId(id) == eventIds
AlwaysActive(e) == TRUE

InsertId(id) == eventIds \cup {id}
EraseId(id) == eventIds \ {id}
Active(e) == eventId[e] \in eventIds

\* Mutants: a signal only when the list was empty; only when it was not.
SignalsWhenEmpty(due) == eventList = {}
SignalsUnlessEmpty(due) == eventList # {} /\ \A f \in eventList : due < cycle[f]

\* The event goes to the top: with equal cycles the older one stays there.
SignalsEarlier(due) == \A f \in eventList : due < cycle[f]

\* createSchedulerTask and addEvent's critical section.  A scheduler that is
\* not running takes nothing, and the task keeps the id 0.
AddEvent(c, e, delay) ==
  /\ schedulerPc # "undefined"
  /\ returning[c] = NoEvent
  /\ eventFate[e] = "new"
  /\ DueAt(delay) <= MaxTime
  /\ cycle' = [cycle EXCEPT ![e] = DueAt(delay)]
  /\ returning' = [returning EXCEPT ![c] = e]
  /\ IF schedulerState = "RUNNING"
     THEN /\ lastEvent' = NextEventId
          /\ eventId' = [eventId EXCEPT ![e] = NextEventId]
          /\ eventIds' = InsertId(NextEventId)
          /\ eventList' = eventList \cup {e}
          /\ eventFate' = [eventFate EXCEPT ![e] = "listed"]
          /\ signallers' = IF SignalsEarlier(DueAt(delay))
                             THEN signallers \cup {c} ELSE signallers
     ELSE /\ eventFate' = [eventFate EXCEPT ![e] = "refused"]
          /\ UNCHANGED <<eventList, eventIds, lastEvent, eventId, signallers>>
  /\ UNCHANGED <<schedulerState, schedulerPc, deadline, held, now, stopped,
                 known>>

\* m_eventSignal.notify_one: only the scheduler thread ever waits.
NotifyScheduler(c) ==
  /\ c \in signallers
  /\ signallers' = signallers \ {c}
  /\ schedulerPc' = CASE schedulerPc = "idle"  -> "idleWoken"
                      [] schedulerPc = "timed" -> "loop"
                      [] OTHER                 -> schedulerPc
  /\ UNCHANGED <<eventList, eventIds, lastEvent, schedulerState, deadline,
                 held, now, cycle, eventId, eventFate, stopped, returning,
                 known>>

\* return task->getEventId(), read after the lock was given back.
Return(c) ==
  /\ returning[c] # NoEvent /\ c \notin signallers
  /\ returning' = [returning EXCEPT ![c] = NoEvent]
  /\ known' = IF Freed(returning[c]) \/ eventFate[returning[c]] = "refused"
              THEN known ELSE known \cup {returning[c]}
  /\ UNCHANGED <<eventList, eventIds, lastEvent, schedulerState, schedulerPc,
                 deadline, held, now, cycle, eventId, eventFate, stopped,
                 signallers>>

\* stopEvent, with the id of an event: true iff the id was still active.
StopEvent(e) ==
  /\ schedulerPc # "undefined" /\ ~DispatcherBusy
  /\ e \in known
  /\ Active(e)
  /\ eventIds' = EraseId(eventId[e])
  /\ stopped' = stopped \cup {e}
  /\ UNCHANGED <<eventList, lastEvent, schedulerState, schedulerPc, deadline,
                 held, now, cycle, eventId, eventFate, returning, known,
                 signallers>>

-----------------------------------------------------------------------------
(* schedulerThread *)

\* The head of the loop: wait for a signal, or for the earliest event.
Wait ==
  /\ schedulerPc = "loop" /\ schedulerState # "TERMINATED"
  /\ IF eventList = {}
     THEN schedulerPc' = "idle" /\ UNCHANGED deadline
     ELSE /\ schedulerPc' = "timed"
          /\ deadline' \in {cycle[e] : e \in Tops}
  /\ UNCHANGED <<eventList, eventIds, lastEvent, schedulerState, held, now,
                 cycle, eventId, eventFate, stopped, returning, known,
                 signallers>>

End ==
  /\ schedulerPc = "loop" /\ schedulerState = "TERMINATED"
  /\ schedulerPc' = "ended"
  /\ UNCHANGED <<eventList, eventIds, lastEvent, schedulerState, deadline,
                 held, now, cycle, eventId, eventFate, stopped, returning,
                 known, signallers>>

WakeByItself ==
  /\ SpuriousWakeups
  /\ \/ schedulerPc = "idle" /\ schedulerPc' = "idleWoken"
     \/ schedulerPc = "timed" /\ schedulerPc' = "loop"
  /\ UNCHANGED <<eventList, eventIds, lastEvent, schedulerState, deadline,
                 held, now, cycle, eventId, eventFate, stopped, returning,
                 known, signallers>>

\* Mutant: the wait is rounded down.
DueSoon == deadline <= now + 1
Due == deadline <= now

TimeOut ==
  /\ schedulerPc = "timed" /\ Due
  /\ schedulerPc' = "timedOut"
  /\ UNCHANGED <<eventList, eventIds, lastEvent, schedulerState, deadline,
                 held, now, cycle, eventId, eventFate, stopped, returning,
                 known, signallers>>

\* Back with the lock and "ret" false: the top is taken, whatever its cycle.
\* An event whose id is gone was stopped, and is deleted instead of handed on.
PopTop(e) ==
  /\ schedulerPc \in {"idleWoken", "timedOut"} /\ schedulerState # "TERMINATED"
  /\ e \in Tops
  /\ eventList' = eventList \ {e}
  /\ IF Active(e)
     THEN /\ eventIds' = EraseId(eventId[e])
          /\ eventFate' = [eventFate EXCEPT ![e] = "taken"]
          /\ held' = e
          /\ schedulerPc' = "hand"
     ELSE /\ eventFate' = [eventFate EXCEPT ![e] = "deleted"]
          /\ schedulerPc' = "loop"
          /\ UNCHANGED <<eventIds, held>>
  /\ UNCHANGED <<lastEvent, schedulerState, deadline, now, cycle, eventId,
                 stopped, returning, known, signallers>>

\* top() and pop() of an empty priority_queue: anything may happen.
PopNothing ==
  /\ schedulerPc \in {"idleWoken", "timedOut"} /\ schedulerState # "TERMINATED"
  /\ eventList = {}
  /\ schedulerPc' = "undefined"
  /\ UNCHANGED <<eventList, eventIds, lastEvent, schedulerState, deadline,
                 held, now, cycle, eventId, eventFate, stopped, returning,
                 known, signallers>>

WakeTerminated ==
  /\ schedulerPc \in {"idleWoken", "timedOut"} /\ schedulerState = "TERMINATED"
  /\ schedulerPc' = "loop"
  /\ UNCHANGED <<eventList, eventIds, lastEvent, schedulerState, deadline,
                 held, now, cycle, eventId, eventFate, stopped, returning,
                 known, signallers>>

\* unsetExpiration, and Dispatcher::addTask takes the event over.
Hand ==
  /\ schedulerPc = "hand"
  /\ eventFate' = [eventFate EXCEPT ![held] = "handed"]
  /\ held' = NoEvent
  /\ schedulerPc' = "loop"
  /\ UNCHANGED <<eventList, eventIds, lastEvent, schedulerState, deadline, now,
                 cycle, eventId, stopped, returning, known, signallers>>

-----------------------------------------------------------------------------
(* What the dispatcher thread does to the scheduler *)

\* It runs and deletes the event it was handed; not in the middle of a call.
Consume(e) ==
  /\ schedulerPc # "undefined" /\ ~DispatcherBusy
  /\ eventFate[e] = "handed"
  /\ eventFate' = [eventFate EXCEPT ![e] = "gone"]
  /\ UNCHANGED <<eventList, eventIds, lastEvent, schedulerState, schedulerPc,
                 deadline, held, now, cycle, eventId, stopped, returning,
                 known, signallers>>

StopScheduler ==
  /\ schedulerPc # "undefined" /\ ~DispatcherBusy
  /\ schedulerState = "RUNNING"
  /\ schedulerState' = "CLOSING"
  /\ UNCHANGED <<eventList, eventIds, lastEvent, schedulerPc, deadline, held,
                 now, cycle, eventId, eventFate, stopped, returning, known,
                 signallers>>

\* shutdown drops the events it finds.  SIGTERM gets here without stop().
Shutdown ==
  /\ schedulerPc # "undefined" /\ ~DispatcherBusy
  /\ schedulerState # "TERMINATED"
  /\ schedulerState' = "TERMINATED"
  /\ eventFate' = [e \in Events |-> IF e \in eventList THEN "dropped" ELSE eventFate[e]]
  /\ eventList' = {} /\ eventIds' = {}
  /\ UNCHANGED <<lastEvent, schedulerPc, deadline, held, now, cycle, eventId,
                 stopped, returning, known, signallers>>

Tick ==
  /\ now < MaxTime
  /\ now' = now + 1
  /\ UNCHANGED <<eventList, eventIds, lastEvent, schedulerState, schedulerPc,
                 deadline, held, cycle, eventId, eventFate, stopped, returning,
                 known, signallers>>

-----------------------------------------------------------------------------

LoopStep ==
  \/ Wait \/ End \/ TimeOut \/ PopNothing \/ WakeTerminated
  \/ \E e \in Events : PopTop(e)

SchedulerThread == LoopStep \/ Hand

SchedulerNext ==
  \/ \E c \in Callers, e \in Events, delay \in Delays : AddEvent(c, e, delay)
  \/ \E c \in Callers : NotifyScheduler(c) \/ Return(c)
  \/ \E e \in Events : StopEvent(e) \/ Consume(e)
  \/ WakeByItself
  \/ SchedulerThread
  \/ StopScheduler \/ Shutdown \/ Tick

SchedulerSpec == SchedulerInit /\ [][SchedulerNext]_schedulerVars

-----------------------------------------------------------------------------
(* Properties *)

\* The type of every variable.
SchedulerTypeOK ==
  /\ eventList \subseteq Events
  /\ eventIds \subseteq 1..MaxEventId
  /\ lastEvent \in 0..MaxEventId
  /\ schedulerState \in {"RUNNING", "CLOSING", "TERMINATED"}
  /\ schedulerPc \in SchedulerPcs
  /\ deadline \in Nat
  /\ held \in Events \cup {NoEvent}
  /\ now \in Nat
  /\ cycle \in [Events -> Nat]
  /\ eventId \in [Events -> 0..MaxEventId]
  /\ eventFate \in [Events -> EventFates]
  /\ stopped \subseteq Events
  /\ returning \in [Callers -> Events \cup {NoEvent}]
  /\ known \subseteq Events
  /\ signallers \subseteq Callers

\* addEvent signals only for an event earlier than all others: a scheduler
\* thread that sleeps past the earliest event has its signal coming.
NoOversleep ==
  /\ schedulerPc = "idle" /\ eventList # {} => signallers # {}
  /\ schedulerPc = "timed" /\ (\E e \in eventList : cycle[e] < deadline) => signallers # {}

\* stopEvent leaves the event in the list, so a timed_wait that ends by time
\* finds an event to take, and the one on top is due.
TimeoutFindsDueEvent ==
  schedulerPc = "timedOut" /\ schedulerState # "TERMINATED"
    => eventList # {} /\ \A e \in Tops : cycle[e] <= now

\* An active id belongs to an event still in the list (an id that outlived its
\* event would make stopEvent answer true for what has already run), and no
\* event in the list has the id 0, which stopEvent takes for "no event".
IdsBelongToEvents ==
  /\ eventIds \subseteq {eventId[e] : e \in eventList}
  /\ \A e \in eventList : eventId[e] # 0

\* No other event was ever given the id of e.
UniqueId(e) == \A f \in Events \ {e} : eventId[f] # eventId[e]

\* Where ids are not reused: an event for which stopEvent returned true is
\* never handed to the dispatcher, and one it was not called for is never
\* deleted as if it had been.
StopIsExact ==
  \A e \in Events : UniqueId(e) =>
    /\ e \in stopped => eventFate[e] \in {"listed", "deleted", "dropped"}
    /\ eventFate[e] = "deleted" => e \in stopped

\* The comment of schedulerThread, "ok we had a timeout, so there has to be an
\* event we have to execute": there is an event to take, and it is due.
TimeoutBeforeExecution ==
  schedulerPc \in {"idleWoken", "timedOut"} /\ schedulerState # "TERMINATED"
    => eventList # {} /\ \A e \in Tops : cycle[e] <= now
=============================================================================
