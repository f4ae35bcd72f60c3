-------------------------- MODULE TaskEngineProofs --------------------------
(***************************************************************************)
(* Theorems about the Dispatcher, about the Scheduler, and about the two   *)
(* together: that TaskEngine implements TimerService.  They hold for every *)
(* set of tasks, of events and of threads, any delays and any width of the *)
(* event ids.                                                              *)
(***************************************************************************)
EXTENDS TaskEngine, FiniteSetTheorems, TLAPS

(***************************************************************************)
(* The Dispatcher: its types, that a wakeup is never lost, that the        *)
(* process exits with every accepted task run or dropped as expired, and   *)
(* the order of the tasks.                                                 *)
(***************************************************************************)
USE DEF Accepting, Place, Signals, FlushDone, LocksAgain

\* Removing the front of a non-empty list and adding at either end stay
\* within the lists over a set; nothing appears that was not there.
LEMMA HeadTail ==
  ASSUME NEW S, NEW q \in Seq(S), q # <<>>
  PROVE  /\ Head(q) \in S
         /\ Tail(q) \in Seq(S)
         /\ \A i \in DOMAIN q : q[i] = Head(q) \/ \E j \in DOMAIN Tail(q) : Tail(q)[j] = q[i]
<1>1. Head(q) \in S /\ Tail(q) \in Seq(S) /\ Len(q) \in Nat \ {0}
  OBVIOUS
<1>2. ASSUME NEW i \in DOMAIN q, i # 1
      PROVE  i - 1 \in DOMAIN Tail(q) /\ Tail(q)[i - 1] = q[i]
  BY <1>1, <1>2
<1>3. \A i \in DOMAIN q : i = 1 => q[i] = Head(q)
  OBVIOUS
<1>4. \A i \in DOMAIN q : i # 1 => \E j \in DOMAIN Tail(q) : Tail(q)[j] = q[i]
  BY <1>2
<1> QED BY <1>1, <1>3, <1>4

LEMMA AddedAtEnd ==
  ASSUME NEW S, NEW q \in Seq(S), NEW e \in S
  PROVE  /\ Append(q, e) \in Seq(S)
         /\ <<e>> \o q \in Seq(S)
         /\ Append(q, e)[Len(q) + 1] = e /\ Len(q) + 1 \in DOMAIN Append(q, e)
         /\ (<<e>> \o q)[1] = e /\ 1 \in DOMAIN (<<e>> \o q)
         /\ \A i \in DOMAIN q : /\ i \in DOMAIN Append(q, e) /\ Append(q, e)[i] = q[i]
                                /\ i + 1 \in DOMAIN (<<e>> \o q) /\ (<<e>> \o q)[i + 1] = q[i]
  OBVIOUS

-----------------------------------------------------------------------------
(* Types *)

\* Accepting or refusing a task keeps the types of what addTask touches.
LEMMA EnqueueType ==
  ASSUME TypeOK, NEW t \in Tasks, Enqueue(t)
  PROVE  /\ taskList' \in Seq(Tasks)
         /\ fate' \in [Tasks -> Fates]
         /\ ticket' \in [Tasks -> Nat]
         /\ accepted' \in Nat
<1>0. taskList \in Seq(Tasks)
  BY DEF TypeOK
<1>1. Append(taskList, t) \in Seq(Tasks) /\ <<t>> \o taskList \in Seq(Tasks)
  BY <1>0, AddedAtEnd
<1>2. CASE threadState = "RUNNING"
  <2>1. taskList' = <<t>> \o taskList \/ taskList' = Append(taskList, t)
    BY <1>2 DEF Enqueue
  <2>2. fate' = [fate EXCEPT ![t] = "queued"] /\ fate' \in [Tasks -> Fates]
    BY <1>2 DEF Enqueue, TypeOK, Fates
  <2>3. ticket' \in [Tasks -> Nat] /\ accepted' \in Nat
    BY <1>2 DEF Enqueue, TypeOK
  <2> QED BY <1>1, <2>1, <2>2, <2>3
<1>3. CASE threadState # "RUNNING"
  BY <1>3 DEF TypeOK, Enqueue, Fates
<1> QED BY <1>2, <1>3

\* So does taking the front of the list.
LEMMA PopFrontType ==
  ASSUME TypeOK, taskList # <<>>, PopFront
  PROVE  /\ taskList' \in Seq(Tasks)
         /\ fate' \in [Tasks -> Fates]
         /\ current' \in Tasks
         /\ pc' = "taken"
  BY HeadTail DEF TypeOK, PopFront, Fates

LEMMA TypeStep == TypeOK /\ [Next]_vars => TypeOK'
<1> SUFFICES ASSUME TypeOK, [Next]_vars PROVE TypeOK'
  OBVIOUS
<1> USE DEF TypeOK, Pcs, FlushPcs, Fates
<1>1. ASSUME NEW p \in Producers, NEW t \in Tasks, AddTask(p, t) PROVE TypeOK'
  BY <1>1, EnqueueType DEF AddTask
<1>2. ASSUME NEW p \in Producers, Notify(p) PROVE TypeOK'
  BY <1>2 DEF Notify
<1>3. CASE SpuriousWakeup
  BY <1>3 DEF SpuriousWakeup
<1>4. CASE TakeOrWait
  BY <1>4, PopFrontType DEF TakeOrWait
<1>5. CASE AfterWait
  BY <1>5, PopFrontType DEF AfterWait
<1>6. CASE Expire \/ Begin \/ EndFrame
  BY <1>6 DEF Expire, Begin, EndFrame
<1>7. CASE BeginClosing \/ Stop \/ EndTask
  BY <1>7 DEF BeginClosing, Stop, EndTask
<1>8. ASSUME NEW t \in Tasks, Spawn(t) \/ PostExit(t) \/ SendAllReleases(t)
      PROVE  TypeOK'
  BY <1>8, EnqueueType DEF Spawn, PostExit, SendAllReleases
<1>9. CASE FlushTake
  BY <1>9, HeadTail DEF FlushTake
<1>10. CASE BeginExit \/ LockAgain \/ FlushRun \/ FlushNext \/ Exit
  BY <1>10 DEF BeginExit, LockAgain, FlushRun, FlushNext, Exit
<1>11. CASE UNCHANGED vars
  BY <1>11 DEF vars
<1> QED
  BY <1>1, <1>2, <1>3, <1>4, <1>5, <1>6, <1>7, <1>8, <1>9, <1>10, <1>11
  DEF Next, DispatcherThread

\* The dispatcher's variables keep their types whatever threads do.
THEOREM TypeCorrect == Spec => []TypeOK
<1>1. Init => TypeOK
  BY TasksAssumption DEF Init, TypeOK, Pcs, Fates
<1> QED BY <1>1, TypeStep, PTL DEF Spec

-----------------------------------------------------------------------------
(* The wakeup *)

\* Accepting a task never empties the list, and a refusal leaves it alone.
LEMMA EnqueueFills ==
  ASSUME TypeOK, NEW t \in Tasks, Enqueue(t)
  PROVE  /\ threadState = "RUNNING" => taskList' # <<>>
         /\ threadState # "RUNNING" => taskList' = taskList
<1>1. taskList \in Seq(Tasks)
  BY DEF TypeOK
<1>2. Append(taskList, t) # <<>> /\ <<t>> \o taskList # <<>>
  BY <1>1, AddedAtEnd
<1> QED BY <1>2 DEF Enqueue

LEMMA WakeupStep == TypeOK /\ NoLostWakeup /\ [Next]_vars => NoLostWakeup'
<1> SUFFICES ASSUME TypeOK, NoLostWakeup, [Next]_vars PROVE NoLostWakeup'
  OBVIOUS
<1> USE DEF NoLostWakeup
<1>1. ASSUME NEW p \in Producers, NEW t \in Tasks, AddTask(p, t)
      PROVE  NoLostWakeup'
  <2>1. CASE threadState = "RUNNING" /\ taskList = <<>>
    BY <1>1, <2>1 DEF AddTask
  <2>2. CASE threadState = "RUNNING" /\ taskList # <<>>
    BY <1>1, <2>2 DEF AddTask
  <2>3. CASE threadState # "RUNNING"
    BY <1>1, <2>3, EnqueueFills DEF AddTask
  <2> QED BY <2>1, <2>2, <2>3
<1>2. ASSUME NEW p \in Producers, Notify(p) PROVE NoLostWakeup'
  BY <1>2 DEF Notify
<1>3. CASE SpuriousWakeup
  BY <1>3 DEF SpuriousWakeup
<1>4. CASE TakeOrWait
  BY <1>4 DEF TakeOrWait, PopFront
<1>5. CASE AfterWait
  BY <1>5 DEF AfterWait, PopFront
<1>6. CASE Expire \/ Begin \/ BeginClosing \/ Stop \/ EndTask \/ EndFrame
  BY <1>6 DEF Expire, Begin, BeginClosing, Stop, EndTask, EndFrame
<1>7. ASSUME NEW t \in Tasks, Spawn(t) \/ PostExit(t) \/ SendAllReleases(t)
      PROVE  NoLostWakeup'
  BY <1>7 DEF Spawn, PostExit, SendAllReleases
<1>8. CASE BeginExit \/ FlushTake \/ LockAgain \/ FlushRun \/ FlushNext \/ Exit
  BY <1>8 DEF BeginExit, FlushTake, LockAgain, FlushRun, FlushNext, Exit
<1>9. CASE UNCHANGED vars
  BY <1>9 DEF vars
<1> QED
  BY <1>1, <1>2, <1>3, <1>4, <1>5, <1>6, <1>7, <1>8, <1>9
  DEF Next, DispatcherThread

\* A dispatcher that sleeps beside a non-empty list always has a thread on
\* its way to notify_one: addTask's signal-only-when-empty loses no wakeup.
THEOREM WakeupNeverLost == Spec => []NoLostWakeup
<1>1. Init => NoLostWakeup
  BY DEF Init, NoLostWakeup
<1> QED BY <1>1, WakeupStep, TypeCorrect, PTL DEF Spec

-----------------------------------------------------------------------------
(* What exit leaves *)

\* Where every accepted task is: in the list while it is queued, in the hands
\* of the loop or of flush() while it is taken, nowhere once the process exits.
Accounting ==
  /\ \A t \in Tasks : ticket[t] > 0 => fate[t] \notin {"new", "refused"}
  /\ \A t \in Tasks : fate[t] = "queued" => \E i \in DOMAIN taskList : taskList[i] = t
  /\ \A t \in Tasks : fate[t] = "taken" =>
       \/ t = current /\ pc \notin {"loop", "wait", "woken", "sendAll", "exited"}
       \/ t = flushed /\ pc \in {"flushRun", "blocked"}
  /\ pc = "exited" => taskList = <<>>

\* addTask puts what it accepts in the list and drops nothing from it.
LEMMA EnqueueKeeps ==
  ASSUME TypeOK, Accounting, NEW t \in Tasks, Enqueue(t)
  PROVE  /\ \A u \in Tasks : ticket'[u] > 0 => fate'[u] \notin {"new", "refused"}
         /\ \A u \in Tasks : fate'[u] = "queued" => \E i \in DOMAIN taskList' : taskList'[i] = u
         /\ \A u \in Tasks : fate'[u] = "taken" => fate[u] = "taken"
<1>0. taskList \in Seq(Tasks)
  BY DEF TypeOK
<1>1. CASE threadState = "RUNNING"
  <2>1. \/ t \in ReleaseTasks /\ taskList' = <<t>> \o taskList
        \/ t \notin ReleaseTasks /\ taskList' = Append(taskList, t)
    BY <1>1 DEF Enqueue
  <2>2. /\ fate' = [fate EXCEPT ![t] = "queued"]
        /\ ticket' = [ticket EXCEPT ![t] = accepted + 1]
    BY <1>1 DEF Enqueue
  <2>3. \E i \in DOMAIN taskList' : taskList'[i] = t
    <3>1. 1 \in DOMAIN (<<t>> \o taskList) /\ (<<t>> \o taskList)[1] = t
      BY <1>0, AddedAtEnd
    <3>2. /\ Len(taskList) + 1 \in DOMAIN Append(taskList, t)
          /\ Append(taskList, t)[Len(taskList) + 1] = t
      BY <1>0, AddedAtEnd
    <3> QED BY <2>1, <3>1, <3>2
  <2>4. \A u \in Tasks : (\E i \in DOMAIN taskList : taskList[i] = u)
                           => \E i \in DOMAIN taskList' : taskList'[i] = u
    <3>1. ASSUME NEW i \in DOMAIN taskList
          PROVE  \E j \in DOMAIN taskList' : taskList'[j] = taskList[i]
      <4>1. /\ i \in DOMAIN Append(taskList, t) /\ Append(taskList, t)[i] = taskList[i]
            /\ i + 1 \in DOMAIN (<<t>> \o taskList)
            /\ (<<t>> \o taskList)[i + 1] = taskList[i]
        BY <1>0, AddedAtEnd
      <4> QED BY <2>1, <4>1
    <3> QED BY <3>1
  <2> QED BY <2>2, <2>3, <2>4 DEF Accounting, TypeOK
<1>2. CASE threadState # "RUNNING"
  <2>1. /\ fate' = [fate EXCEPT ![t] = "refused"] /\ fate[t] = "new"
        /\ UNCHANGED <<taskList, ticket>>
    BY <1>2 DEF Enqueue
  <2> QED BY <2>1 DEF Accounting, TypeOK
<1> QED BY <1>1, <1>2

\* Taking the front leaves every other queued task in the list.
LEMMA TakeKeeps ==
  ASSUME TypeOK, Accounting, taskList # <<>>, taskList' = Tail(taskList),
         fate' = [fate EXCEPT ![Head(taskList)] = "taken"], ticket' = ticket
  PROVE  /\ \A t \in Tasks : ticket'[t] > 0 => fate'[t] \notin {"new", "refused"}
         /\ \A t \in Tasks : fate'[t] = "queued" => \E i \in DOMAIN taskList' : taskList'[i] = t
         /\ \A t \in Tasks : fate'[t] = "taken" => fate[t] = "taken" \/ t = Head(taskList)
<1>1. Head(taskList) \in Tasks /\ fate \in [Tasks -> Fates]
  BY HeadTail DEF TypeOK
<1>2. ASSUME NEW t \in Tasks, fate'[t] = "queued"
      PROVE  \E i \in DOMAIN taskList' : taskList'[i] = t
  <2>1. t # Head(taskList) /\ fate[t] = "queued"
    BY <1>1, <1>2
  <2>2. PICK i \in DOMAIN taskList : taskList[i] = t
    BY <2>1 DEF Accounting
  <2>3. taskList \in Seq(Tasks)
    BY DEF TypeOK
  <2>4. \/ taskList[i] = Head(taskList)
        \/ \E j \in DOMAIN Tail(taskList) : Tail(taskList)[j] = taskList[i]
    BY <2>3, HeadTail
  <2> QED BY <2>1, <2>2, <2>4
<1> QED BY <1>1, <1>2 DEF Accounting

LEMMA AccountingStep == TypeOK /\ Accounting /\ [Next]_vars => Accounting'
<1> SUFFICES ASSUME TypeOK, Accounting, [Next]_vars PROVE Accounting'
  OBVIOUS
<1>1. ASSUME NEW p \in Producers, NEW t \in Tasks, AddTask(p, t)
      PROVE  Accounting'
  BY <1>1, EnqueueKeeps DEF AddTask, Alive, Accounting
<1>2. ASSUME NEW p \in Producers, Notify(p) PROVE Accounting'
  BY <1>2 DEF Notify, Accounting
<1>3. CASE SpuriousWakeup
  BY <1>3 DEF SpuriousWakeup, Accounting
<1>4. ASSUME PopFront, taskList # <<>>, pc \in {"loop", "woken"}, UNCHANGED <<flushed, ticket>>
      PROVE  Accounting'
  BY <1>4, TakeKeeps DEF PopFront, Accounting
<1>5. CASE TakeOrWait
  BY <1>4, <1>5 DEF TakeOrWait, Accounting
<1>6. CASE AfterWait
  BY <1>4, <1>6 DEF AfterWait, Accounting
<1>7. CASE Begin \/ BeginClosing \/ EndFrame
  BY <1>7 DEF Begin, BeginClosing, EndFrame, Accounting
<1>8. CASE Expire \/ Stop \/ EndTask
  BY <1>8, ZenonT(60) DEF Expire, Stop, EndTask, Accounting, TypeOK
<1>9. ASSUME NEW t \in Tasks, Spawn(t) \/ PostExit(t) \/ SendAllReleases(t)
      PROVE  Accounting'
  BY <1>9, EnqueueKeeps DEF Spawn, PostExit, SendAllReleases, Accounting
<1>10. CASE FlushTake
  BY <1>10, TakeKeeps DEF FlushTake, Accounting
<1>11. CASE BeginExit \/ LockAgain \/ FlushNext
  BY <1>11 DEF BeginExit, LockAgain, FlushNext, Accounting
<1>12. CASE FlushRun \/ Exit
  BY <1>12, ZenonT(60) DEF FlushRun, Exit, Accounting, TypeOK
<1>13. CASE UNCHANGED vars
  BY <1>13 DEF vars, Accounting
<1> QED
  BY <1>1, <1>2, <1>3, <1>5, <1>6, <1>7, <1>8, <1>9, <1>10, <1>11, <1>12, <1>13
  DEF Next, DispatcherThread

LEMMA AccountingInvariant == Spec => []Accounting
<1>1. Init => Accounting
  BY DEF Init, Accounting
<1> QED BY <1>1, AccountingStep, TypeCorrect, PTL DEF Spec

\* The process never exits with an accepted task it neither ran nor dropped as
\* expired: Dispatcher::shutdown flushes the list before exit(3).
THEOREM NothingLeftAtExit == Spec => []ExitLeavesNothing
<1>1. TypeOK /\ Accounting => ExitLeavesNothing
  BY DEF TypeOK, Accounting, ExitLeavesNothing, Fates
<1> QED BY <1>1, AccountingInvariant, TypeCorrect, PTL

-----------------------------------------------------------------------------
(* The order of the tasks *)

\* What sits behind a task of the game is of the game too, and came later;
\* what was taken before it came earlier.
QueueOrder ==
  /\ \A t \in Tasks : ticket[t] <= accepted /\ (fate[t] = "new" => ticket[t] = 0)
  /\ \A i \in DOMAIN taskList : fate[taskList[i]] = "queued"
  /\ \A i, j \in DOMAIN taskList : i < j =>
       /\ taskList[i] # taskList[j]
       /\ taskList[i] \in Ordinary =>
            taskList[j] \in Ordinary /\ ticket[taskList[i]] < ticket[taskList[j]]
  /\ \A i \in DOMAIN taskList, t \in Ordinary :
       taskList[i] \in Ordinary /\ fate[t] \in {"taken", "done", "expired"}
         => ticket[t] < ticket[taskList[i]]

\* The list holds nothing older than the task in hand, if that is of the game,
\* and flush() works for an exit task on what came after it.
HandOrder ==
  /\ pc \in {"taken", "run", "closing", "stopping"} \cup FlushPcs =>
       /\ current \in Tasks /\ fate[current] = "taken"
       /\ current \in Ordinary =>
            \A i \in DOMAIN taskList : ticket[current] < ticket[taskList[i]]
  /\ pc \in FlushPcs => current \in ExitTasks
  /\ pc \in FlushPcs \ {"flush"} =>
       /\ flushed \in Tasks /\ fate[flushed] \in {"taken", "done"}
       /\ ticket[current] < ticket[flushed]

OrderInv == QueueOrder /\ HandOrder

\* Where the elements of a list come from, after an addition or a removal.
LEMMA Positions ==
  ASSUME NEW S, NEW q \in Seq(S), NEW e \in S
  PROVE  /\ \A i \in DOMAIN Append(q, e) :
              \/ i \in DOMAIN q /\ Append(q, e)[i] = q[i]
              \/ i = Len(q) + 1 /\ Append(q, e)[i] = e
         /\ \A i \in DOMAIN (<<e>> \o q) :
              \/ i = 1 /\ (<<e>> \o q)[i] = e
              \/ i > 1 /\ i - 1 \in DOMAIN q /\ (<<e>> \o q)[i] = q[i - 1]
         /\ q # <<>> => /\ 1 \in DOMAIN q /\ q[1] = Head(q)
                        /\ \A i \in DOMAIN Tail(q) :
                             i + 1 \in DOMAIN q /\ Tail(q)[i] = q[i + 1]
         /\ DOMAIN q \subseteq Nat \ {0}
         /\ \A i \in DOMAIN q : q[i] \in S /\ i <= Len(q)
  OBVIOUS

\* A task that addTask accepts has the latest ticket, and the order is kept.
LEMMA EnqueueOrder ==
  ASSUME TypeOK, QueueOrder, NEW t \in Tasks, Enqueue(t)
  PROVE  /\ QueueOrder'
         /\ \A u \in Tasks : fate[u] # "new" => ticket'[u] = ticket[u] /\ fate'[u] = fate[u]
         /\ \A i \in DOMAIN taskList' :
              \/ ticket'[taskList'[i]] = accepted + 1
              \/ \E j \in DOMAIN taskList : /\ taskList'[i] = taskList[j]
                                            /\ ticket'[taskList'[i]] = ticket[taskList[j]]
<1>0. taskList \in Seq(Tasks) /\ accepted \in Nat /\ ticket \in [Tasks -> Nat]
      /\ fate \in [Tasks -> Fates] /\ fate[t] = "new"
  BY DEF TypeOK, Enqueue
<1>1. CASE threadState = "RUNNING"
  <2>1. /\ fate' = [fate EXCEPT ![t] = "queued"]
        /\ ticket' = [ticket EXCEPT ![t] = accepted + 1]
        /\ accepted' = accepted + 1
    BY <1>1 DEF Enqueue
  <2>2. \A u \in Tasks : u # t => ticket'[u] = ticket[u] /\ fate'[u] = fate[u]
    BY <1>0, <2>1
  <2>3. ticket'[t] = accepted + 1 /\ fate'[t] = "queued"
    BY <1>0, <2>1
  <2>4. \A i \in DOMAIN taskList : /\ taskList[i] \in Tasks /\ taskList[i] # t
                                   /\ ticket'[taskList[i]] = ticket[taskList[i]]
                                   /\ fate'[taskList[i]] = fate[taskList[i]]
                                   /\ ticket[taskList[i]] < accepted + 1
                                   /\ ticket[taskList[i]] \in Nat
    BY <1>0, <2>2 DEF QueueOrder
  <2>5. \A u \in Tasks : ticket'[u] <= accepted' /\ (fate'[u] = "new" => ticket'[u] = 0)
    BY <1>0, <2>1, <2>2, <2>3 DEF QueueOrder
  <2>6. \A u \in Ordinary : fate'[u] \in {"taken", "done", "expired"} =>
          /\ ticket'[u] < accepted + 1
          /\ \A i \in DOMAIN taskList :
               taskList[i] \in Ordinary => ticket'[u] < ticket'[taskList[i]]
    BY <1>0, <2>2, <2>3, <2>4 DEF QueueOrder, Ordinary
  <2>7. CASE t \in ReleaseTasks
    <3>1. taskList' = <<t>> \o taskList
      BY <1>1, <2>7 DEF Enqueue
    <3>2. \A i \in DOMAIN taskList' :
            \/ i = 1 /\ taskList'[i] = t
            \/ i > 1 /\ i - 1 \in DOMAIN taskList /\ taskList'[i] = taskList[i - 1]
      BY <1>0, <3>1, Positions
    <3>8. \A i \in DOMAIN taskList' : i \in Nat
      BY <1>0, <3>1, AddedAtEnd
    <3>3. \A i \in DOMAIN taskList' : fate'[taskList'[i]] = "queued"
      BY <2>3, <2>4, <3>2 DEF QueueOrder
    <3>4. ASSUME NEW i \in DOMAIN taskList', NEW j \in DOMAIN taskList', i < j
          PROVE  /\ taskList'[i] # taskList'[j]
                 /\ taskList'[i] \in Ordinary =>
                      /\ taskList'[j] \in Ordinary
                      /\ ticket'[taskList'[i]] < ticket'[taskList'[j]]
      <4>1. j > 1 /\ j - 1 \in DOMAIN taskList /\ taskList'[j] = taskList[j - 1]
        BY <3>2, <3>4, <3>8
      <4>2. CASE i = 1
        BY <2>4, <2>7, <3>2, <4>1, <4>2 DEF Ordinary
      <4>3. CASE i # 1
        <5>1. i - 1 \in DOMAIN taskList /\ taskList'[i] = taskList[i - 1] /\ i - 1 < j - 1
          BY <3>2, <3>4, <3>8, <4>3
        <5> QED BY <2>4, <4>1, <5>1 DEF QueueOrder
      <4> QED BY <4>2, <4>3
    <3>5. ASSUME NEW i \in DOMAIN taskList', NEW u \in Ordinary,
                 taskList'[i] \in Ordinary, fate'[u] \in {"taken", "done", "expired"}
          PROVE  ticket'[u] < ticket'[taskList'[i]]
      BY <2>6, <2>7, <3>2, <3>5 DEF Ordinary
    <3>6. QueueOrder'
      BY <2>5, <3>3, <3>4, <3>5 DEF QueueOrder, Ordinary
    <3>7. \A i \in DOMAIN taskList' :
            \/ ticket'[taskList'[i]] = accepted + 1
            \/ \E j \in DOMAIN taskList : /\ taskList'[i] = taskList[j]
                                          /\ ticket'[taskList'[i]] = ticket[taskList[j]]
      BY <2>3, <2>4, <3>2
    <3> QED BY <1>0, <2>2, <3>6, <3>7
  <2>8. CASE t \notin ReleaseTasks
    <3>1. taskList' = Append(taskList, t)
      BY <1>1, <2>8 DEF Enqueue
    <3>2. \A i \in DOMAIN taskList' :
            \/ i \in DOMAIN taskList /\ taskList'[i] = taskList[i]
            \/ i = Len(taskList) + 1 /\ taskList'[i] = t
      BY <1>0, <3>1, Positions
    <3>8. \A i \in DOMAIN taskList : i \in Nat /\ i < Len(taskList) + 1
      BY <1>0
    <3>9. Len(taskList) \in Nat
      BY <1>0
    <3>3. \A i \in DOMAIN taskList' : fate'[taskList'[i]] = "queued"
      BY <2>3, <2>4, <3>2 DEF QueueOrder
    <3>4. ASSUME NEW i \in DOMAIN taskList', NEW j \in DOMAIN taskList', i < j
          PROVE  /\ taskList'[i] # taskList'[j]
                 /\ taskList'[i] \in Ordinary =>
                      /\ taskList'[j] \in Ordinary
                      /\ ticket'[taskList'[i]] < ticket'[taskList'[j]]
      <4>1. i \in DOMAIN taskList /\ taskList'[i] = taskList[i]
        BY <3>2, <3>4, <3>8, <3>9
      <4>2. CASE j \in DOMAIN taskList /\ taskList'[j] = taskList[j]
        BY <2>4, <3>4, <4>1, <4>2 DEF QueueOrder
      <4>3. CASE taskList'[j] = t
        BY <2>3, <2>4, <2>8, <4>1, <4>3 DEF Ordinary
      <4> QED BY <3>2, <4>2, <4>3
    <3>5. ASSUME NEW i \in DOMAIN taskList', NEW u \in Ordinary,
                 taskList'[i] \in Ordinary, fate'[u] \in {"taken", "done", "expired"}
          PROVE  ticket'[u] < ticket'[taskList'[i]]
      BY <2>3, <2>6, <3>2, <3>5 DEF Ordinary
    <3>6. QueueOrder'
      BY <2>5, <3>3, <3>4, <3>5 DEF QueueOrder, Ordinary
    <3>7. \A i \in DOMAIN taskList' :
            \/ ticket'[taskList'[i]] = accepted + 1
            \/ \E j \in DOMAIN taskList : /\ taskList'[i] = taskList[j]
                                          /\ ticket'[taskList'[i]] = ticket[taskList[j]]
      BY <2>3, <2>4, <3>2
    <3> QED BY <1>0, <2>2, <3>6, <3>7
  <2> QED BY <2>7, <2>8
<1>2. CASE threadState # "RUNNING"
  <2>1. /\ fate' = [fate EXCEPT ![t] = "refused"]
        /\ UNCHANGED <<taskList, ticket, accepted>>
    BY <1>2 DEF Enqueue
  <2>2. \A i \in DOMAIN taskList : taskList[i] \in Tasks /\ taskList[i] # t
    BY <1>0 DEF QueueOrder
  <2> QED BY <1>0, <2>1, <2>2 DEF QueueOrder, Ordinary
<1> QED BY <1>1, <1>2

\* What is taken from the front is, if of the game, older than all the rest.
LEMMA TakeOrder ==
  ASSUME TypeOK, QueueOrder, taskList # <<>>, taskList' = Tail(taskList),
         fate' = [fate EXCEPT ![Head(taskList)] = "taken"],
         UNCHANGED <<ticket, accepted>>
  PROVE  /\ QueueOrder'
         /\ Head(taskList) \in Tasks /\ fate'[Head(taskList)] = "taken"
         /\ Head(taskList) \in Ordinary =>
              \A i \in DOMAIN taskList' : ticket'[Head(taskList)] < ticket'[taskList'[i]]
         /\ \A i \in DOMAIN taskList' : \E j \in DOMAIN taskList : taskList'[i] = taskList[j]
         /\ \E j \in DOMAIN taskList : Head(taskList) = taskList[j]
         /\ \A u \in Tasks : fate[u] = "taken" => fate'[u] = "taken"
<1>0. /\ taskList \in Seq(Tasks) /\ ticket \in [Tasks -> Nat] /\ fate \in [Tasks -> Fates]
      /\ Head(taskList) \in Tasks
  BY HeadTail DEF TypeOK
<1>1. /\ 1 \in DOMAIN taskList /\ taskList[1] = Head(taskList)
      /\ \A i \in DOMAIN taskList' : i + 1 \in DOMAIN taskList /\ taskList'[i] = taskList[i + 1]
  BY <1>0, Positions
<1>2. \A i \in DOMAIN taskList' : i \in Nat /\ 1 < i + 1
  BY <1>0, HeadTail
<1>3. \A i \in DOMAIN taskList' : taskList'[i] # Head(taskList) /\ fate'[taskList'[i]] = "queued"
  BY <1>0, <1>1, <1>2, Positions DEF QueueOrder
<1>4. \A i, j \in DOMAIN taskList' : i < j => i + 1 < j + 1
  BY <1>2
<1>5. \A u \in Tasks : u # Head(taskList) => fate'[u] = fate[u]
  BY <1>0
<1>6. Head(taskList) \in Ordinary =>
        \A i \in DOMAIN taskList' : ticket[Head(taskList)] < ticket[taskList'[i]]
  BY <1>1, <1>2 DEF QueueOrder
<1>7. \A i \in DOMAIN taskList', u \in Ordinary :
        taskList'[i] \in Ordinary /\ fate'[u] \in {"taken", "done", "expired"}
          => ticket[u] < ticket[taskList'[i]]
  BY <1>1, <1>5, <1>6 DEF QueueOrder, Ordinary
<1>8. QueueOrder'
  <2>1. \A u \in Tasks : ticket'[u] <= accepted' /\ (fate'[u] = "new" => ticket'[u] = 0)
    BY <1>0, <1>5 DEF QueueOrder
  <2>2. \A i, j \in DOMAIN taskList' : i < j =>
          /\ taskList'[i] # taskList'[j]
          /\ taskList'[i] \in Ordinary =>
               taskList'[j] \in Ordinary /\ ticket'[taskList'[i]] < ticket'[taskList'[j]]
    BY <1>1, <1>4 DEF QueueOrder
  <2> QED BY <1>3, <1>7, <2>1, <2>2 DEF QueueOrder, Ordinary
<1> QED BY <1>0, <1>1, <1>6, <1>8

LEMMA QueueOrderStep == TypeOK /\ QueueOrder /\ HandOrder /\ [Next]_vars => QueueOrder'
<1> SUFFICES ASSUME TypeOK, QueueOrder, HandOrder, [Next]_vars PROVE QueueOrder'
  OBVIOUS
<1>1. ASSUME NEW p \in Producers, NEW t \in Tasks, AddTask(p, t)
      PROVE  QueueOrder'
  BY <1>1, EnqueueOrder DEF AddTask
<1>2. ASSUME NEW p \in Producers, Notify(p) PROVE QueueOrder'
  BY <1>2 DEF Notify, QueueOrder
<1>3. CASE SpuriousWakeup
  BY <1>3 DEF SpuriousWakeup, QueueOrder
<1>4. CASE TakeOrWait
  BY <1>4, TakeOrder DEF TakeOrWait, PopFront, QueueOrder
<1>5. CASE AfterWait
  BY <1>5, TakeOrder DEF AfterWait, PopFront, QueueOrder
<1>6. ASSUME NEW t \in Tasks, Spawn(t) \/ PostExit(t) \/ SendAllReleases(t)
      PROVE  QueueOrder'
  BY <1>6, EnqueueOrder DEF Spawn, PostExit, SendAllReleases
<1>7. CASE FlushTake
  BY <1>7, TakeOrder DEF FlushTake
<1>8. CASE Begin \/ BeginClosing \/ EndFrame \/ BeginExit \/ LockAgain \/ FlushNext
  BY <1>8 DEF Begin, BeginClosing, EndFrame, BeginExit, LockAgain, FlushNext, QueueOrder
<1>9. ASSUME NEW u \in Tasks, fate[u] \in {"taken", "done"},
             \/ fate' = [fate EXCEPT ![u] = "done"]
             \/ fate' = [fate EXCEPT ![u] = "expired"],
             UNCHANGED <<taskList, ticket, accepted>>
      PROVE  QueueOrder'
  <2>1. \A t \in Tasks : t # u => fate'[t] = fate[t]
    BY <1>9 DEF TypeOK
  <2>2. fate'[u] \in {"done", "expired"}
    BY <1>9 DEF TypeOK
  <2>3. \A i \in DOMAIN taskList : taskList[i] \in Tasks
    BY DEF TypeOK
  <2> QED BY <1>9, <2>1, <2>2, <2>3 DEF QueueOrder, Ordinary
<1>10. CASE Expire \/ Stop \/ EndTask \/ Exit
  BY <1>9, <1>10 DEF Expire, Stop, EndTask, Exit, HandOrder, FlushPcs
<1>11. CASE FlushRun
  BY <1>9, <1>11 DEF FlushRun, HandOrder, FlushPcs
<1>12. CASE UNCHANGED vars
  BY <1>12 DEF vars, QueueOrder
<1> QED
  BY <1>1, <1>2, <1>3, <1>4, <1>5, <1>6, <1>7, <1>8, <1>10, <1>11, <1>12
  DEF Next, DispatcherThread

LEMMA HandOrderStep == TypeOK /\ QueueOrder /\ HandOrder /\ [Next]_vars => HandOrder'
<1> SUFFICES ASSUME TypeOK, QueueOrder, HandOrder, [Next]_vars PROVE HandOrder'
  OBVIOUS
<1> USE DEF FlushPcs
<1>1. ASSUME NEW t \in Tasks, Enqueue(t), UNCHANGED <<current, flushed>>,
             pc' = pc \/ (pc \in {"closing"} /\ pc' = "stopping"), pc \notin FlushPcs
      PROVE  HandOrder'
  <2>1. /\ ticket \in [Tasks -> Nat] /\ accepted \in Nat
        /\ \A u \in Tasks : ticket[u] < accepted + 1
        /\ \A i \in DOMAIN taskList : taskList[i] \in Tasks
    BY DEF TypeOK, QueueOrder
  <2>2. ASSUME pc' \in {"taken", "run", "closing", "stopping"}
        PROVE  /\ current \in Tasks /\ fate'[current] = "taken"
               /\ current \in Ordinary =>
                    \A i \in DOMAIN taskList' : ticket'[current] < ticket'[taskList'[i]]
    <3>1. current \in Tasks /\ fate[current] = "taken" /\ ticket'[current] = ticket[current]
          /\ fate'[current] = "taken"
      BY <1>1, <2>2, EnqueueOrder DEF HandOrder
    <3>2. current \in Ordinary =>
            \A i \in DOMAIN taskList : ticket[current] < ticket[taskList[i]]
      BY <1>1, <2>2 DEF HandOrder
    <3> QED BY <1>1, <2>1, <3>1, <3>2, EnqueueOrder
  <2> QED BY <1>1, <2>2 DEF HandOrder, Ordinary
<1>2. ASSUME NEW p \in Producers, NEW t \in Tasks, AddTask(p, t)
      PROVE  HandOrder'
  BY <1>1, <1>2 DEF AddTask, TaskLockFree
<1>3. ASSUME NEW t \in Tasks, Spawn(t) \/ PostExit(t) \/ SendAllReleases(t)
      PROVE  HandOrder'
  BY <1>1, <1>3 DEF Spawn, PostExit, SendAllReleases
<1>4. ASSUME NEW p \in Producers, Notify(p) PROVE HandOrder'
  BY <1>4 DEF Notify, HandOrder
<1>5. ASSUME PopFront, taskList # <<>>, UNCHANGED <<ticket, accepted>>
      PROVE  HandOrder'
  BY <1>5, TakeOrder DEF PopFront, HandOrder
<1>6. CASE TakeOrWait
  BY <1>5, <1>6 DEF TakeOrWait, HandOrder
<1>7. CASE AfterWait
  BY <1>5, <1>7 DEF AfterWait, HandOrder
<1>8. CASE SpuriousWakeup \/ Expire \/ Stop \/ EndTask \/ EndFrame \/ Exit
  BY <1>8 DEF SpuriousWakeup, Expire, Stop, EndTask, EndFrame, Exit, HandOrder
<1>9. CASE Begin \/ BeginClosing \/ BeginExit \/ LockAgain \/ FlushNext
  BY <1>9 DEF Begin, BeginClosing, BeginExit, LockAgain, FlushNext, LocksAgain, HandOrder
<1>10. CASE FlushTake
  <2>1. /\ current \in ExitTasks /\ current \in Tasks /\ fate[current] = "taken"
        /\ current \in Ordinary
    BY <1>10, TasksAssumption DEF FlushTake, HandOrder, Ordinary
  <2>2. \A i \in DOMAIN taskList : ticket[current] < ticket[taskList[i]]
    BY <1>10, <2>1 DEF FlushTake, HandOrder
  <2>3. /\ flushed' = Head(taskList) /\ UNCHANGED <<current, ticket>> /\ pc' = "flushRun"
    BY <1>10 DEF FlushTake
  <2>4. /\ Head(taskList) \in Tasks /\ fate'[Head(taskList)] = "taken"
        /\ \A i \in DOMAIN taskList' : \E j \in DOMAIN taskList : taskList'[i] = taskList[j]
        /\ \E j \in DOMAIN taskList : Head(taskList) = taskList[j]
        /\ fate'[current] = "taken"
    BY <1>10, <2>1, TakeOrder DEF FlushTake
  <2>5. \A i \in DOMAIN taskList' : ticket[current] < ticket[taskList'[i]]
    BY <2>2, <2>4
  <2> QED BY <2>1, <2>2, <2>3, <2>4, <2>5 DEF HandOrder, Ordinary
<1>11. CASE FlushRun
  <2>1. /\ current \in ExitTasks /\ flushed \notin ExitTasks
        /\ current \in Tasks /\ flushed \in Tasks /\ fate[current] = "taken"
    BY <1>11 DEF FlushRun, HandOrder
  <2>2. fate'[flushed] = "done" /\ fate'[current] = "taken"
    BY <1>11, <2>1 DEF FlushRun, TypeOK
  <2> QED BY <1>11, <2>1, <2>2 DEF FlushRun, HandOrder
<1>12. CASE UNCHANGED vars
  BY <1>12 DEF vars, HandOrder
<1> QED
  BY <1>2, <1>3, <1>4, <1>6, <1>7, <1>8, <1>9, <1>10, <1>11, <1>12
  DEF Next, DispatcherThread

LEMMA OrderInvariant == Spec => []OrderInv
<1>1. Init => OrderInv
  BY DEF Init, OrderInv, QueueOrder, HandOrder, Ordinary, FlushPcs
<1>2. TypeOK /\ OrderInv /\ [Next]_vars => OrderInv'
  BY QueueOrderStep, HandOrderStep DEF OrderInv
<1> QED BY <1>1, <1>2, TypeCorrect, PTL DEF Spec

\* Whatever jumps the queue, the tasks of the game are taken in the order in
\* which addTask accepted them.
THEOREM OrdinaryTasksInOrder == Spec => []OrdinaryInOrder
<1>1. OrderInv => OrdinaryInOrder
  BY DEF OrderInv, QueueOrder, OrdinaryInOrder
<1> QED BY <1>1, OrderInvariant, PTL

\* What flush() runs under the lock came after the exit task: all that was
\* accepted before it went through the normal loop.
THEOREM OnlyLatecomersFlushed == Spec => []FlushedCameLater
<1>1. TypeOK /\ Accounting /\ OrderInv => FlushedCameLater
  <2> SUFFICES ASSUME TypeOK, Accounting, OrderInv, pc \in FlushPcs, NEW t \in Tasks,
                      0 < ticket[t], ticket[t] < ticket[current]
               PROVE  fate[t] \in {"done", "expired"}
    BY DEF FlushedCameLater
  <2>1. /\ current \in Tasks /\ current \in Ordinary
        /\ \A i \in DOMAIN taskList : ticket[current] < ticket[taskList[i]]
        /\ pc # "flush" => ticket[current] < ticket[flushed] /\ flushed \in Tasks
    BY TasksAssumption DEF OrderInv, HandOrder, Ordinary
  <2>2. \A u \in Tasks : ticket[u] \in Nat
    BY DEF TypeOK
  <2>3. fate[t] # "queued"
    BY <2>1, <2>2 DEF Accounting, TypeOK
  <2>4. fate[t] # "taken"
    BY <2>1, <2>2 DEF Accounting, FlushPcs
  <2>5. fate[t] \in Fates /\ fate[t] \notin {"new", "refused"}
    BY DEF Accounting, TypeOK
  <2> QED BY <2>3, <2>4, <2>5 DEF Fates
<1> QED BY <1>1, AccountingInvariant, OrderInvariant, TypeCorrect, PTL

-----------------------------------------------------------------------------
(***************************************************************************)
(* The Scheduler: its types, its sleep, its ids, and stopEvent.            *)
(***************************************************************************)
USE DEF InsertId, EraseId, Active, SignalsEarlier, Due

(* Types *)

LEMMA SchedulerTypeStep == SchedulerTypeOK /\ [SchedulerNext]_schedulerVars => SchedulerTypeOK'
<1> SUFFICES ASSUME SchedulerTypeOK, [SchedulerNext]_schedulerVars PROVE SchedulerTypeOK'
  OBVIOUS
<1> USE SchedulerAssumption DEF SchedulerTypeOK, SchedulerPcs, EventFates
<1>1. ASSUME NEW c \in Callers, NEW e \in Events, NEW delay \in Delays,
             AddEvent(c, e, delay)
      PROVE  SchedulerTypeOK'
  <2>1. DueAt(delay) \in Nat /\ NextEventId \in 1..MaxEventId
    BY DEF DueAt, NextEventId
  <2>2. CASE schedulerState = "RUNNING"
    <3>0. /\ eventList' = eventList \cup {e}
          /\ eventIds' = eventIds \cup {NextEventId}
          /\ signallers' = signallers \cup {c} \/ signallers' = signallers
      BY <1>1, <2>2 DEF AddEvent
    <3>1. /\ eventList' \subseteq Events
          /\ eventIds' \subseteq 1..MaxEventId
          /\ signallers' \subseteq Callers
      BY <2>1, <3>0
    <3>2. /\ eventId' \in [Events -> 0..MaxEventId]
          /\ eventFate' \in [Events -> EventFates]
          /\ lastEvent' \in 0..MaxEventId
      BY <1>1, <2>1, <2>2 DEF AddEvent
    <3>3. /\ cycle' \in [Events -> Nat]
          /\ returning' \in [Callers -> Events \cup {NoEvent}]
      BY <1>1, <2>1, <2>2 DEF AddEvent
    <3> QED BY <1>1, <3>1, <3>2, <3>3 DEF AddEvent
  <2>3. CASE schedulerState # "RUNNING"
    BY <1>1, <2>1, <2>3 DEF AddEvent
  <2> QED BY <2>2, <2>3
<1>2. ASSUME NEW c \in Callers, NotifyScheduler(c) \/ Return(c) PROVE SchedulerTypeOK'
  BY <1>2 DEF NotifyScheduler, Return
<1>3. ASSUME NEW e \in Events, StopEvent(e) \/ Consume(e) PROVE SchedulerTypeOK'
  BY <1>3 DEF StopEvent, Consume
<1>4. CASE WakeByItself \/ End \/ TimeOut \/ PopNothing \/ WakeTerminated
  BY <1>4 DEF WakeByItself, End, TimeOut, PopNothing, WakeTerminated
<1>5. CASE Wait
  <2>1. schedulerPc' \in {"idle", "timed"} /\ deadline' \in Nat
    BY <1>5 DEF Wait, Tops
  <2> QED BY <1>5, <2>1 DEF Wait
<1>6. ASSUME NEW e \in Events, PopTop(e) PROVE SchedulerTypeOK'
  BY <1>6 DEF PopTop
<1>7. CASE StopScheduler \/ Tick
  <2>1. now' \in Nat /\ schedulerState' \in {"RUNNING", "CLOSING", "TERMINATED"}
    BY <1>7 DEF StopScheduler, Tick
  <2> QED BY <1>7, <2>1 DEF StopScheduler, Tick
<1>10. CASE Hand
  <2>1. eventFate' \in [Events -> EventFates]
    BY <1>10 DEF Hand
  <2> QED BY <1>10, <2>1 DEF Hand
<1>9. CASE Shutdown
  <2>1. eventFate' \in [Events -> EventFates]
    BY <1>9 DEF Shutdown
  <2> QED BY <1>9, <2>1 DEF Shutdown
<1>8. CASE UNCHANGED schedulerVars
  BY <1>8 DEF schedulerVars
<1> QED
  BY <1>1, <1>2, <1>3, <1>4, <1>5, <1>6, <1>7, <1>8, <1>9, <1>10
  DEF SchedulerNext, SchedulerThread, LoopStep

\* The scheduler's variables keep their types; in particular every id it
\* gives out is between 1 and the wrapping point.
THEOREM SchedulerTypeCorrect == SchedulerSpec => []SchedulerTypeOK
<1>1. SchedulerInit => SchedulerTypeOK
  BY SchedulerAssumption DEF SchedulerInit, SchedulerTypeOK, SchedulerPcs, EventFates
<1> QED BY <1>1, SchedulerTypeStep, PTL DEF SchedulerSpec

-----------------------------------------------------------------------------
(* The list, the ids and the sleep *)

\* Only listed events are in the list, a taken one is not, and a timed_wait stands for one of them.
ListInv ==
  /\ \A e \in eventList : eventFate[e] = "listed"
  /\ schedulerPc = "hand" => held \in Events /\ eventFate[held] = "taken"
  /\ schedulerState # "TERMINATED" =>
       /\ schedulerPc = "timed"    => \E e \in eventList : cycle[e] = deadline
       /\ schedulerPc = "timedOut" => \E e \in eventList : cycle[e] <= now

\* What addEvent does to the list and to the records of the events.
LEMMA AddEventEffect ==
  ASSUME SchedulerTypeOK, ListInv, NEW c \in Callers, NEW e \in Events,
         NEW delay \in Delays, AddEvent(c, e, delay)
  PROVE  /\ e \notin eventList
         /\ eventList' = eventList \cup {e} \/ eventList' = eventList
         /\ \A f \in eventList : cycle'[f] = cycle[f] /\ eventId'[f] = eventId[f]
         /\ \A f \in eventList' : eventFate'[f] = "listed"
         /\ \A f \in Events : eventFate[f] # "new" => eventFate'[f] = eventFate[f]
         /\ UNCHANGED <<schedulerState, schedulerPc, deadline, held, now>>
  BY DEF SchedulerTypeOK, ListInv, AddEvent

LEMMA ListStep == SchedulerTypeOK /\ ListInv /\ [SchedulerNext]_schedulerVars => ListInv'
<1> SUFFICES ASSUME SchedulerTypeOK, ListInv, [SchedulerNext]_schedulerVars PROVE ListInv'
  OBVIOUS
<1>1. ASSUME NEW c \in Callers, NEW e \in Events, NEW delay \in Delays,
             AddEvent(c, e, delay)
      PROVE  ListInv'
  BY <1>1, AddEventEffect DEF ListInv
<1>2. ASSUME NEW c \in Callers, NotifyScheduler(c) \/ Return(c) PROVE ListInv'
  BY <1>2 DEF NotifyScheduler, Return, ListInv
<1>3. ASSUME NEW e \in Events, StopEvent(e) \/ Consume(e) PROVE ListInv'
  BY <1>3 DEF StopEvent, Consume, ListInv, SchedulerTypeOK
<1>4. CASE WakeByItself \/ End \/ PopNothing \/ WakeTerminated
  BY <1>4 DEF WakeByItself, End, PopNothing, WakeTerminated, ListInv
<1>5. CASE TimeOut
  BY <1>5 DEF TimeOut, ListInv, SchedulerTypeOK
<1>6. CASE Wait
  BY <1>6 DEF Wait, Tops, ListInv
<1>7. ASSUME NEW e \in Events, PopTop(e) PROVE ListInv'
  BY <1>7 DEF PopTop, ListInv, SchedulerTypeOK
<1>8. CASE Hand \/ StopScheduler
  BY <1>8 DEF Hand, StopScheduler, ListInv, SchedulerTypeOK
<1>11. CASE Shutdown
  BY <1>11 DEF Shutdown, ListInv, SchedulerTypeOK
<1>9. CASE Tick
  BY <1>9 DEF Tick, ListInv, SchedulerTypeOK
<1>10. CASE UNCHANGED schedulerVars
  BY <1>10 DEF schedulerVars, ListInv
<1> QED
  BY <1>1, <1>2, <1>3, <1>4, <1>5, <1>6, <1>7, <1>8, <1>9, <1>10, <1>11
  DEF SchedulerNext, SchedulerThread, LoopStep

LEMMA ListInvariant == SchedulerSpec => [](SchedulerTypeOK /\ ListInv)
<1>1. SchedulerInit => ListInv
  BY DEF SchedulerInit, ListInv
<1> QED BY <1>1, ListStep, SchedulerTypeCorrect, PTL DEF SchedulerSpec

\* When a timed_wait ends by time there is an event to take and it is due:
\* stopEvent leaving events in the list is what makes top() safe there.
THEOREM TimeoutsAreSound == SchedulerSpec => []TimeoutFindsDueEvent
<1>1. SchedulerTypeOK /\ ListInv => TimeoutFindsDueEvent
  BY DEF SchedulerTypeOK, ListInv, TimeoutFindsDueEvent, Tops
<1> QED BY <1>1, ListInvariant, PTL

LEMMA SleepStep ==
  SchedulerTypeOK /\ ListInv /\ NoOversleep /\ [SchedulerNext]_schedulerVars => NoOversleep'
<1> SUFFICES ASSUME SchedulerTypeOK, ListInv, NoOversleep, [SchedulerNext]_schedulerVars
             PROVE  NoOversleep'
  OBVIOUS
<1>1. ASSUME NEW c \in Callers, NEW e \in Events, NEW delay \in Delays,
             AddEvent(c, e, delay)
      PROVE  NoOversleep'
  <2>1. CASE c \in signallers'
    BY <2>1 DEF NoOversleep
  <2>2. CASE c \notin signallers' /\ schedulerState = "RUNNING"
    <3>1. PICK f \in eventList : cycle[f] <= DueAt(delay)
      <4>1. ~ \A f \in eventList : DueAt(delay) < cycle[f]
        BY <1>1, <2>2 DEF AddEvent
      <4>2. DueAt(delay) \in Nat /\ \A f \in eventList : cycle[f] \in Nat
        BY SchedulerAssumption DEF DueAt, SchedulerTypeOK
      <4> QED BY <4>1, <4>2
    <3>2. cycle'[e] = DueAt(delay)
      BY <1>1 DEF AddEvent, SchedulerTypeOK
    <3>6. DueAt(delay) \in Nat
      BY SchedulerAssumption DEF DueAt, SchedulerTypeOK
    <3>3. cycle[f] \in Nat /\ deadline \in Nat
      BY DEF SchedulerTypeOK
    <3>4. /\ signallers' = signallers /\ UNCHANGED <<schedulerPc, deadline>>
          /\ eventList' = eventList \cup {e}
          /\ \A g \in eventList : cycle'[g] = cycle[g]
      BY <1>1, <2>2, AddEventEffect DEF AddEvent
    <3>5. (\E g \in eventList' : cycle'[g] < deadline')
            => \E g \in eventList : cycle[g] < deadline
      BY <3>1, <3>2, <3>3, <3>4, <3>6
    <3> QED BY <3>1, <3>4, <3>5 DEF NoOversleep
  <2>3. CASE schedulerState # "RUNNING"
    BY <1>1, <2>3, AddEventEffect DEF NoOversleep, AddEvent
  <2> QED BY <1>1, <2>1, <2>2, <2>3 DEF AddEvent
<1>2. ASSUME NEW c \in Callers, NotifyScheduler(c) \/ Return(c) PROVE NoOversleep'
  BY <1>2 DEF NotifyScheduler, Return, NoOversleep
<1>3. ASSUME NEW e \in Events, StopEvent(e) \/ Consume(e) PROVE NoOversleep'
  BY <1>3 DEF StopEvent, Consume, NoOversleep
<1>4. CASE WakeByItself \/ End \/ TimeOut \/ PopNothing \/ WakeTerminated
  BY <1>4 DEF WakeByItself, End, TimeOut, PopNothing, WakeTerminated, NoOversleep
<1>5. CASE Wait
  BY <1>5 DEF Wait, Tops, NoOversleep, SchedulerTypeOK
<1>6. ASSUME NEW e \in Events, PopTop(e) PROVE NoOversleep'
  BY <1>6 DEF PopTop, NoOversleep
<1>7. CASE Hand \/ StopScheduler \/ Shutdown \/ Tick
  BY <1>7 DEF Hand, StopScheduler, Shutdown, Tick, NoOversleep
<1>8. CASE UNCHANGED schedulerVars
  BY <1>8 DEF schedulerVars, NoOversleep
<1> QED
  BY <1>1, <1>2, <1>3, <1>4, <1>5, <1>6, <1>7, <1>8 DEF SchedulerNext, SchedulerThread, LoopStep

\* The scheduler thread never sleeps past its earliest event without a signal
\* on its way, whatever the order of events, ties and threads.
THEOREM NeverOversleeps == SchedulerSpec => []NoOversleep
<1>1. SchedulerInit => NoOversleep
  BY DEF SchedulerInit, NoOversleep
<1> QED BY <1>1, SleepStep, ListInvariant, PTL DEF SchedulerSpec

LEMMA IdsStep ==
  SchedulerTypeOK /\ ListInv /\ IdsBelongToEvents /\ [SchedulerNext]_schedulerVars
    => IdsBelongToEvents'
<1> SUFFICES ASSUME SchedulerTypeOK, ListInv, IdsBelongToEvents, [SchedulerNext]_schedulerVars
             PROVE  IdsBelongToEvents'
  OBVIOUS
<1>1. ASSUME NEW c \in Callers, NEW e \in Events, NEW delay \in Delays,
             AddEvent(c, e, delay)
      PROVE  IdsBelongToEvents'
  <2>1. CASE schedulerState = "RUNNING"
    <3>1. NextEventId # 0
      BY SchedulerAssumption DEF NextEventId, SchedulerTypeOK
    <3>2. /\ eventId'[e] = NextEventId
          /\ eventIds' = eventIds \cup {NextEventId}
          /\ eventList' = eventList \cup {e}
      BY <1>1, <2>1 DEF AddEvent, SchedulerTypeOK
    <3> QED BY <1>1, <3>1, <3>2, AddEventEffect DEF IdsBelongToEvents
  <2>2. CASE schedulerState # "RUNNING"
    BY <1>1, <2>2 DEF AddEvent, IdsBelongToEvents
  <2> QED BY <2>1, <2>2
<1>2. ASSUME NEW c \in Callers, NotifyScheduler(c) \/ Return(c) PROVE IdsBelongToEvents'
  BY <1>2 DEF NotifyScheduler, Return, IdsBelongToEvents
<1>3. ASSUME NEW e \in Events, StopEvent(e) \/ Consume(e)
      PROVE  IdsBelongToEvents'
  BY <1>3 DEF StopEvent, Consume, IdsBelongToEvents
<1>4. CASE WakeByItself \/ End \/ TimeOut \/ PopNothing \/ WakeTerminated
  BY <1>4 DEF WakeByItself, End, TimeOut, PopNothing, WakeTerminated,
              IdsBelongToEvents
<1>5. CASE Wait
  BY <1>5 DEF Wait, IdsBelongToEvents
<1>6. ASSUME NEW e \in Events, PopTop(e) PROVE IdsBelongToEvents'
  BY <1>6 DEF PopTop, IdsBelongToEvents, Tops
<1>7. CASE Hand \/ StopScheduler \/ Shutdown \/ Tick
  BY <1>7 DEF Hand, StopScheduler, Shutdown, Tick, IdsBelongToEvents
<1>8. CASE UNCHANGED schedulerVars
  BY <1>8 DEF schedulerVars, IdsBelongToEvents
<1> QED
  BY <1>1, <1>2, <1>3, <1>4, <1>5, <1>6, <1>7, <1>8 DEF SchedulerNext, SchedulerThread, LoopStep

\* No id outlives its event, even once ids wrap around and are given twice.
THEOREM IdsNeverOutliveEvents == SchedulerSpec => []IdsBelongToEvents
<1>1. SchedulerInit => IdsBelongToEvents
  BY DEF SchedulerInit, IdsBelongToEvents
<1> QED BY <1>1, IdsStep, ListInvariant, PTL DEF SchedulerSpec

-----------------------------------------------------------------------------
(* Stopping *)

\* An id is given in the same critical section that lists the event, so only
\* a new or a refused event has none; and only events that got one are known.
IdentityInv ==
  /\ \A e \in Events : /\ eventFate[e] = "listed" => e \in eventList
                       /\ eventFate[e] \in {"new", "refused"} => eventId[e] = 0
                       /\ eventFate[e] \notin {"new", "refused"} => eventId[e] # 0
  /\ \A c \in Callers : returning[c] # NoEvent => eventFate[returning[c]] # "new"
  /\ \A e \in known : eventFate[e] \notin {"new", "refused"}
  /\ stopped \subseteq known

\* The id of an event decides for it while no other event was given the same:
\* a listed event is active exactly as long as stopEvent was not called for it.
DecisionInv ==
  \A e \in Events : UniqueId(e) =>
    /\ e \in eventList => (Active(e) <=> e \notin stopped)
    /\ e \in stopped => eventFate[e] \in {"listed", "deleted", "dropped"}
    /\ eventFate[e] = "deleted" => e \in stopped

StopInv == IdentityInv /\ DecisionInv

\* What addEvent does to the identity of the events.
LEMMA AddEventIdentity ==
  ASSUME SchedulerTypeOK, ListInv, IdentityInv, NEW c \in Callers, NEW e \in Events,
         NEW delay \in Delays, AddEvent(c, e, delay)
  PROVE  /\ \A f \in Events \ {e} : eventId'[f] = eventId[f] /\ eventFate'[f] = eventFate[f]
         /\ e \notin known /\ eventFate'[e] # "new"
         /\ \/ /\ eventFate'[e] = "listed" /\ eventList' = eventList \cup {e}
               /\ eventId'[e] = NextEventId /\ NextEventId # 0
               /\ eventIds' = eventIds \cup {NextEventId}
            \/ /\ eventFate'[e] = "refused" /\ eventId'[e] = 0
               /\ UNCHANGED <<eventList, eventIds>>
         /\ eventFate[e] = "new"
         /\ UNCHANGED <<stopped, known>>
<1>1. NextEventId # 0
  BY SchedulerAssumption DEF NextEventId, SchedulerTypeOK
<1>2. /\ eventFate[e] = "new" /\ eventId[e] = 0 /\ e \notin known
  BY DEF AddEvent, IdentityInv
<1>3. CASE schedulerState = "RUNNING"
  BY <1>1, <1>2, <1>3 DEF AddEvent, SchedulerTypeOK
<1>4. CASE schedulerState # "RUNNING"
  BY <1>2, <1>4 DEF AddEvent, SchedulerTypeOK
<1> QED BY <1>3, <1>4

LEMMA IdentityStep ==
  SchedulerTypeOK /\ ListInv /\ IdentityInv /\ [SchedulerNext]_schedulerVars => IdentityInv'
<1> SUFFICES ASSUME SchedulerTypeOK, ListInv, IdentityInv, [SchedulerNext]_schedulerVars
             PROVE  IdentityInv'
  OBVIOUS
<1>1. ASSUME NEW c \in Callers, NEW e \in Events, NEW delay \in Delays,
             AddEvent(c, e, delay)
      PROVE  IdentityInv'
  <2>1. returning' = [returning EXCEPT ![c] = e]
    BY <1>1 DEF AddEvent
  <2>2. \A d \in Callers : returning'[d] # NoEvent => eventFate'[returning'[d]] # "new"
    BY <1>1, <2>1, AddEventIdentity DEF IdentityInv, SchedulerTypeOK
  <2> QED BY <1>1, <2>2, AddEventIdentity DEF IdentityInv, SchedulerTypeOK
<1>2. ASSUME NEW c \in Callers, NotifyScheduler(c) \/ Return(c) PROVE IdentityInv'
  BY <1>2, SchedulerAssumption DEF NotifyScheduler, Return, Freed, IdentityInv, SchedulerTypeOK
<1>3. ASSUME NEW e \in Events, StopEvent(e) \/ Consume(e) PROVE IdentityInv'
  BY <1>3 DEF StopEvent, Consume, IdentityInv, SchedulerTypeOK
<1>4. CASE WakeByItself \/ End \/ TimeOut \/ PopNothing \/ WakeTerminated \/ Wait
  BY <1>4 DEF WakeByItself, End, TimeOut, PopNothing, WakeTerminated, Wait,
              IdentityInv
<1>5. ASSUME NEW e \in Events, PopTop(e) PROVE IdentityInv'
  <2>1. \/ eventFate' = [eventFate EXCEPT ![e] = "taken"]
        \/ eventFate' = [eventFate EXCEPT ![e] = "deleted"]
    BY <1>5 DEF PopTop
  <2>2. /\ eventList' = eventList \ {e}
        /\ UNCHANGED <<eventId, returning, known, stopped>>
        /\ eventFate[e] = "listed"
    BY <1>5 DEF PopTop, Tops, ListInv
  <2> QED BY <2>1, <2>2, SchedulerAssumption DEF IdentityInv, SchedulerTypeOK
<1>6. CASE Hand
  BY <1>6, SchedulerAssumption DEF Hand, IdentityInv, SchedulerTypeOK, ListInv
<1>7. CASE Shutdown
  BY <1>7, SchedulerAssumption DEF Shutdown, IdentityInv, SchedulerTypeOK, ListInv
<1>8. CASE StopScheduler \/ Tick \/ UNCHANGED schedulerVars
  BY <1>8 DEF StopScheduler, Tick, schedulerVars, IdentityInv
<1> QED
  BY <1>1, <1>2, <1>3, <1>4, <1>5, <1>6, <1>7, <1>8 DEF SchedulerNext, SchedulerThread, LoopStep

LEMMA DecisionStep ==
  /\ SchedulerTypeOK /\ ListInv /\ IdsBelongToEvents /\ IdentityInv /\ DecisionInv
  /\ [SchedulerNext]_schedulerVars
  => DecisionInv'
<1> SUFFICES ASSUME SchedulerTypeOK, ListInv, IdsBelongToEvents, IdentityInv, DecisionInv,
                    [SchedulerNext]_schedulerVars
             PROVE  DecisionInv'
  OBVIOUS
<1>1. ASSUME NEW c \in Callers, NEW e \in Events, NEW delay \in Delays,
             AddEvent(c, e, delay)
      PROVE  DecisionInv'
  <2> SUFFICES ASSUME NEW f \in Events, UniqueId(f)'
               PROVE  /\ f \in eventList' => (Active(f)' <=> f \notin stopped')
                      /\ f \in stopped' => eventFate'[f] \in {"listed", "deleted", "dropped"}
                      /\ eventFate'[f] = "deleted" => f \in stopped'
    BY DEF DecisionInv
  <2>1. CASE f = e
    <3>1. e \notin stopped' /\ eventFate'[e] # "deleted"
      BY <1>1, AddEventIdentity DEF IdentityInv
    <3>2. e \in eventList' => Active(e)'
      BY <1>1, AddEventIdentity, AddEventEffect DEF IdentityInv
    <3> QED BY <2>1, <3>1, <3>2
  <2>2. CASE f # e
    <3>1. eventId'[f] = eventId[f] /\ eventFate'[f] = eventFate[f] /\ stopped' = stopped
      BY <1>1, <2>2, AddEventIdentity
    <3>2. CASE eventId[f] = 0
      <4>1. f \notin stopped /\ eventFate[f] \in {"new", "refused"}
        BY <3>2 DEF IdentityInv
      <4>2. f \notin eventList'
        BY <1>1, <3>1, <4>1, AddEventEffect
      <4> QED BY <3>1, <4>1, <4>2
    <3>3. CASE eventId[f] # 0
      <4>1. UniqueId(f)
        <5> SUFFICES ASSUME NEW g \in Events \ {f} PROVE eventId[g] # eventId[f]
          BY DEF UniqueId
        <5>1. CASE g = e
          <6>1. eventId[e] = 0
            BY <1>1, AddEventIdentity DEF IdentityInv
          <6> QED BY <3>3, <5>1, <6>1
        <5>2. CASE g # e
          BY <1>1, <3>1, <5>2, AddEventIdentity DEF UniqueId
        <5> QED BY <5>1, <5>2
      <4>2. Active(f)' <=> Active(f)
        BY <1>1, <2>2, <3>1, AddEventIdentity DEF UniqueId
      <4>3. f \in eventList' <=> f \in eventList
        BY <1>1, <2>2, AddEventIdentity
      <4> QED BY <3>1, <4>1, <4>2, <4>3 DEF DecisionInv
    <3> QED BY <3>2, <3>3
  <2> QED BY <2>1, <2>2
<1>2. ASSUME NEW c \in Callers, NotifyScheduler(c) \/ Return(c) PROVE DecisionInv'
  BY <1>2 DEF NotifyScheduler, Return, DecisionInv, UniqueId
<1>3. ASSUME NEW e \in Events, StopEvent(e) PROVE DecisionInv'
  <2>1. /\ eventIds' = eventIds \ {eventId[e]} /\ stopped' = stopped \cup {e}
        /\ UNCHANGED <<eventList, eventId, eventFate>>
    BY <1>3 DEF StopEvent
  <2>2. UniqueId(e) => e \in eventList /\ eventFate[e] = "listed"
    BY <1>3 DEF StopEvent, IdsBelongToEvents, UniqueId, ListInv, SchedulerTypeOK
  <2> QED BY <2>1, <2>2 DEF DecisionInv, UniqueId
<1>4. CASE WakeByItself \/ End \/ TimeOut \/ PopNothing \/ WakeTerminated \/ Wait
  BY <1>4 DEF WakeByItself, End, TimeOut, PopNothing, WakeTerminated, Wait,
              DecisionInv, UniqueId
<1>5. ASSUME NEW e \in Events, PopTop(e) PROVE DecisionInv'
  <2>1. e \in eventList /\ eventList' = eventList \ {e} /\ UNCHANGED <<eventId, stopped>>
    BY <1>5 DEF PopTop, Tops
  <2>2. CASE Active(e)
    <3>1. eventIds' = eventIds \ {eventId[e]} /\ eventFate' = [eventFate EXCEPT ![e] = "taken"]
      BY <1>5, <2>2 DEF PopTop
    <3> QED BY <2>1, <2>2, <3>1 DEF DecisionInv, UniqueId, SchedulerTypeOK
  <2>3. CASE ~Active(e)
    <3>1. eventIds' = eventIds /\ eventFate' = [eventFate EXCEPT ![e] = "deleted"]
      BY <1>5, <2>3 DEF PopTop
    <3> QED BY <2>1, <2>3, <3>1 DEF DecisionInv, UniqueId, SchedulerTypeOK
  <2> QED BY <2>2, <2>3
<1>6. CASE Hand
  BY <1>6 DEF Hand, DecisionInv, UniqueId, SchedulerTypeOK, ListInv
<1>7. CASE Shutdown
  BY <1>7 DEF Shutdown, DecisionInv, UniqueId, SchedulerTypeOK, ListInv
<1>8. ASSUME NEW e \in Events, Consume(e) PROVE DecisionInv'
  BY <1>8 DEF Consume, DecisionInv, UniqueId, SchedulerTypeOK
<1>9. CASE StopScheduler \/ Tick \/ UNCHANGED schedulerVars
  BY <1>9 DEF StopScheduler, Tick, schedulerVars, DecisionInv, UniqueId
<1> QED
  BY <1>1, <1>2, <1>3, <1>4, <1>5, <1>6, <1>7, <1>8, <1>9
  DEF SchedulerNext, SchedulerThread, LoopStep

LEMMA StopInvariant == SchedulerSpec => []StopInv
<1>1. SchedulerInit => StopInv
  BY DEF SchedulerInit, StopInv, IdentityInv, DecisionInv
<1>2. SchedulerTypeOK /\ ListInv /\ IdsBelongToEvents /\ StopInv /\ [SchedulerNext]_schedulerVars
        => StopInv'
  BY IdentityStep, DecisionStep DEF StopInv
<1> QED BY <1>1, <1>2, ListInvariant, IdsNeverOutliveEvents, PTL DEF SchedulerSpec

\* stopEvent keeps its word for every event whose id was not given twice: what
\* was stopped never reaches the dispatcher, what was not is never thrown away
\* as stopped - whichever thread is on its way out of addEvent meanwhile.
THEOREM StoppingIsExact == SchedulerSpec => []StopIsExact
<1>1. StopInv => StopIsExact
  BY DEF StopInv, DecisionInv, StopIsExact
<1> QED BY <1>1, StopInvariant, PTL

-----------------------------------------------------------------------------
(***************************************************************************)
(* The two together.  Every step of TaskEngine is a step of the dispatcher *)
(* or none, and one of the scheduler or none, so what is proved of each    *)
(* holds of both as they run.  The refinement needs one more invariant,    *)
(* Coupling, which ties the two records of an event to each other.         *)
(***************************************************************************)

\* What a step of the two is for each of them.
LEMMA StepOfBoth ==
  ASSUME ListInv, EngineNext
  PROVE  [Next]_vars /\ [SchedulerNext]_schedulerVars
<1>1. ASSUME NEW t \in Tasks, Post(t)
      PROVE  Next /\ UNCHANGED schedulerVars
  BY <1>1 DEF Post, Next
<1>2. ASSUME NEW e \in Events, NEW delay \in Delays, NetAddEvent(e, delay)
      PROVE  SchedulerNext /\ UNCHANGED vars
  BY <1>2 DEF NetAddEvent, SchedulerNext
<1>3. ASSUME NEW e \in Events, NEW delay \in Delays, RunAddEvent(e, delay)
      PROVE  SchedulerNext /\ UNCHANGED vars
  BY <1>3, SchedulerAssumption DEF RunAddEvent, SchedulerNext
<1>4. ASSUME NEW e \in Events, RunStopEvent(e)
      PROVE  SchedulerNext /\ UNCHANGED vars
  BY <1>4 DEF RunStopEvent, SchedulerNext
<1>5. CASE DispatcherNotify
  BY <1>5 DEF DispatcherNotify, Next
<1>6. CASE SchedulerNotify \/ ClockTick
  BY <1>6 DEF SchedulerNotify, ClockTick, SchedulerNext
<1>7. CASE EitherWakesByItself
  BY <1>7 DEF EitherWakesByItself, Next, SchedulerNext
<1>8. CASE HandOver
  <2>1. held \in Tasks
    BY <1>8, TaskEngineAssumption DEF HandOver, Hand, ListInv
  <2>2. Next
    BY <1>8, <2>1, TaskEngineAssumption DEF HandOver, Next
  <2> QED BY <1>8, <2>2 DEF HandOver, SchedulerNext, SchedulerThread
<1>9. CASE SchedulerStep
  BY <1>9 DEF SchedulerStep, SchedulerNext, SchedulerThread
<1>10. CASE DispatcherStep
  BY <1>10 DEF DispatcherStep, Next, DispatcherThread
<1>11. CASE EndOfTask
  <2>1. Next
    BY <1>11 DEF EndOfTask, Next, DispatcherThread
  <2>2. [SchedulerNext]_schedulerVars
    BY <1>11 DEF EndOfTask, Delete, SchedulerNext
  <2> QED BY <2>1, <2>2
<1>12. CASE CloseScheduler \/ ShutdownScheduler
  BY <1>12 DEF CloseScheduler, ShutdownScheduler, SchedulerNext
<1>13. CASE CloseDispatcher \/ ShutdownDispatcher
  BY <1>13 DEF CloseDispatcher, ShutdownDispatcher, Next, DispatcherThread
<1> QED
  BY <1>1, <1>2, <1>3, <1>4, <1>5, <1>6, <1>7, <1>8, <1>9, <1>10, <1>11, <1>12, <1>13
  DEF EngineNext, DispatcherProgress

\* Together with the dispatcher the scheduler still behaves as Scheduler says,
\* and the dispatcher as Dispatcher says: the invariants of both carry over.
LEMMA EngineRunsBoth == EngineSpec => Spec /\ SchedulerSpec
<1>1. EngineInit => Init /\ SchedulerInit
  BY DEF EngineInit
<1>2. SchedulerTypeOK /\ ListInv /\ [EngineNext]_engineVars
        => [Next]_vars /\ [SchedulerNext]_schedulerVars
  BY StepOfBoth DEF engineVars
<1>3. SchedulerInit => SchedulerTypeOK /\ ListInv
  BY SchedulerAssumption
  DEF SchedulerInit, SchedulerTypeOK, SchedulerPcs, EventFates, ListInv
<1>4. SchedulerTypeOK /\ ListInv /\ [SchedulerNext]_schedulerVars
        => SchedulerTypeOK' /\ ListInv'
  BY SchedulerTypeStep, ListStep
<1> QED BY <1>1, <1>2, <1>3, <1>4, PTL DEF EngineSpec, Spec, SchedulerSpec

\* In the server as it runs: a dispatcher that waits has its wakeup coming and
\* the scheduler thread its signal, tasks are taken in the order accepted, and
\* stopEvent keeps its word.
THEOREM EngineIsSafe ==
  EngineSpec => [](NoLostWakeup /\ NoOversleep /\ OrdinaryInOrder /\ StopIsExact)
BY EngineRunsBoth, WakeupNeverLost, NeverOversleeps, OrdinaryTasksInOrder,
   StoppingIsExact, PTL

-----------------------------------------------------------------------------
(* The two records of an event *)

\* The dispatcher has seen an event iff the scheduler handed it over, then no
\* expiration is set; the scheduler calls it gone once the dispatcher has run
\* it.  A scheduler that runs has a dispatcher that runs.
Coupling ==
  /\ \A e \in Events : /\ fate[e] = "new" <=> eventFate[e] \notin {"handed", "gone"}
                       /\ eventFate[e] = "gone" => fate[e] = "done"
                       /\ fate[e] # "new" => e \notin expires
  /\ schedulerState = "RUNNING" => threadState = "RUNNING"
  /\ pc = "sendAll" => current \in Tasks /\ fate[current] = "done"

\* The invariants of the two that the coupling rests on.
BothInv == TypeOK /\ OrderInv /\ SchedulerTypeOK /\ ListInv

\* The front of the list is taken, or the task in hand is done; no other task
\* changes.
MovesOn(t) ==
  /\ \/ fate[t] = "queued" /\ fate'[t] = "taken"
     \/ fate[t] = "taken" /\ fate'[t] = "done"
  /\ \A u \in Tasks \ {t} : fate'[u] = fate[u]

\* What a step of the dispatcher in which the scheduler has no part may do.
DispatcherEffect ==
  /\ \/ \A e \in Events : fate'[e] = fate[e]
     \/ \E t \in Tasks : MovesOn(t)
  /\ \A t \in Tasks : fate[t] = "done" => fate'[t] = "done"
  /\ expires' = expires
  /\ schedulerState = "RUNNING" => threadState' = threadState
  /\ pc' = "sendAll" => /\ current' = current
                        /\ \/ pc = "sendAll"
                           \/ current \in Tasks /\ fate'[current] = "done"

LEMMA EnqueueOther ==
  ASSUME TypeOK, NEW t \in Tasks \ Events, Enqueue(t)
  PROVE  /\ \A e \in Events : fate'[e] = fate[e]
         /\ \A u \in Tasks : fate[u] = "done" => fate'[u] = "done"
<1>1. fate[t] = "new" /\ \A u \in Tasks \ {t} : fate'[u] = fate[u]
  BY DEF TypeOK, Enqueue
<1> QED BY <1>1, TaskEngineAssumption

LEMMA TakeMovesOn ==
  ASSUME TypeOK, QueueOrder, taskList # <<>>,
         fate' = [fate EXCEPT ![Head(taskList)] = "taken"]
  PROVE  Head(taskList) \in Tasks /\ MovesOn(Head(taskList))
<1>1. taskList \in Seq(Tasks) /\ fate \in [Tasks -> Fates]
  BY DEF TypeOK
<1>2. Head(taskList) \in Tasks /\ 1 \in DOMAIN taskList /\ taskList[1] = Head(taskList)
  BY <1>1, HeadTail, Positions
<1>3. fate[Head(taskList)] = "queued"
  BY <1>2 DEF QueueOrder
<1> QED BY <1>1, <1>2, <1>3 DEF MovesOn

LEMMA DoneMovesOn ==
  ASSUME TypeOK, HandOrder, fate' = [fate EXCEPT ![current] = "done"],
         pc \in {"run", "stopping", "flush"}
  PROVE  current \in Tasks /\ MovesOn(current) /\ fate'[current] = "done"
<1>1. current \in Tasks /\ fate[current] = "taken" /\ fate \in [Tasks -> Fates]
  BY DEF TypeOK, HandOrder, FlushPcs
<1> QED BY <1>1 DEF MovesOn

\* The steps of the dispatcher beside which the scheduler stands still.
DispatcherAlone ==
  /\ \/ \E t \in Tasks : Post(t)
     \/ DispatcherNotify \/ SpuriousWakeup
     \/ DispatcherStep \/ CloseDispatcher \/ ShutdownDispatcher
  /\ UNCHANGED schedulerVars

LEMMA DispatcherAloneEffect ==
  ASSUME TypeOK, OrderInv, DispatcherAlone
  PROVE  DispatcherEffect
<1> USE DEF DispatcherEffect
<1>0. QueueOrder /\ HandOrder /\ Events \subseteq Tasks
  BY TaskEngineAssumption DEF OrderInv
<1>1. ASSUME NEW t \in Tasks, Post(t) PROVE DispatcherEffect
  <2>1. /\ t \in Tasks \ Events /\ Enqueue(t)
        /\ UNCHANGED <<expires, threadState, pc, current>>
    BY <1>1 DEF Post, AddTask
  <2>2. /\ \A e \in Events : fate'[e] = fate[e]
        /\ \A u \in Tasks : fate[u] = "done" => fate'[u] = "done"
    BY <2>1, EnqueueOther
  <2> QED BY <2>1, <2>2
<1>2. CASE DispatcherNotify \/ SpuriousWakeup
  <2>1. /\ UNCHANGED <<fate, expires, threadState, current>>
        /\ pc' = "sendAll" => pc = "sendAll"
    BY <1>2 DEF DispatcherNotify, Notify, SpuriousWakeup
  <2> QED BY <2>1
<1>3. CASE Begin \/ BeginClosing \/ LockAgain \/ FlushNext
  BY <1>3 DEF Begin, BeginClosing, LockAgain, FlushNext
<1>4. CASE ShutdownDispatcher
  BY <1>4 DEF ShutdownDispatcher, BeginExit
<1>5. ASSUME NEW t \in Tasks \ Events, Spawn(t) \/ PostExit(t) \/ SendAllReleases(t)
      PROVE  DispatcherEffect
  <2>1. /\ Enqueue(t) /\ UNCHANGED <<expires, threadState, current>>
        /\ pc' = "sendAll" => pc = "sendAll"
    BY <1>5 DEF Spawn, PostExit, SendAllReleases
  <2>2. /\ \A e \in Events : fate'[e] = fate[e]
        /\ \A u \in Tasks : fate[u] = "done" => fate'[u] = "done"
    BY <2>1, EnqueueOther
  <2> QED BY <2>1, <2>2
<1>6. ASSUME NEW t \in Tasks, MovesOn(t)
      PROVE  \A u \in Tasks : fate[u] = "done" => fate'[u] = "done"
  BY <1>6 DEF MovesOn
<1>7. CASE TakeOrWait \/ AfterWait \/ FlushTake
  <2>1. CASE fate' = fate
    BY <1>7, <2>1 DEF TakeOrWait, AfterWait, FlushTake, PopFront
  <2>2. CASE taskList # <<>> /\ fate' = [fate EXCEPT ![Head(taskList)] = "taken"]
    <3>1. Head(taskList) \in Tasks /\ MovesOn(Head(taskList))
      BY <1>0, <2>2, TakeMovesOn
    <3>2. UNCHANGED <<expires, threadState>> /\ pc' # "sendAll"
      BY <1>7 DEF TakeOrWait, AfterWait, FlushTake, PopFront
    <3> QED BY <1>6, <3>1, <3>2
  <2> QED BY <1>7, <2>1, <2>2 DEF TakeOrWait, AfterWait, FlushTake, PopFront
<1>8. CASE EndTask \/ CloseDispatcher \/ Exit
  <2>1. /\ fate' = [fate EXCEPT ![current] = "done"] /\ pc \in {"run", "stopping", "flush"}
        /\ UNCHANGED <<expires, current>>
        /\ schedulerState = "RUNNING" => threadState' = threadState
    BY <1>8 DEF EndTask, CloseDispatcher, StopOrder, Stop, Exit
  <2>2. current \in Tasks /\ MovesOn(current) /\ fate'[current] = "done"
    BY <1>0, <2>1, DoneMovesOn
  <2> QED BY <1>6, <2>1, <2>2
<1> QED
  BY <1>1, <1>2, <1>3, <1>4, <1>5, <1>7, <1>8 DEF DispatcherAlone, DispatcherStep

\* What the deletion of a task after it ran may do: the scheduler's record of
\* an event becomes "gone", and then the event is done.
EndEffect ==
  \E t \in Tasks :
    /\ \A u \in Tasks \ {t} : fate'[u] = fate[u]
    /\ t \in Events =>
         /\ fate'[t] = "done" /\ fate[t] \in {"taken", "done"}
         /\ eventFate[t] = "handed" /\ eventFate' = [eventFate EXCEPT ![t] = "gone"]
    /\ t \notin Events => eventFate' = eventFate
    /\ expires' = expires /\ threadState' = threadState /\ pc' # "sendAll"
    /\ UNCHANGED <<schedulerState, stopped>>

LEMMA EndOfTaskEffect ==
  ASSUME TypeOK, OrderInv, Coupling, EndOfTask
  PROVE  EndEffect
<1>0. HandOrder /\ fate \in [Tasks -> Fates]
  BY DEF OrderInv, TypeOK
<1>1. CASE EndFrame /\ Delete(current)
  BY <1>1 DEF EndFrame, Delete, Consume, EndEffect, Coupling, schedulerVars
<1>2. CASE Expire /\ Delete(current)
  <2>1. current \in Tasks /\ fate[current] = "taken" /\ current \notin Events
    BY <1>0, <1>2 DEF Expire, HandOrder, Coupling
  <2> QED BY <1>0, <1>2, <2>1 DEF Expire, Delete, EndEffect, schedulerVars
<1>3. CASE FlushRun /\ Delete(flushed)
  <2>1. flushed \in Tasks /\ fate[flushed] \in {"taken", "done"}
    BY <1>0, <1>3 DEF FlushRun, HandOrder, FlushPcs
  <2> QED BY <1>0, <1>3, <2>1 DEF FlushRun, Delete, Consume, EndEffect, schedulerVars
<1> QED BY <1>1, <1>2, <1>3 DEF EndOfTask

\* The steps of the scheduler beside which the dispatcher stands still.
SchedulerAlone ==
  /\ \/ \E e \in Events, delay \in Delays :
          NetAddEvent(e, delay) \/ RunAddEvent(e, delay)
     \/ \E e \in Events : RunStopEvent(e)
     \/ SchedulerNotify \/ ClockTick \/ WakeByItself
     \/ SchedulerStep \/ CloseScheduler \/ ShutdownScheduler
  /\ UNCHANGED vars

LEMMA StepKinds ==
  EngineNext => DispatcherAlone \/ SchedulerAlone \/ EndOfTask \/ HandOver
<1> SUFFICES ASSUME EngineNext
             PROVE  DispatcherAlone \/ SchedulerAlone \/ EndOfTask \/ HandOver
  OBVIOUS
<1>1. ASSUME NEW t \in Tasks, Post(t) PROVE DispatcherAlone
  BY <1>1 DEF Post, DispatcherAlone
<1>2. ASSUME DispatcherNotify \/ DispatcherStep \/ CloseDispatcher \/ ShutdownDispatcher
      PROVE  DispatcherAlone
  BY <1>2 DEF DispatcherNotify, DispatcherStep, CloseDispatcher, ShutdownDispatcher,
              DispatcherAlone
<1>3. ASSUME NEW e \in Events, NEW delay \in Delays,
             NetAddEvent(e, delay) \/ RunAddEvent(e, delay)
      PROVE  SchedulerAlone
  <2>1. UNCHANGED vars
    BY <1>3 DEF NetAddEvent, RunAddEvent
  <2> QED BY <1>3, <2>1 DEF SchedulerAlone
<1>4. ASSUME NEW e \in Events, RunStopEvent(e) PROVE SchedulerAlone
  <2>1. UNCHANGED vars
    BY <1>4 DEF RunStopEvent
  <2> QED BY <1>4, <2>1 DEF SchedulerAlone
<1>5. ASSUME SchedulerNotify \/ ClockTick \/ SchedulerStep \/ CloseScheduler
               \/ ShutdownScheduler
      PROVE  SchedulerAlone
  <2>1. UNCHANGED vars
    BY <1>5 DEF SchedulerNotify, ClockTick, SchedulerStep, CloseScheduler, ShutdownScheduler
  <2> QED BY <1>5, <2>1 DEF SchedulerAlone
<1>6. ASSUME EitherWakesByItself PROVE DispatcherAlone \/ SchedulerAlone
  <2>1. \/ SpuriousWakeup /\ UNCHANGED schedulerVars
        \/ WakeByItself /\ UNCHANGED vars
    BY <1>6 DEF EitherWakesByItself
  <2> QED BY <2>1 DEF DispatcherAlone, SchedulerAlone
<1> QED
  BY <1>1, <1>2, <1>3, <1>4, <1>5, <1>6 DEF EngineNext, DispatcherProgress

LEMMA CouplingStep ==
  ASSUME TypeOK, OrderInv, SchedulerTypeOK, ListInv, Coupling, [EngineNext]_engineVars
  PROVE  Coupling'
<1>0. /\ Events \subseteq Tasks /\ fate \in [Tasks -> Fates]
      /\ eventFate \in [Events -> EventFates]
  BY TaskEngineAssumption DEF TypeOK, SchedulerTypeOK
<1>1. CASE DispatcherAlone
  <2>1. DispatcherEffect /\ UNCHANGED <<eventFate, schedulerState>>
    BY <1>1, DispatcherAloneEffect DEF DispatcherAlone, schedulerVars
  <2>2. \A e \in Events : /\ fate[e] = "new" <=> fate'[e] = "new"
                          /\ fate[e] = "done" => fate'[e] = "done"
    BY <1>0, <2>1 DEF DispatcherEffect, MovesOn
  <2>3. pc' = "sendAll" => current' \in Tasks /\ fate'[current'] = "done"
    BY <2>1 DEF DispatcherEffect, Coupling
  <2> QED BY <2>1, <2>2, <2>3 DEF Coupling, DispatcherEffect
<1>2. CASE EndOfTask
  <2>1. EndEffect
    BY <1>2, EndOfTaskEffect
  <2> QED BY <1>0, <2>1 DEF EndEffect, Coupling
<1>3. CASE HandOver
  <2>1. /\ held \in Events /\ eventFate' = [eventFate EXCEPT ![held] = "handed"]
        /\ schedulerState' = schedulerState
    BY <1>3 DEF HandOver, Hand, ListInv
  <2>2. /\ fate[held] = "new" /\ fate'[held] \in {"queued", "refused"}
        /\ \A u \in Tasks \ {held} : fate'[u] = fate[u]
    BY <1>0, <1>3, <2>1 DEF HandOver, AddTask, Enqueue
  <2>3. expires' = expires \ {held} /\ UNCHANGED <<threadState, pc, current>>
    BY <1>3 DEF HandOver, AddTask, UnsetExpiration
  <2> QED BY <1>0, <2>1, <2>2, <2>3 DEF Coupling
<1>4. ASSUME UNCHANGED vars,
             \A e \in Events : eventFate'[e] # eventFate[e] =>
               /\ eventFate[e] \notin {"handed", "gone"}
               /\ eventFate'[e] \notin {"handed", "gone"},
             schedulerState' = "RUNNING" => schedulerState = "RUNNING"
      PROVE  Coupling'
  BY <1>4 DEF Coupling, vars
<1>5. ASSUME NEW c \in Callers, NEW e \in Events, NEW delay \in Delays,
             AddEvent(c, e, delay), UNCHANGED vars
      PROVE  Coupling'
  BY <1>0, <1>4, <1>5 DEF AddEvent
<1>6. CASE SchedulerAlone
  <2>1. ASSUME NEW e \in Events, NEW delay \in Delays,
               NetAddEvent(e, delay) \/ RunAddEvent(e, delay)
        PROVE  Coupling'
    BY <1>5, <2>1, SchedulerAssumption DEF NetAddEvent, RunAddEvent
  <2>2. ASSUME NEW e \in Events, RunStopEvent(e) PROVE Coupling'
    BY <1>4, <2>2 DEF RunStopEvent, StopEvent
  <2>3. CASE SchedulerNotify \/ ClockTick
    BY <1>4, <2>3 DEF SchedulerNotify, NotifyScheduler, Return, ClockTick, Tick
  <2>4. CASE SchedulerStep
    <3>1. ASSUME NEW e \in Events, PopTop(e)
          PROVE  /\ eventFate[e] = "listed"
                 /\ \/ eventFate' = [eventFate EXCEPT ![e] = "taken"]
                    \/ eventFate' = [eventFate EXCEPT ![e] = "deleted"]
                 /\ schedulerState' = schedulerState
      BY <3>1 DEF PopTop, Tops, ListInv
    <3>2. CASE \E e \in Events : PopTop(e)
      BY <1>0, <1>4, <2>4, <3>1, <3>2 DEF SchedulerStep
    <3>3. CASE Wait \/ End \/ TimeOut \/ PopNothing \/ WakeTerminated
      BY <1>4, <2>4, <3>3
      DEF SchedulerStep, Wait, End, TimeOut, PopNothing, WakeTerminated
    <3> QED BY <2>4, <3>2, <3>3 DEF SchedulerStep, LoopStep
  <2>5. CASE CloseScheduler
    BY <1>4, <2>5 DEF CloseScheduler, StopScheduler
  <2>6. CASE ShutdownScheduler
    <3>1. \A e \in Events : eventFate'[e] # eventFate[e] =>
            eventFate[e] = "listed" /\ eventFate'[e] = "dropped"
      BY <2>6 DEF ShutdownScheduler, Shutdown, ListInv
    <3>2. UNCHANGED vars /\ schedulerState' = "TERMINATED"
      BY <2>6 DEF ShutdownScheduler, Shutdown
    <3> QED BY <1>4, <3>1, <3>2
  <2>7. CASE WakeByItself
    BY <1>4, <1>6, <2>7 DEF WakeByItself, SchedulerAlone
  <2> QED BY <1>6, <2>1, <2>2, <2>3, <2>4, <2>5, <2>6, <2>7 DEF SchedulerAlone
<1>7. CASE UNCHANGED engineVars
  BY <1>7 DEF engineVars, vars, schedulerVars, Coupling
<1> QED BY <1>1, <1>2, <1>3, <1>6, <1>7, StepKinds

\* The ids are not reused: no two events were given the same.
IdsDiffer ==
  \A e, f \in Events : e # f /\ eventId[e] = eventId[f] => eventId[e] = 0

EngineInv == /\ TypeOK /\ OrderInv
             /\ SchedulerTypeOK /\ ListInv /\ IdsBelongToEvents /\ StopInv
             /\ Coupling

LEMMA EngineInvariant == EngineSpec => []EngineInv
<1>1. EngineInit => Coupling
  BY TaskEngineAssumption DEF EngineInit, Init, SchedulerInit, Coupling
<1>2. /\ TypeOK /\ OrderInv /\ SchedulerTypeOK /\ ListInv
      /\ Coupling /\ [EngineNext]_engineVars
      => Coupling'
  BY CouplingStep
<1>3. TypeOK /\ OrderInv /\ SchedulerTypeOK /\ ListInv /\ IdsBelongToEvents /\ StopInv
        /\ Coupling => EngineInv
  BY DEF EngineInv
<1> QED
  BY <1>1, <1>2, <1>3, EngineRunsBoth, TypeCorrect, OrderInvariant, ListInvariant,
     IdsNeverOutliveEvents, StopInvariant, PTL DEF EngineSpec

-----------------------------------------------------------------------------
(* The refinement *)

\* An event whose two records stay as they are keeps its timer.
LEMMA SameTimer ==
  ASSUME NEW e \in Events, eventFate'[e] = eventFate[e], fate'[e] = fate[e],
         e \in stopped' <=> e \in stopped
  PROVE  TimerOf(e)' = TimerOf(e)
BY DEF TimerOf, HandedTimer

\* One timer moves: every other keeps its state, and the service its own.
LEMMA MoveOne ==
  ASSUME NEW e \in Events, NEW from, NEW to, TimerOf(e) = from, TimerOf(e)' = to,
         \A f \in Events \ {e} : TimerOf(f)' = TimerOf(f),
         schedulerState' = schedulerState
  PROVE  Timers!Move(e, from, to)
BY DEF Timers!Move

\* None moves.
LEMMA MoveNone ==
  ASSUME \A f \in Events : TimerOf(f)' = TimerOf(f), schedulerState' = schedulerState
  PROVE  UNCHANGED Timers!vars
BY DEF Timers!vars

\* Some are lost, and the service is closing.
LEMMA LoseSome ==
  ASSUME NEW L \in SUBSET Events, schedulerState' # "RUNNING",
         \A e \in L : TimerOf(e) \in {"armed", "due"} /\ TimerOf(e)' = "lost",
         \A f \in Events \ L : TimerOf(f)' = TimerOf(f)
  PROVE  Timers!Close
<1>1. L \in SUBSET {e \in Events : [g \in Events |-> TimerOf(g)][e] \in {"armed", "due"}}
  OBVIOUS
<1>2. [e \in Events |-> TimerOf(e)]' =
        [e \in Events |-> IF e \in L THEN "lost" ELSE [g \in Events |-> TimerOf(g)][e]]
  OBVIOUS
<1>3. (schedulerState = "RUNNING")' = FALSE
  OBVIOUS
<1> QED BY <1>1, <1>2, <1>3 DEF Timers!Close

\* Where ids differ, the list and stopEvent decide for every event.
LEMMA WhereStopped ==
  ASSUME EngineInv, IdsDiffer, NEW e \in Events
  PROVE  /\ e \in eventList <=> eventFate[e] = "listed"
         /\ e \in eventList => (Active(e) <=> e \notin stopped)
         /\ Active(e) => e \in eventList
         /\ e \in stopped => eventFate[e] \in {"listed", "deleted", "dropped"}
         /\ eventFate[e] = "deleted" => e \in stopped
<1>0. ListInv /\ IdentityInv /\ DecisionInv /\ IdsBelongToEvents /\ SchedulerTypeOK
  BY DEF EngineInv, StopInv
<1>1. eventId[e] # 0 => UniqueId(e)
  BY DEF IdsDiffer, UniqueId
<1>2. e \in eventList \/ e \in stopped \/ eventFate[e] = "deleted" => eventId[e] # 0
  BY <1>0 DEF IdentityInv, ListInv
<1>3. e \in eventList <=> eventFate[e] = "listed"
  BY <1>0 DEF IdentityInv, ListInv
<1>4. Active(e) => e \in eventList
  BY <1>0 DEF IdsBelongToEvents, IdsDiffer, SchedulerTypeOK
<1> QED BY <1>0, <1>1, <1>2, <1>3, <1>4 DEF DecisionInv

\* A step of the dispatcher alone fires at most the timer of the task in hand.
LEMMA DispatcherRefines ==
  ASSUME EngineInv, IdsDiffer, DispatcherAlone
  PROVE  Timers!Next \/ UNCHANGED Timers!vars
<1>0. /\ DispatcherEffect /\ UNCHANGED <<eventFate, stopped, schedulerState>>
      /\ Events \subseteq Tasks
  BY DispatcherAloneEffect, TaskEngineAssumption
  DEF DispatcherAlone, EngineInv, schedulerVars
<1>1. CASE \A e \in Events : fate'[e] = fate[e]
  BY <1>0, <1>1, SameTimer, MoveNone
<1>2. ASSUME NEW t \in Tasks, MovesOn(t)
      PROVE  Timers!Next \/ UNCHANGED Timers!vars
  <2>1. \A e \in Events \ {t} : TimerOf(e)' = TimerOf(e)
    BY <1>0, <1>2, SameTimer DEF MovesOn
  <2>2. CASE t \notin Events
    BY <1>0, <2>1, <2>2, MoveNone
  <2>3. CASE t \in Events
    <3>1. eventFate[t] = "handed" /\ t \notin stopped
      BY <1>2, <2>3, WhereStopped DEF MovesOn, EngineInv, Coupling
    <3>2. CASE fate'[t] = "taken"
      <4>1. TimerOf(t)' = "due" /\ TimerOf(t) = "due"
        BY <1>0, <1>2, <3>1, <3>2 DEF MovesOn, TimerOf, HandedTimer
      <4> QED BY <1>0, <2>1, <4>1, MoveNone
    <3>3. CASE fate'[t] = "done"
      <4>1. TimerOf(t) = "due" /\ TimerOf(t)' = "fired"
        BY <1>0, <1>2, <3>1, <3>3 DEF MovesOn, TimerOf, HandedTimer
      <4>2. Timers!Fire(t)
        BY <1>0, <2>1, <2>3, <4>1, MoveOne DEF Timers!Fire
      <4> QED BY <2>3, <4>2 DEF Timers!Next
    <3> QED BY <1>2, <3>2, <3>3 DEF MovesOn
  <2> QED BY <2>2, <2>3
<1> QED BY <1>0, <1>1, <1>2 DEF DispatcherEffect

\* The deletion of an event changes nothing for the game; flush() fires it in
\* the same step.
LEMMA EndRefines ==
  ASSUME EngineInv, IdsDiffer, EndOfTask
  PROVE  Timers!Next \/ UNCHANGED Timers!vars
<1>0. EndEffect /\ Events \subseteq Tasks /\ eventFate \in [Events -> EventFates]
  BY EndOfTaskEffect, TaskEngineAssumption DEF EngineInv, SchedulerTypeOK
<1>1. PICK t \in Tasks :
        /\ \A u \in Tasks \ {t} : fate'[u] = fate[u]
        /\ t \in Events =>
             /\ fate'[t] = "done" /\ fate[t] \in {"taken", "done"}
             /\ eventFate[t] = "handed" /\ eventFate' = [eventFate EXCEPT ![t] = "gone"]
        /\ t \notin Events => eventFate' = eventFate
        /\ UNCHANGED <<schedulerState, stopped>>
  BY <1>0 DEF EndEffect
<1>2. \A e \in Events \ {t} : TimerOf(e)' = TimerOf(e)
  BY <1>0, <1>1, SameTimer
<1>3. CASE t \notin Events
  BY <1>1, <1>2, <1>3, MoveNone
<1>4. CASE t \in Events
  <2>1. t \notin stopped /\ eventFate'[t] = "gone"
    BY <1>0, <1>1, <1>4, WhereStopped
  <2>2. TimerOf(t)' = "fired" /\ TimerOf(t) \in {"due", "fired"}
    BY <1>1, <1>4, <2>1 DEF TimerOf, HandedTimer
  <2>3. CASE TimerOf(t) = "fired"
    BY <1>1, <1>2, <2>2, <2>3, MoveNone
  <2>4. CASE TimerOf(t) = "due"
    <3>1. Timers!Fire(t)
      BY <1>1, <1>2, <1>4, <2>2, <2>4, MoveOne DEF Timers!Fire
    <3> QED BY <1>4, <3>1 DEF Timers!Next
  <2> QED BY <2>2, <2>3, <2>4
<1> QED BY <1>3, <1>4

\* An event handed over stays due, unless the dispatcher refuses it; then the
\* scheduler was stopped before.
LEMMA HandOverRefines ==
  ASSUME EngineInv, IdsDiffer, HandOver
  PROVE  Timers!Next \/ UNCHANGED Timers!vars
<1>0. /\ Events \subseteq Tasks /\ fate \in [Tasks -> Fates]
      /\ eventFate \in [Events -> EventFates]
  BY TaskEngineAssumption DEF EngineInv, TypeOK, SchedulerTypeOK
<1>1. PICK e \in Events : e = held
  BY DEF HandOver, Hand, EngineInv, ListInv
<1>2. /\ eventFate[e] = "taken" /\ eventFate' = [eventFate EXCEPT ![e] = "handed"]
      /\ UNCHANGED <<schedulerState, stopped>>
  BY <1>1 DEF HandOver, Hand, EngineInv, ListInv
<1>3. /\ fate'[e] = IF threadState = "RUNNING" THEN "queued" ELSE "refused"
      /\ \A u \in Tasks \ {e} : fate'[u] = fate[u]
  BY <1>0, <1>1 DEF HandOver, AddTask, Enqueue
<1>4. \A f \in Events \ {e} : TimerOf(f)' = TimerOf(f)
  BY <1>0, <1>2, <1>3, SameTimer
<1>5. e \notin stopped
  BY <1>2, WhereStopped
<1>6. TimerOf(e) = "due"
  BY <1>2, <1>5 DEF TimerOf
<1>7. CASE threadState = "RUNNING"
  <2>1. TimerOf(e)' = "due"
    BY <1>0, <1>2, <1>3, <1>5, <1>7 DEF TimerOf, HandedTimer
  <2> QED BY <1>2, <1>4, <1>6, <2>1, MoveNone
<1>8. CASE threadState # "RUNNING"
  <2>1. TimerOf(e)' = "lost"
    BY <1>0, <1>2, <1>3, <1>5, <1>8 DEF TimerOf, HandedTimer
  <2>2. schedulerState' # "RUNNING"
    BY <1>2, <1>8 DEF EngineInv, Coupling
  <2>3. Timers!Close
    <3>1. {e} \in SUBSET Events
      OBVIOUS
    <3> QED BY <1>4, <1>6, <2>1, <2>2, <3>1, LoseSome
  <2> QED BY <2>3 DEF Timers!Next
<1> QED BY <1>7, <1>8

\* addEvent arms a timer, or loses it when the scheduler does not run.
LEMMA AddEventRefines ==
  ASSUME EngineInv, NEW c \in Callers, NEW e \in Events, NEW delay \in Delays,
         AddEvent(c, e, delay), UNCHANGED vars
  PROVE  Timers!Next
<1>0. /\ fate' = fate /\ stopped' = stopped /\ schedulerState' = schedulerState
      /\ eventFate[e] = "new" /\ eventFate \in [Events -> EventFates] /\ fate[e] = "new"
  BY DEF AddEvent, vars, EngineInv, SchedulerTypeOK, Coupling
<1>1. e \notin stopped
  BY <1>0 DEF EngineInv, StopInv, IdentityInv
<1>2. TimerOf(e) = "idle"
  BY <1>0, <1>1 DEF TimerOf
<1>3. \A f \in Events \ {e} : eventFate'[f] = eventFate[f]
  BY <1>0 DEF AddEvent
<1>4. \A f \in Events \ {e} : TimerOf(f)' = TimerOf(f)
  BY <1>0, <1>3, SameTimer
<1>5. CASE schedulerState = "RUNNING"
  <2>1. eventFate'[e] = "listed"
    BY <1>0, <1>5 DEF AddEvent
  <2>2. TimerOf(e)' = "armed"
    BY <1>0, <1>1, <2>1 DEF TimerOf
  <2>3. Timers!Arm(e)
    BY <1>0, <1>2, <1>4, <1>5, <2>2, MoveOne DEF Timers!Arm
  <2> QED BY <2>3 DEF Timers!Next
<1>6. CASE schedulerState # "RUNNING"
  <2>1. eventFate'[e] = "refused"
    BY <1>0, <1>6 DEF AddEvent
  <2>2. TimerOf(e)' = "lost"
    BY <1>0, <1>1, <2>1 DEF TimerOf
  <2>3. Timers!Reject(e)
    BY <1>0, <1>2, <1>4, <1>6, <2>2, MoveOne DEF Timers!Reject
  <2> QED BY <2>3 DEF Timers!Next
<1> QED BY <1>5, <1>6

\* stopEvent answering true cancels a timer that is still armed.
LEMMA StopEventRefines ==
  ASSUME EngineInv, IdsDiffer, NEW e \in Events, StopEvent(e), UNCHANGED vars
  PROVE  Timers!Next
<1>0. /\ fate' = fate /\ stopped' = stopped \cup {e}
      /\ UNCHANGED <<schedulerState, eventFate>>
  BY DEF StopEvent, vars
<1>1. e \notin stopped /\ eventFate[e] = "listed"
  BY WhereStopped DEF StopEvent
<1>2. TimerOf(e) = "armed"
  BY <1>1 DEF TimerOf
<1>3. TimerOf(e)' = "cancelled"
  BY <1>0 DEF TimerOf
<1>4. \A f \in Events \ {e} : TimerOf(f)' = TimerOf(f)
  BY <1>0, SameTimer
<1>5. Timers!Cancel(e)
  BY <1>0, <1>2, <1>3, <1>4, MoveOne DEF Timers!Cancel
<1> QED BY <1>5 DEF Timers!Next

\* Taking the top of the list elapses its timer, or throws a cancelled one away.
LEMMA PopTopRefines ==
  ASSUME EngineInv, IdsDiffer, NEW e \in Events, PopTop(e), UNCHANGED vars
  PROVE  Timers!Next \/ UNCHANGED Timers!vars
<1>0. /\ fate' = fate /\ UNCHANGED <<schedulerState, stopped>> /\ e \in eventList
      /\ eventFate \in [Events -> EventFates]
  BY DEF PopTop, Tops, vars, EngineInv, SchedulerTypeOK
<1>1. /\ eventFate[e] = "listed"
      /\ Active(e) <=> e \notin stopped
  BY <1>0, WhereStopped
<1>2. /\ \A f \in Events \ {e} : eventFate'[f] = eventFate[f]
      /\ Active(e) => eventFate'[e] = "taken"
  BY <1>0 DEF PopTop
<1>3. \A f \in Events \ {e} : TimerOf(f)' = TimerOf(f)
  BY <1>0, <1>2, SameTimer
<1>4. CASE e \notin stopped
  <2>1. TimerOf(e) = "armed"
    BY <1>1, <1>4 DEF TimerOf
  <2>2. TimerOf(e)' = "due"
    BY <1>0, <1>1, <1>2, <1>4 DEF TimerOf
  <2>3. Timers!Elapse(e)
    BY <1>0, <1>3, <2>1, <2>2, MoveOne DEF Timers!Elapse
  <2> QED BY <2>3 DEF Timers!Next
<1>5. CASE e \in stopped
  <2>1. TimerOf(e)' = TimerOf(e)
    BY <1>0, <1>5 DEF TimerOf
  <2> QED BY <1>0, <1>3, <2>1, MoveNone
<1> QED BY <1>4, <1>5

\* shutdown loses every timer that is armed.
LEMMA ShutdownRefines ==
  ASSUME EngineInv, IdsDiffer, Shutdown, UNCHANGED vars
  PROVE  Timers!Next
<1>0. /\ fate' = fate /\ stopped' = stopped /\ schedulerState' = "TERMINATED"
      /\ \A e \in Events : eventFate'[e] = IF e \in eventList THEN "dropped" ELSE eventFate[e]
      /\ eventList \subseteq Events
  BY DEF Shutdown, vars, EngineInv, SchedulerTypeOK
<1>1. ASSUME NEW e \in eventList \ stopped
      PROVE  TimerOf(e) = "armed" /\ TimerOf(e)' = "lost"
  <2>1. eventFate[e] = "listed" /\ eventFate'[e] = "dropped" /\ e \notin stopped'
    BY <1>0, <1>1, WhereStopped
  <2>2. TimerOf(e) = "armed"
    BY <1>1, <2>1 DEF TimerOf
  <2>3. TimerOf(e)' = "lost"
    BY <2>1 DEF TimerOf
  <2> QED BY <2>2, <2>3
<1>2. ASSUME NEW e \in Events \ (eventList \ stopped)
      PROVE  TimerOf(e)' = TimerOf(e)
  <2>1. CASE e \in stopped
    BY <1>0, <2>1 DEF TimerOf
  <2>2. CASE e \notin stopped
    BY <1>0, <1>2, <2>2, SameTimer
  <2> QED BY <2>1, <2>2
<1>3. Timers!Close
  BY <1>0, <1>1, <1>2, LoseSome
<1> QED BY <1>3 DEF Timers!Next

LEMMA SchedulerRefines ==
  ASSUME EngineInv, IdsDiffer, SchedulerAlone
  PROVE  Timers!Next \/ UNCHANGED Timers!vars
<1>0. UNCHANGED vars
  BY DEF SchedulerAlone
<1>1. ASSUME NEW e \in Events, NEW delay \in Delays,
             NetAddEvent(e, delay) \/ RunAddEvent(e, delay)
      PROVE  Timers!Next
  <2>1. \E c \in Callers : AddEvent(c, e, delay)
    BY <1>1, SchedulerAssumption DEF NetAddEvent, RunAddEvent
  <2> QED BY <1>0, <2>1, AddEventRefines
<1>2. ASSUME NEW e \in Events, RunStopEvent(e) PROVE Timers!Next
  BY <1>0, <1>2, StopEventRefines DEF RunStopEvent
<1>3. ASSUME UNCHANGED <<eventFate, stopped, schedulerState>>
      PROVE  UNCHANGED Timers!vars
  <2>1. \A e \in Events : TimerOf(e)' = TimerOf(e)
    BY <1>0, <1>3, SameTimer DEF vars
  <2> QED BY <1>3, <2>1, MoveNone
<1>4. CASE SchedulerNotify \/ ClockTick \/ WakeByItself
  BY <1>3, <1>4 DEF SchedulerNotify, NotifyScheduler, Return, ClockTick, Tick, WakeByItself
<1>5. CASE SchedulerStep
  <2>1. CASE \E e \in Events : PopTop(e)
    BY <1>0, <2>1, PopTopRefines
  <2>2. CASE Wait \/ End \/ TimeOut \/ PopNothing \/ WakeTerminated
    BY <1>3, <2>2 DEF Wait, End, TimeOut, PopNothing, WakeTerminated
  <2> QED BY <1>5, <2>1, <2>2 DEF SchedulerStep, LoopStep
<1>6. CASE CloseScheduler
  <2>1. UNCHANGED <<eventFate, stopped>> /\ schedulerState' = "CLOSING"
    BY <1>6 DEF CloseScheduler, StopScheduler
  <2>2. \A e \in Events : TimerOf(e)' = TimerOf(e)
    BY <1>0, <2>1, SameTimer DEF vars
  <2>3. Timers!Close
    <3>1. {} \in SUBSET Events
      OBVIOUS
    <3> QED BY <2>1, <2>2, <3>1, LoseSome
  <2> QED BY <2>3 DEF Timers!Next
<1>7. CASE ShutdownScheduler
  BY <1>0, <1>7, ShutdownRefines DEF ShutdownScheduler
<1> QED BY <1>1, <1>2, <1>4, <1>5, <1>6, <1>7 DEF SchedulerAlone

LEMMA RefinementStep ==
  ASSUME EngineInv, IdsDiffer, [EngineNext]_engineVars
  PROVE  [Timers!Next]_(Timers!vars)
<1>1. CASE UNCHANGED engineVars
  <2>1. UNCHANGED <<fate, eventFate, stopped, schedulerState>>
    BY <1>1 DEF engineVars, vars, schedulerVars
  <2>2. \A e \in Events : TimerOf(e)' = TimerOf(e)
    BY <2>1, SameTimer
  <2> QED BY <2>1, <2>2, MoveNone
<1>2. CASE EngineNext
  BY <1>2, StepKinds, DispatcherRefines, SchedulerRefines, EndRefines, HandOverRefines
<1> QED BY <1>1, <1>2

LEMMA RefinementInit == EngineInit => Timers!Init
<1> SUFFICES ASSUME EngineInit PROVE Timers!Init
  OBVIOUS
<1>1. ASSUME NEW e \in Events PROVE TimerOf(e) = "idle"
  BY DEF EngineInit, SchedulerInit, TimerOf
<1> QED BY <1>1 DEF Timers!Init, EngineInit, SchedulerInit

\* Scheduler and dispatcher together implement the timer service as long as no
\* id is given twice.
THEOREM TimerServiceImplemented == EngineSpec /\ []IdsDiffer => ImplementsTimerService
<1>1. EngineInv /\ IdsDiffer /\ [EngineNext]_engineVars => [Timers!Next]_(Timers!vars)
  BY RefinementStep
<1> QED
  BY <1>1, RefinementInit, EngineInvariant, PTL
  DEF EngineSpec, ImplementsTimerService, Timers!Spec

-----------------------------------------------------------------------------
(* The ids *)

\* The events that were given an id.
Named == {e \in Events : eventId[e] # 0}

\* Before it wraps, m_lastEvent counts the ids it gave out.
IdsCounted ==
  /\ IdsDiffer
  /\ lastEvent = Cardinality(Named)
  /\ \A e \in Events : eventId[e] <= lastEvent

LEMMA IdsCountedStep ==
  ASSUME IsFiniteSet(Events), Cardinality(Events) <= MaxEventId,
         SchedulerTypeOK, ListInv, IdentityInv, IdsCounted,
         [SchedulerNext]_schedulerVars
  PROVE  IdsCounted'
<1>1. ASSUME UNCHANGED <<eventId, lastEvent>> PROVE IdsCounted'
  BY <1>1 DEF IdsCounted, IdsDiffer, Named
<1>2. ASSUME NEW c \in Callers, NEW e \in Events, NEW delay \in Delays,
             AddEvent(c, e, delay)
      PROVE  IdsCounted'
  <2>1. CASE schedulerState # "RUNNING"
    BY <1>1, <1>2, <2>1 DEF AddEvent
  <2>2. CASE schedulerState = "RUNNING"
    <3>1. /\ eventId[e] = 0 /\ eventId \in [Events -> 0..MaxEventId]
          /\ lastEvent \in Nat /\ MaxEventId \in Nat
      BY <1>2, SchedulerAssumption DEF AddEvent, IdentityInv, SchedulerTypeOK
    <3>2. IsFiniteSet(Named) /\ Named \subseteq Events /\ e \notin Named
      BY <3>1, FS_Subset DEF Named
    <3>3. /\ IsFiniteSet(Named \cup {e})
          /\ Cardinality(Named \cup {e}) = Cardinality(Named) + 1
      BY <3>2, FS_AddElement
    <3>4. Cardinality(Named \cup {e}) <= Cardinality(Events)
      BY <3>2, FS_Subset
    <3>5. Cardinality(Events) \in Nat /\ Cardinality(Named) \in Nat
      BY <3>2, FS_CardinalityType
    <3>6. lastEvent < MaxEventId
      BY <3>1, <3>3, <3>4, <3>5 DEF IdsCounted
    <3>7. lastEvent' = lastEvent + 1 /\ eventId' = [eventId EXCEPT ![e] = lastEvent + 1]
      BY <1>2, <2>2, <3>1, <3>6 DEF AddEvent, NextEventId
    <3>8. Named' = Named \cup {e}
      BY <3>1, <3>7 DEF Named
    <3>9. IdsDiffer'
      BY <3>1, <3>7 DEF IdsCounted, IdsDiffer
    <3>10. \A f \in Events : eventId'[f] <= lastEvent'
      BY <3>1, <3>7 DEF IdsCounted
    <3> QED BY <3>3, <3>7, <3>8, <3>9, <3>10 DEF IdsCounted
  <2> QED BY <2>1, <2>2
<1>3. CASE \E c \in Callers : NotifyScheduler(c) \/ Return(c)
  BY <1>1, <1>3 DEF NotifyScheduler, Return
<1>4. CASE \E e \in Events : StopEvent(e) \/ Consume(e) \/ PopTop(e)
  BY <1>1, <1>4 DEF StopEvent, Consume, PopTop
<1>5. CASE WakeByItself \/ Wait \/ End \/ TimeOut \/ PopNothing \/ WakeTerminated
  BY <1>1, <1>5 DEF WakeByItself, Wait, End, TimeOut, PopNothing, WakeTerminated
<1>6. CASE Hand \/ StopScheduler \/ Shutdown \/ Tick \/ UNCHANGED schedulerVars
  BY <1>1, <1>6 DEF Hand, StopScheduler, Shutdown, Tick, schedulerVars
<1> QED
  BY <1>2, <1>3, <1>4, <1>5, <1>6 DEF SchedulerNext, SchedulerThread, LoopStep

\* No more events than ids: m_lastEvent does not come round to one in use, so
\* stopEvent means the event its caller was given the id of.
LEMMA IdsAreDifferent ==
  ASSUME IsFiniteSet(Events), Cardinality(Events) <= MaxEventId
  PROVE  SchedulerSpec => []IdsDiffer
<1>1. SchedulerInit => IdsCounted
  <2> SUFFICES ASSUME SchedulerInit PROVE IdsCounted
    OBVIOUS
  <2>1. Named = {}
    BY DEF SchedulerInit, Named
  <2> QED BY <2>1, FS_EmptySet DEF SchedulerInit, IdsCounted, IdsDiffer
<1>2. SchedulerTypeOK /\ ListInv /\ IdentityInv /\ IdsCounted /\ [SchedulerNext]_schedulerVars
        => IdsCounted'
  BY IdsCountedStep
<1>3. StopInv => IdentityInv
  BY DEF StopInv
<1>4. IdsCounted => IdsDiffer
  BY DEF IdsCounted
<1> QED BY <1>1, <1>2, <1>3, <1>4, ListInvariant, StopInvariant, PTL DEF SchedulerSpec

\* With as many events as the 32 bits of an id can tell apart, the server's two
\* threads implement the timer service.
THEOREM EngineIsTimerService ==
  ASSUME IsFiniteSet(Events), Cardinality(Events) <= MaxEventId
  PROVE  EngineSpec => ImplementsTimerService
BY TimerServiceImplemented, IdsAreDifferent, EngineRunsBoth, PTL
=============================================================================
