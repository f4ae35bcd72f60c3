------------------------------- MODULE Network -------------------------------
(***************************************************************************)
(* One connection, its protocol and the pool of output messages, of        *)
(* src/src/connection.cpp, protocol.cpp and outputmessage.cpp.             *)
(*                                                                         *)
(* Two threads work on it.  The service thread runs the completions of     *)
(* the sockets and timers, in the order the io_service queued them; the    *)
(* dispatcher runs tasks and after each of them sends what is queued.      *)
(* Handlers take the recursive m_connectionLock, the pool its own lock:    *)
(* what needs one lock only is one step.  sendAll() takes the pool's lock  *)
(* and then, message by message, that of the connection; a packet handled  *)
(* on the service thread that answers takes them in the other order.       *)
(*                                                                         *)
(* What a method does is an operator on the record net of all the objects. *)
(* Left out: the errors asio reports by exceptions, the branch of send()   *)
(* for more than a hundred pending writes (OneWriteAtATime: there never    *)
(* are) and the end of the process.                                        *)
(***************************************************************************)
EXTENDS FiniteSets, Naturals, Sequences, SequencesExt

CONSTANT MaxMessages  \* bound: output messages allocated in a behaviour

ASSUME MaxMessagesAssumption == MaxMessages \in Nat \ {0}

Messages == 1 .. MaxMessages  \* in the order of their allocation
NoMessage == 0

VARIABLES
  net,      \* the connection, its protocol, its messages and what is queued
  place,    \* the iterator of sendAll() in m_autoSend, 0 when not in it
  service,  \* "idle", or inside parsePacket with the connection's lock
  old,      \* queued messages older than ten seconds
  raced     \* both threads used a counter at once, without a lock

vars == <<net, place, service, old, raced>>

Ops == {"header", "packet", "write"}
Timers == {"readTimeout", "writeTimeout"}
Completions == [op : Ops \cup Timers \cup {"stop"}, error : {"none", "aborted", "other"}]
Tasks == {"closeConnection", "releaseConnection", "releaseProtocol"}

Nets ==
  [state : {"OPEN", "REQUEST_CLOSE", "CLOSING", "CLOSED"},
   socket : {"open", "closed", "deleted"},
   nullUsed : BOOLEAN,               \* a member of the deleted socket was called
   pendingRead : 0..1, pendingWrite : 0..2,
   readError : BOOLEAN, writeError : BOOLEAN,
   hasProtocol : BOOLEAN,            \* Connection::m_protocol is set
   refs : Nat,                       \* Connection::m_refCount
   protocol : {"none", "live", "deleted"},
   linked : BOOLEAN,                 \* Protocol::m_connection is set
   protocolRefs : Nat,               \* Protocol::m_refCount
   outputBuffer : Messages \cup {NoMessage},
   autoSend : Seq(Messages), addQueue : Seq(Messages),
   answer : Messages \cup {NoMessage},   \* held by the service thread
   writing : SUBSET Messages,        \* held by an onWrite to come
   created : 0..MaxMessages, inUse : SUBSET Messages,
   ops : SUBSET Ops, timers : SUBSET Timers,  \* asynchronous operations under way
   io : Seq(Completions),            \* completions queued for the service thread
   tasks : Seq(Tasks),               \* tasks queued for the dispatcher
   rescheduled : SUBSET Tasks]       \* tasks the scheduler will queue

-----------------------------------------------------------------------------
(* Connection, Protocol and OutputMessagePool *)

Completed(op, e) == [op |-> op, error |-> e]

Close(n) ==
  IF n.state \in {"CLOSED", "REQUEST_CLOSE"} THEN n
  ELSE [n EXCEPT !.state = "REQUEST_CLOSE", !.tasks = Append(@, "closeConnection")]

\* What is under way, in the order the reactor gives it up.
Aborted(n) ==
  LET Given(op) == IF op \in n.ops THEN <<Completed(op, "aborted")>> ELSE <<>>
  IN  Given("header") \o Given("packet") \o Given("write")

\* Closing the socket aborts what is under way on it.
CloseSocket(n) ==
  CASE n.socket = "open" ->
         [n EXCEPT !.socket = "closed", !.pendingRead = 0, !.pendingWrite = 0, !.ops = {},
                   !.io = @ \o Aborted(n)]
    [] n.socket = "closed"  -> n
    [] n.socket = "deleted" -> [n EXCEPT !.nullUsed = TRUE]

\* Mutant: the connection goes whether or not messages refer to it.
ReleaseAtOnce(n) == [n EXCEPT !.io = Append(@, Completed("stop", "none"))]
\* While messages refer to it, it is tried again later.
ReleaseConnection(n) ==
  IF n.refs > 0 THEN [n EXCEPT !.rescheduled = @ \cup {"releaseConnection"}]
                ELSE [n EXCEPT !.io = Append(@, Completed("stop", "none"))]

ReleaseProtocol(n) ==
  IF n.protocolRefs > 0 THEN [n EXCEPT !.rescheduled = @ \cup {"releaseProtocol"}]
  ELSE [n EXCEPT !.protocol = "deleted", !.linked = FALSE, !.outputBuffer = NoMessage]

\* A connection with a write pending closes when that has ended.
CloseConnection(n) ==
  LET parted == IF n.hasProtocol
                THEN ReleaseProtocol([n EXCEPT !.linked = FALSE, !.hasProtocol = FALSE])
                ELSE n
  IN  IF n.state # "REQUEST_CLOSE" THEN n
      ELSE IF n.pendingWrite > 0 /\ ~n.writeError THEN [parted EXCEPT !.state = "CLOSING"]
      ELSE [ReleaseConnection(CloseSocket(parted)) EXCEPT !.state = "CLOSED"]

OnSendMessage(n, m) ==
  IF n.outputBuffer = m THEN [n EXCEPT !.outputBuffer = NoMessage] ELSE n

InternalSend(n, m) ==
  [n EXCEPT !.pendingWrite = @ + 1, !.timers = @ \cup {"writeTimeout"},
            !.ops = @ \cup {"write"}, !.writing = @ \cup {m}]

\* Mutant: a write is started whether or not one is pending.
Writable(n) == TRUE
NoWritePending(n) == n.pendingWrite = 0

\* Connection::send, and the onSendMessage of its callers when it refuses.
Send(n, m) ==
  IF n.state # "OPEN" \/ n.writeError THEN OnSendMessage(n, m)
  ELSE IF NoWritePending(n) THEN InternalSend(OnSendMessage(n, m), m)
  ELSE [n EXCEPT !.addQueue = Append(@, m)]

\* Mutant: the connection does not count the message.
AllocatedUncounted(n) ==
  [n EXCEPT !.created = @ + 1, !.inUse = @ \cup {n.created + 1}, !.protocolRefs = @ + 1]
\* getOutputMessage and configureOutputMessage
Allocated(n) ==
  [n EXCEPT !.created = @ + 1, !.inUse = @ \cup {n.created + 1},
            !.refs = @ + 1, !.protocolRefs = @ + 1]

\* getOutputBuffer, when there is no buffer or the old one is full
NewBuffer(n) ==
  LET m == n.created + 1
  IN  [Allocated(n) EXCEPT !.autoSend = Append(@, m), !.outputBuffer = m]

\* The reads of accept(), parseHeader() and parsePacket()
Read(n, op) ==
  [n EXCEPT !.pendingRead = @ + 1, !.timers = @ \cup {"readTimeout"}, !.ops = @ \cup {op}]

HandleReadError(n, e) ==
  [(IF e = "aborted" THEN n ELSE Close(n)) EXCEPT !.readError = TRUE]
HandleWriteError(n, e) ==
  [(IF e = "aborted" THEN n ELSE Close(n)) EXCEPT !.writeError = TRUE]

\* What a completed read finds: its timer is cancelled, its error is noted.
ReadEnded(n, e) ==
  LET quiet == [n EXCEPT !.timers = @ \ {"readTimeout"}]
  IN  IF e = "none" THEN quiet ELSE HandleReadError(quiet, e)

Usable(n) == n.state = "OPEN" /\ ~n.readError

OnWrite(n, e) ==
  LET done == [n EXCEPT !.timers = @ \ {"writeTimeout"}, !.writing = {}]
      seen == IF e = "none" THEN done ELSE HandleWriteError(done, e)
  IN  IF seen.state # "OPEN" \/ seen.writeError THEN Close(CloseSocket(seen))
      ELSE [seen EXCEPT !.pendingWrite = @ - 1]

\* The handlers of the timers hold a weak pointer: without another holder of
\* the connection they do nothing.
Destroyed(n) ==
  /\ n.socket = "deleted" /\ ~n.linked /\ n.inUse = {} /\ n.ops = {}
  /\ \A i \in DOMAIN n.io : n.io[i].op \notin Ops

OnReadTimeout(n) ==
  IF n.pendingRead > 0 \/ n.readError THEN Close(CloseSocket(n)) ELSE n
OnWriteTimeout(n) ==
  IF n.pendingWrite > 0 \/ n.writeError THEN Close(CloseSocket(n)) ELSE n

\* The socket is closed by now.
OnStop(n) == [n EXCEPT !.timers = {}, !.socket = "deleted"]

Queued(n) == ToSet(n.autoSend \o n.addQueue)

\* Messages nobody holds any more: the deleter of the last shared pointer puts
\* their release in front of the dispatcher's tasks.
ToRelease(n) ==
  n.inUse \ (Queued(n) \cup n.writing \cup {n.outputBuffer, n.answer})

-----------------------------------------------------------------------------
(* A connection has been accepted; on the game's port its protocol is there  *)
(* at once and has sent its first message.                                   *)

NewNet ==
  [state |-> "OPEN", socket |-> "open", nullUsed |-> FALSE,
   pendingRead |-> 0, pendingWrite |-> 0, readError |-> FALSE, writeError |-> FALSE,
   hasProtocol |-> FALSE, refs |-> 0,
   protocol |-> "none", linked |-> FALSE, protocolRefs |-> 0,
   outputBuffer |-> NoMessage, autoSend |-> <<>>, addQueue |-> <<>>,
   answer |-> NoMessage, writing |-> {}, created |-> 0, inUse |-> {},
   ops |-> {}, timers |-> {}, io |-> <<>>, tasks |-> <<>>, rescheduled |-> {}]

WithProtocol(n) == [n EXCEPT !.hasProtocol = TRUE, !.protocol = "live", !.linked = TRUE]

Init ==
  /\ \/ net = Read(NewNet, "header")
     \/ net = Read(Send(Allocated(WithProtocol(NewNet)), 1), "header")
  /\ place = 0 /\ service = "idle"
  /\ old = {} /\ raced = FALSE

-----------------------------------------------------------------------------
(* The service thread *)

DispatcherHasPool == place > 0
ServiceHasConnection == service # "idle"

\* Messages left within the bound, but for one the service thread is about to take
CanAllocate ==
  net.created + (IF service \in {"single", "buffer"} THEN 1 ELSE 0) < MaxMessages

\* A completion of the reactor: an operation ends, or a timer expires.
OperationEnds(op, e) ==
  /\ op \in net.ops
  /\ net' = [net EXCEPT !.ops = @ \ {op}, !.io = Append(@, Completed(op, e))]
  /\ UNCHANGED <<place, service, old, raced>>

TimerExpires ==
  /\ \E t \in net.timers :
       net' = [net EXCEPT !.timers = @ \ {t}, !.io = Append(@, Completed(t, "none"))]
  /\ UNCHANGED <<place, service, old, raced>>

\* The next completion, if it is of the kind op, and net without it.
Next1(op) == ~raced /\ service = "idle" /\ net.io # <<>> /\ Head(net.io).op = op
Taken == [net EXCEPT !.io = Tail(@)]

ParseHeader ==
  /\ Next1("header")
  /\ LET n == ReadEnded(Taken, Head(net.io).error)
     IN  net' = IF Usable(n) THEN Read([n EXCEPT !.pendingRead = @ - 1], "packet") ELSE Close(n)
  /\ UNCHANGED <<place, service, old, raced>>

\* The protocol posts tasks, or answers itself with a message of its own
\* (disconnectClient, the login server) or in the buffer (the market).
ParsePacket ==
  /\ Next1("packet")
  /\ LET n == ReadEnded(Taken, Head(net.io).error)
         m == [n EXCEPT !.pendingRead = @ - 1]
     IN  \/ /\ ~Usable(n)
            /\ net' = Close(n) /\ UNCHANGED service
         \/ /\ Usable(n) /\ ~n.hasProtocol       \* makeProtocol finds none
            /\ net' = Close(m) /\ UNCHANGED service
         \/ /\ Usable(n)
            /\ net' = Read(IF n.hasProtocol THEN m ELSE WithProtocol(m), "header")
            /\ UNCHANGED service
         \/ /\ Usable(n) /\ CanAllocate
            /\ net' = IF n.hasProtocol THEN m ELSE WithProtocol(m)
            /\ service' \in {"single", "buffer"}
  /\ UNCHANGED <<place, old, raced>>

\* The answer takes the pool's lock, then the packet is done with.
AnswerInBuffer ==
  /\ ~raced /\ service = "buffer" /\ ~DispatcherHasPool
  /\ \/ net.outputBuffer # NoMessage /\ net' = Read(net, "header")
     \/ net' = Read(NewBuffer(net), "header")
  /\ service' = "idle"
  /\ UNCHANGED <<place, old, raced>>

AnswerAllocates ==
  /\ ~raced /\ service = "single" /\ ~DispatcherHasPool
  /\ net' = [Allocated(net) EXCEPT !.answer = net.created + 1]
  /\ service' = "send"
  /\ UNCHANGED <<place, old, raced>>

\* OutputMessagePool::send; disconnectClient closes the connection after it.
AnswerSent ==
  /\ ~raced /\ service = "send" /\ ~DispatcherHasPool
  /\ LET m == net.answer
         sent == [Send(net, m) EXCEPT !.answer = NoMessage]
     IN  /\ net' \in {Read(sent, "header"), Read(Close(sent), "header")}
  /\ service' = "idle"
  /\ UNCHANGED <<place, old, raced>>

\* Everything else the service thread runs
Complete ==
  /\ \/ Next1("write") /\ net' = OnWrite(Taken, Head(net.io).error)
     \/ Next1("readTimeout") /\ net' = IF Destroyed(Taken) THEN Taken ELSE OnReadTimeout(Taken)
     \/ Next1("writeTimeout") /\ net' = IF Destroyed(Taken) THEN Taken ELSE OnWriteTimeout(Taken)
     \/ Next1("stop") /\ net' = OnStop(Taken)
  /\ UNCHANGED <<place, service, old, raced>>

-----------------------------------------------------------------------------
(* The dispatcher *)

\* What is left of the first i on m_addQueue: the loop over it drops the old.
Kept(s) ==
  LET kept[i \in 0 .. Len(s)] ==
        IF i = 0 THEN <<>>
        ELSE IF s[i] \in old THEN kept[i - 1] ELSE Append(kept[i - 1], s[i])
  IN  kept
Young(s) == Kept(s)[Len(s)]

\* Mutant: a dropped message stays the protocol's output buffer.
BufferKept(n) ==
  [n EXCEPT !.autoSend = @ \o Young(n.addQueue), !.addQueue = <<>>]
\* sendAll begins with the messages that found a write pending; old ones go.
QueuesJoined(n) ==
  LET dropped == ToSet(n.addQueue) \cap old
      kept == [n EXCEPT !.autoSend = @ \o Young(n.addQueue), !.addQueue = <<>>]
  IN  IF n.outputBuffer \in dropped THEN [kept EXCEPT !.outputBuffer = NoMessage] ELSE kept

\* The iterator at k, or past the end: then sendAll gives the pool's lock back.
At(n, k) == IF k <= Len(n.autoSend) THEN k ELSE 0

\* A task has done n; after each of them the dispatcher calls sendAll.
TaskDone(n) ==
  /\ net' = QueuesJoined(n)
  /\ place' = At(net', 1)
  /\ old' = old \cap Queued(net')
  /\ UNCHANGED <<service, raced>>

\* Releases of messages stand in front of all other tasks.
Release ==
  /\ ~raced /\ ~DispatcherHasPool
  /\ \E m \in ToRelease(net) :
       TaskDone([net EXCEPT !.inUse = @ \ {m}, !.refs = @ - 1, !.protocolRefs = @ - 1])

AtTask == ~raced /\ ~DispatcherHasPool /\ ToRelease(net) = {}

RunTask ==
  /\ AtTask /\ net.tasks # <<>>
  /\ LET n == [net EXCEPT !.tasks = Tail(@)]
     IN  CASE Head(net.tasks) = "closeConnection" ->
                ~ServiceHasConnection /\ TaskDone(CloseConnection(n))
           [] Head(net.tasks) = "releaseConnection" -> TaskDone(ReleaseConnection(n))
           [] Head(net.tasks) = "releaseProtocol" -> TaskDone(ReleaseProtocol(n))

\* The scheduler hands over what was to be tried again.
Reschedule ==
  /\ \E t \in net.rescheduled :
       net' = [net EXCEPT !.rescheduled = @ \ {t}, !.tasks = Append(@, t)]
  /\ UNCHANGED <<place, service, old, raced>>

\* A task of the game writes to the player, while he has a client: in the
\* buffer there is, or in a new one.
GameWrites ==
  /\ AtTask /\ net.hasProtocol
  /\ \/ net.outputBuffer # NoMessage /\ TaskDone(net)
     \/ CanAllocate /\ TaskDone(NewBuffer(net))

\* A task of the game disconnects the client, with a message or without.
GameDisconnects ==
  /\ AtTask /\ net.hasProtocol /\ ~ServiceHasConnection
  /\ \/ TaskDone(Close(net))
     \/ /\ CanAllocate
        /\ TaskDone(Close(Send(Allocated(net), net.created + 1)))

\* A task that has nothing to do with this connection.
OtherTask ==
  /\ AtTask /\ net.tasks = <<>>
  /\ net.autoSend \o net.addQueue # <<>>
  /\ TaskDone(net)

\* The next message of m_autoSend: left if small and younger than 10 ms, or sent.
SendNext ==
  /\ ~raced /\ DispatcherHasPool
  /\ LET m == net.autoSend[place]
     IN  \/ /\ m \notin old
            /\ place' = At(net, place + 1)
            /\ UNCHANGED net
         \/ /\ ~ServiceHasConnection
            /\ net' = [Send(net, m) EXCEPT !.autoSend = RemoveAt(@, place)]
            /\ place' = At(net', place)
  /\ old' = old \cap Queued(net')
  /\ UNCHANGED <<service, raced>>

\* Time passes; the age of a message counts while it is queued.
GrowOld ==
  /\ \E m \in Queued(net) \ old : old' = old \cup {m}
  /\ UNCHANGED <<net, place, service, raced>>

\* addRef() on the service thread and unRef() on the dispatcher change the
\* same counters, and no lock orders them.  What follows is undefined.
Race ==
  /\ ~raced /\ service \in {"single", "buffer"} /\ ~DispatcherHasPool
  /\ ToRelease(net) # {}
  /\ raced' = TRUE
  /\ UNCHANGED <<net, place, service, old>>

ServiceStep ==
  ParseHeader \/ ParsePacket \/ AnswerInBuffer \/ AnswerAllocates \/ AnswerSent \/ Complete
DispatcherStep == Release \/ RunTask \/ OtherTask \/ SendNext

Next ==
  \/ ServiceStep \/ DispatcherStep \/ GameWrites \/ GameDisconnects
  \/ Reschedule \/ TimerExpires \/ GrowOld \/ Race
  \/ \E op \in Ops, e \in {"none", "other"} : OperationEnds(op, e)

\* The threads run, timers and the scheduler work.  Tasks of the game come and
\* go in front of a task of the connection, but it has its turn.  Nobody has to
\* send or to receive anything.
Fairness ==
  /\ WF_vars(ServiceStep) /\ WF_vars(DispatcherStep) /\ SF_vars(RunTask)
  /\ WF_vars(Reschedule) /\ WF_vars(TimerExpires) /\ WF_vars(GrowOld)

Spec == Init /\ [][Next]_vars /\ Fairness

-----------------------------------------------------------------------------
(* Properties *)

\* The type of every variable.
TypeOK ==
  /\ net \in Nets
  /\ place \in 0 .. Len(net.autoSend)
  /\ service \in {"idle", "single", "buffer", "send"}
  /\ old \subseteq Messages
  /\ raced \in BOOLEAN

\* Writes of one connection never overlap, whoever sends and however the socket
\* is closed under them; so the branch of send() for slow clients, with more
\* than a hundred of them, is never taken.
OneWriteAtATime ==
  /\ Cardinality(net.writing) <= 1
  /\ net.pendingWrite <= Cardinality(net.writing)
  /\ net.state = "OPEN" => net.pendingWrite = Cardinality(net.writing)

\* Nothing refers any more to what has been deleted: no message in use, no
\* handler on the service thread and no task has the protocol or the socket,
\* and a completed operation does not touch the deleted socket.
NothingUsedAfterDelete ==
  /\ net.protocol = "deleted" => net.inUse = {} /\ ~net.hasProtocol /\ service = "idle"
  /\ net.socket = "deleted" => net.inUse = {} /\ net.ops = {}
  /\ ~net.nullUsed

\* closeConnection, queued with a plain pointer, finds the connection alive and
\* in the state its caller left: one request is under way at a time.
CloseFindsRequest ==
  Cardinality({i \in DOMAIN net.tasks : net.tasks[i] = "closeConnection"})
    = IF net.state = "REQUEST_CLOSE" THEN 1 ELSE 0

\* Whatever order threads, timers and errors come in, no plain pointer dangles.
NothingDangles == NothingUsedAfterDelete /\ CloseFindsRequest

\* The dispatcher holds the pool and wants the connection, the service thread
\* holds the connection and wants the pool.
Inverted == DispatcherHasPool /\ ServiceHasConnection

\* A connection that is to close does close, its messages come back to the pool
\* and its objects are deleted, whatever fails or stays silent on the way:
\* unless the threads raced, or each waits for the lock of the other.
Gone == net.socket = "deleted" /\ net.protocol # "live" /\ net.inUse = {}
ClosedInTheEnd == net.state # "OPEN" ~> (Gone \/ raced \/ []Inverted)
=============================================================================
