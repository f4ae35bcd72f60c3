--------------------------- MODULE NetworkProofs ----------------------------
(***************************************************************************)
(* Theorems about Network, for any number of output messages: writes never *)
(* overlap, and nothing that was deleted is used, whatever order the two   *)
(* threads, the errors and the timers come in.                             *)
(*                                                                         *)
(* The methods take the objects n to new ones, so what they preserve is    *)
(* stated about n, and about whether the service thread is busy with a     *)
(* packet.                                                                 *)
(***************************************************************************)
EXTENDS Network, SumLemmas

-----------------------------------------------------------------------------
(* What holds of all objects at all times                                    *)

Reads == {"header", "packet"}
Writes == {"write"}

\* An operation of the kinds S is under way, or its completion is queued.
Begun(n, S) == n.ops \cap S # {} \/ \E i \in DOMAIN n.io : n.io[i].op \in S

\* There is one of the kinds S at most.
Single(n, S) ==
  /\ \A a, b \in n.ops \cap S : a = b
  /\ \A i, j \in DOMAIN n.io : n.io[i].op \in S /\ n.io[j].op \in S => i = j
  /\ n.ops \cap S # {} => \A i \in DOMAIN n.io : n.io[i].op \notin S

\* Every message is counted once by the connection and by the protocol.
Counted(n) ==
  /\ n.inUse \subseteq 1 .. n.created
  /\ n.refs = Cardinality(n.inUse) /\ n.protocolRefs = Cardinality(n.inUse)

\* An open connection has asked for a read, unless the service thread is busy
\* with a packet: then it is open, and will ask for the next when it is done.
Alive(n, busy) ==
  /\ n.state = "OPEN" => n.socket = "open"
  /\ busy => n.state = "OPEN" /\ n.pendingRead = 0 /\ ~Begun(n, Reads)
  /\ n.state = "OPEN" /\ ~busy => n.pendingRead = 1

\* There is one read at most and one write, with one message.
Reading(n) == Single(n, Reads)
Writing(n) ==
  /\ Single(n, Writes)
  /\ Begun(n, Writes) => n.writing # {}
  /\ \A a, b \in n.writing : a = b

\* A write is pending while there is one, as long as the connection is open.
Pending(n) ==
  /\ n.pendingWrite = 0 \/ (n.pendingWrite = 1 /\ n.writing # {} /\ n.socket = "open")
  /\ n.state = "OPEN" /\ n.pendingWrite = 0 => n.writing = {}

\* There is one request to close if the state says so.
Requested(n) ==
  /\ \A i, j \in DOMAIN n.tasks :
       n.tasks[i] = "closeConnection" /\ n.tasks[j] = "closeConnection" => i = j
  /\ n.state = "REQUEST_CLOSE"
       <=> \E i \in DOMAIN n.tasks : n.tasks[i] = "closeConnection"
  /\ "closeConnection" \notin n.rescheduled

\* The task t is queued for the dispatcher, or will be.
Due(n, t) == t \in n.rescheduled \/ \E i \in DOMAIN n.tasks : n.tasks[i] = t

\* The connection parts with its protocol before both are deleted.
Parting(n) ==
  /\ n.linked = n.hasProtocol
  /\ n.hasProtocol => n.protocol = "live"
  /\ n.state \in {"CLOSING", "CLOSED"} => ~n.hasProtocol
  /\ n.protocol = "deleted" => n.inUse = {} /\ n.state # "OPEN"
  /\ Due(n, "releaseProtocol") => ~n.hasProtocol /\ n.state # "OPEN"
  /\ Due(n, "releaseConnection") => n.state = "CLOSED"

Stops(n) == \E i \in DOMAIN n.io : n.io[i].op = "stop"

\* The socket is deleted last, after all operations on it.
Stopping(n) ==
  /\ n.state = "CLOSED" => n.socket # "open"
  /\ n.socket # "open" => n.ops = {}
  /\ Stops(n) \/ n.socket = "deleted" => n.state = "CLOSED" /\ n.inUse = {}
  /\ \A i, j \in DOMAIN n.io : n.io[i].op = "stop" /\ n.io[j].op \in Ops => j < i
  /\ n.socket = "deleted" => \A i \in DOMAIN n.io : n.io[i].op \notin Ops
  /\ ~n.nullUsed

Solid(n) ==
  n \in Nets /\ Counted(n) /\ Reading(n) /\ Writing(n) /\ Parting(n) /\ Stopping(n)

Whole(n, busy) == Solid(n) /\ Alive(n, busy) /\ Pending(n) /\ Requested(n)

Busy == service # "idle"

\* The busy service thread has a protocol, and a place for the message it will
\* take, or the message.
Serving ==
  /\ Busy => net.hasProtocol
  /\ service \in {"single", "buffer"} => net.created < MaxMessages
  /\ service = "send" => net.answer # NoMessage

NetInv == TypeOK /\ Serving /\ Whole(net, Busy)

-----------------------------------------------------------------------------
(* What the methods change *)

\* v is n but for the fields of F.
Same(n, v, F) == \A f \in DOMAIN n \ F : v[f] = n[f]

LEMMA CloseIs ==
  ASSUME NEW n \in Nets, n.state \notin {"CLOSED", "REQUEST_CLOSE"}
  PROVE  LET v == Close(n)
         IN  /\ v \in Nets /\ Same(n, v, {"state", "tasks"})
             /\ v.state = "REQUEST_CLOSE" /\ v.tasks = Append(n.tasks, "closeConnection")
<1> DEFINE v == Close(n)
           t == Append(n.tasks, "closeConnection")
<1>1. v = [n EXCEPT !.state = "REQUEST_CLOSE", !.tasks = t]
  BY DEF Close, Nets
<1>2. t \in Seq(Tasks)
  BY DEF Nets, Tasks
<1> HIDE DEF v, t
<1>3. v.state = "REQUEST_CLOSE" /\ v.tasks = t
  BY <1>1 DEF Nets
<1>4. v \in Nets
  BY <1>1, <1>2 DEF Nets
<1>5. Same(n, v, {"state", "tasks"})
  BY <1>1 DEF Nets, Same
<1> QED BY <1>3, <1>4, <1>5 DEF v, t

LEMMA SameFields ==
  ASSUME NEW n \in Nets, NEW v, NEW F, Same(n, v, F)
  PROVE  /\ "state" \notin F => v.state = n.state
         /\ "socket" \notin F => v.socket = n.socket
         /\ "nullUsed" \notin F => v.nullUsed = n.nullUsed
         /\ "pendingRead" \notin F => v.pendingRead = n.pendingRead
         /\ "pendingWrite" \notin F => v.pendingWrite = n.pendingWrite
         /\ "hasProtocol" \notin F => v.hasProtocol = n.hasProtocol
         /\ "refs" \notin F => v.refs = n.refs
         /\ "protocol" \notin F => v.protocol = n.protocol
         /\ "linked" \notin F => v.linked = n.linked
         /\ "protocolRefs" \notin F => v.protocolRefs = n.protocolRefs
         /\ "writing" \notin F => v.writing = n.writing
         /\ "created" \notin F => v.created = n.created
         /\ "inUse" \notin F => v.inUse = n.inUse
         /\ "ops" \notin F => v.ops = n.ops
         /\ "io" \notin F => v.io = n.io
         /\ "tasks" \notin F => v.tasks = n.tasks
         /\ "rescheduled" \notin F => v.rescheduled = n.rescheduled
         /\ "autoSend" \notin F => v.autoSend = n.autoSend
         /\ "answer" \notin F => v.answer = n.answer
BY DEF Nets, Same

\* Fields that Whole says nothing about.
Quiet == {"timers", "outputBuffer", "autoSend", "addQueue", "answer", "readError", "writeError"}

LEMMA QuietSolid ==
  ASSUME NEW n, NEW v \in Nets, NEW F, F \subseteq Quiet \cup {"pendingWrite", "pendingRead"},
         Solid(n), Same(n, v, F)
  PROVE  Solid(v)
<1>1. n \in Nets
  BY DEF Solid
<1>2. /\ v.state = n.state /\ v.socket = n.socket /\ v.nullUsed = n.nullUsed
      /\ v.hasProtocol = n.hasProtocol /\ v.refs = n.refs
      /\ v.protocol = n.protocol /\ v.linked = n.linked /\ v.protocolRefs = n.protocolRefs
      /\ v.writing = n.writing /\ v.created = n.created /\ v.inUse = n.inUse
      /\ v.ops = n.ops /\ v.io = n.io /\ v.tasks = n.tasks /\ v.rescheduled = n.rescheduled
  BY <1>1, SameFields DEF Quiet
<1> QED BY <1>2 DEF Solid, Counted, Reading, Writing, Parting, Stopping, Single, Begun, Due, Stops

LEMMA QuietAlive ==
  ASSUME NEW n \in Nets, NEW v \in Nets, NEW busy, NEW F, Same(n, v, F),
         F \cap {"state", "socket", "pendingRead", "ops", "io"} = {}, Alive(n, busy)
  PROVE  Alive(v, busy)
<1>1. /\ v.state = n.state /\ v.socket = n.socket /\ v.pendingRead = n.pendingRead
      /\ v.ops = n.ops /\ v.io = n.io
  BY SameFields
<1> QED BY <1>1 DEF Alive, Begun

LEMMA QuietPending ==
  ASSUME NEW n \in Nets, NEW v \in Nets, NEW F, Same(n, v, F),
         F \cap {"state", "socket", "pendingWrite", "writing"} = {}, Pending(n)
  PROVE  Pending(v)
<1>1. /\ v.state = n.state /\ v.socket = n.socket /\ v.pendingWrite = n.pendingWrite
      /\ v.writing = n.writing
  BY SameFields
<1> QED BY <1>1 DEF Pending

LEMMA QuietRequested ==
  ASSUME NEW n \in Nets, NEW v \in Nets, NEW F, Same(n, v, F),
         F \cap {"state", "tasks", "rescheduled"} = {}, Requested(n)
  PROVE  Requested(v)
<1>1. v.state = n.state /\ v.tasks = n.tasks /\ v.rescheduled = n.rescheduled
  BY SameFields
<1> QED BY <1>1 DEF Requested

LEMMA QuietWhole ==
  ASSUME NEW n, NEW v \in Nets, NEW busy, NEW F, F \subseteq Quiet, Same(n, v, F),
         Whole(n, busy)
  PROVE  Whole(v, busy)
<1>1. n \in Nets
  BY DEF Whole, Solid
<1>2. Solid(v)
  BY QuietSolid DEF Whole
<1>3. Alive(v, busy)
  BY <1>1, QuietAlive DEF Whole, Quiet
<1>4. Pending(v)
  BY <1>1, QuietPending DEF Whole, Quiet
<1>5. Requested(v)
  BY <1>1, QuietRequested DEF Whole, Quiet
<1> QED BY <1>2, <1>3, <1>4, <1>5 DEF Whole

-----------------------------------------------------------------------------
(* What is under way when the socket closes                                  *)

LEMMA AbortedIs ==
  ASSUME NEW n \in Nets
  PROVE  LET a == Aborted(n)
         IN  /\ a \in Seq(Completions)
             /\ \A i \in DOMAIN a : a[i].op \in n.ops
             /\ \A i, j \in DOMAIN a : a[i].op = a[j].op => i = j
<1> DEFINE Good(s, S) == /\ s \in Seq(Completions)
                         /\ \A i \in DOMAIN s : s[i].op \in S
                         /\ \A i, j \in DOMAIN s : s[i].op = s[j].op => i = j
           g(op) == IF op \in n.ops THEN <<Completed(op, "aborted")>> ELSE <<>>
<1>1. \A op \in Ops : Good(g(op), n.ops \cap {op})
  <2>1. TAKE op \in Ops
  <2>2. CASE op \in n.ops
    <3> DEFINE c == Completed(op, "aborted")
    <3>1. c \in Completions /\ c.op = op
      BY <2>1 DEF Completed, Completions
    <3> HIDE DEF c
    <3>2. Good(<<c>>, n.ops \cap {op})
      BY <2>2, <3>1
    <3> QED BY <2>2, <3>2 DEF c
  <2>3. CASE op \notin n.ops
    BY <2>3
  <2> QED BY <2>2, <2>3
<1>2. \A s, t, S, T : Good(s, S) /\ Good(t, T) /\ S \cap T = {} => Good(s \o t, S \cup T)
  <2>1. SUFFICES ASSUME NEW s, NEW t, NEW S, NEW T, Good(s, S), Good(t, T), S \cap T = {}
                 PROVE  Good(s \o t, S \cup T)
    OBVIOUS
  <2>2. \A i \in DOMAIN (s \o t) :
          \/ i \in DOMAIN s /\ (s \o t)[i] = s[i]
          \/ i - Len(s) \in DOMAIN t /\ (s \o t)[i] = t[i - Len(s)]
    BY <2>1
  <2>3. s \o t \in Seq(Completions)
    BY <2>1
  <2>4. \A i \in DOMAIN (s \o t) : i \in Int
    BY <2>3
  <2>5. \A i \in DOMAIN s : s[i].op \in S
    BY <2>1
  <2>6. \A i \in DOMAIN t : t[i].op \in T
    BY <2>1
  <2>7. Len(s) \in Nat
    BY <2>1
  <2> DEFINE u == s \o t
             d == DOMAIN u
  <2> HIDE DEF u, d
  <2>8. ASSUME NEW i \in d, NEW j \in d, u[i].op = u[j].op
        PROVE  i = j
    <3>1. \/ i \in DOMAIN s /\ u[i] = s[i]
          \/ i - Len(s) \in DOMAIN t /\ u[i] = t[i - Len(s)]
      BY <2>2 DEF u, d
    <3>2. \/ j \in DOMAIN s /\ u[j] = s[j]
          \/ j - Len(s) \in DOMAIN t /\ u[j] = t[j - Len(s)]
      BY <2>2 DEF u, d
    <3>3. i \in Int /\ j \in Int
      BY <2>4 DEF u, d
    <3>4. \/ i \in DOMAIN s /\ j \in DOMAIN s /\ s[i].op = s[j].op
          \/ /\ i - Len(s) \in DOMAIN t /\ j - Len(s) \in DOMAIN t
             /\ t[i - Len(s)].op = t[j - Len(s)].op
      BY <2>1, <2>5, <2>6, <2>8, <3>1, <3>2
    <3>5. \/ i = j
          \/ i - Len(s) = j - Len(s)
      BY <2>1, <3>4
    <3> QED BY <2>7, <3>3, <3>5
  <2>9. \A i \in d : u[i].op \in S \cup T
    BY <2>2, <2>5, <2>6 DEF u, d
  <2> QED BY <2>3, <2>8, <2>9 DEF u, d
<1> DEFINE S(op) == n.ops \cap {op}
<1> HIDE DEF Good, g
<1>3. Good(g("header") \o g("packet"), S("header") \cup S("packet"))
  BY <1>1, <1>2 DEF Ops
<1>4. Good(g("header") \o g("packet") \o g("write"), S("header") \cup S("packet") \cup S("write"))
  BY <1>1, <1>2, <1>3 DEF Ops
<1>5. S("header") \cup S("packet") \cup S("write") = n.ops
  BY DEF Nets, Ops
<1>6. Aborted(n) = g("header") \o g("packet") \o g("write")
  BY DEF Aborted, g
<1>7. Good(Aborted(n), n.ops)
  BY <1>4, <1>5, <1>6
<1> QED BY <1>7 DEF Good

\* A closed socket is not closed again, and nothing is under way on it.
LEMMA CloseSocketIs ==
  ASSUME NEW n \in Nets, n.socket # "deleted", n.socket # "open" => n.ops = {}
  PROVE  LET v == CloseSocket(n)
         IN  /\ v \in Nets /\ Same(n, v, {"socket", "pendingRead", "pendingWrite", "ops", "io"})
             /\ v.socket = "closed" /\ v.ops = {}
             /\ v.pendingWrite = IF n.socket = "open" THEN 0 ELSE n.pendingWrite
             /\ v.io = IF n.socket = "open" THEN n.io \o Aborted(n) ELSE n.io
<1>1. CASE n.socket = "open"
  <2> DEFINE v == CloseSocket(n)
             s == n.io \o Aborted(n)
  <2>1. v = [n EXCEPT !.socket = "closed", !.pendingRead = 0, !.pendingWrite = 0, !.ops = {},
                      !.io = s]
    BY <1>1 DEF CloseSocket
  <2>2. s \in Seq(Completions)
    BY AbortedIs, SMTT(30) DEF Nets
  <2> HIDE DEF v, s
  <2>3. v.socket = "closed" /\ v.ops = {} /\ v.pendingWrite = 0 /\ v.io = s
    BY <2>1 DEF Nets
  <2>4. v \in Nets
    <3>1. /\ "closed" \in {"open", "closed", "deleted"}
          /\ 0 \in 0..1 /\ 0 \in 0..2 /\ {} \in SUBSET Ops
      OBVIOUS
    <3> QED BY ONLY n \in Nets, <2>1, <2>2, <3>1 DEF Nets
  <2>5. Same(n, v, {"socket", "pendingRead", "pendingWrite", "ops", "io"})
    BY <2>1 DEF Nets, Same
  <2> QED BY <1>1, <2>3, <2>4, <2>5 DEF v, s
<1>2. CASE n.socket # "open"
  <2>1. n.socket = "closed"
    BY <1>2 DEF Nets
  <2>2. CloseSocket(n) = n
    BY <2>1 DEF CloseSocket
  <2>3. Same(n, n, {"socket", "pendingRead", "pendingWrite", "ops", "io"})
    BY DEF Same
  <2> QED BY <1>2, <2>1, <2>2, <2>3
<1> QED BY <1>1, <1>2

LEMMA CloseSocketSolid ==
  ASSUME NEW n, Solid(n), n.socket # "deleted"
  PROVE  Solid(CloseSocket(n))
<1> DEFINE v == CloseSocket(n)
<1>1. n \in Nets /\ (n.socket # "open" => n.ops = {})
  BY DEF Solid, Stopping
<1>2. /\ v \in Nets /\ Same(n, v, {"socket", "pendingRead", "pendingWrite", "ops", "io"})
      /\ v.socket = "closed" /\ v.ops = {}
      /\ v.io = IF n.socket = "open" THEN n.io \o Aborted(n) ELSE n.io
  BY <1>1, CloseSocketIs
<1> DEFINE a == IF n.socket = "open" THEN Aborted(n) ELSE <<>>
<1>3. /\ a \in Seq(Completions)
      /\ \A i \in DOMAIN a : a[i].op \in n.ops
      /\ \A i, j \in DOMAIN a : a[i].op = a[j].op => i = j
      /\ n.socket # "open" => a = <<>>
  BY <1>1, AbortedIs
<1>4. n.io \in Seq(Completions) /\ v.io = n.io \o a
  <2>1. n.io \in Seq(Completions)
    BY <1>1 DEF Nets
  <2>2. n.io \o <<>> = n.io
    BY <2>1
  <2> QED BY <1>2, <2>1, <2>2
<1> HIDE DEF v, a
<1>5. /\ v.state = n.state /\ v.nullUsed = n.nullUsed
      /\ v.hasProtocol = n.hasProtocol /\ v.refs = n.refs
      /\ v.protocol = n.protocol /\ v.linked = n.linked /\ v.protocolRefs = n.protocolRefs
      /\ v.writing = n.writing /\ v.created = n.created /\ v.inUse = n.inUse
      /\ v.tasks = n.tasks /\ v.rescheduled = n.rescheduled
  BY <1>1, <1>2, SameFields
<1>6. /\ Len(n.io) \in Nat
      /\ \A i \in DOMAIN v.io :
           i \in Int /\ \/ i \in DOMAIN n.io /\ v.io[i] = n.io[i]
                        \/ /\ i > Len(n.io) /\ i - Len(n.io) \in DOMAIN a
                           /\ v.io[i] = a[i - Len(n.io)]
  BY <1>3, <1>4
<1>7. ASSUME NEW S, Single(n, S)
      PROVE  Single(v, S)
  <2>1. ASSUME NEW i \in DOMAIN v.io, NEW j \in DOMAIN v.io, v.io[i].op \in S, v.io[j].op \in S
        PROVE  i = j
    <3>1. \/ i \in DOMAIN n.io /\ j \in DOMAIN n.io /\ n.io[i].op \in S /\ n.io[j].op \in S
          \/ /\ i - Len(n.io) \in DOMAIN a /\ j - Len(n.io) \in DOMAIN a
             /\ a[i - Len(n.io)].op \in S \cap n.ops /\ a[j - Len(n.io)].op \in S \cap n.ops
      BY <1>3, <1>6, <1>7, <2>1 DEF Single
    <3>2. \/ i = j
          \/ i - Len(n.io) = j - Len(n.io)
      BY <1>3, <1>7, <3>1 DEF Single
    <3> QED BY <1>6, <3>2
  <2> QED BY <1>2, <2>1 DEF Single
<1>8. ASSUME NEW S, Begun(v, S)
      PROVE  Begun(n, S)
  BY <1>2, <1>3, <1>6, <1>8 DEF Begun
<1>9. Counted(v) /\ Parting(v)
  BY <1>5 DEF Solid, Counted, Parting, Due
<1>10. Reading(v) /\ Writing(v)
  BY <1>5, <1>7, <1>8 DEF Solid, Reading, Writing
<1>11. Stopping(v)
  <2>1. \A i \in DOMAIN v.io : v.io[i].op \in Ops \/ (i \in DOMAIN n.io /\ v.io[i] = n.io[i])
    BY <1>1, <1>3, <1>6 DEF Nets
  <2>2. CASE n.socket = "open"
    <3>1. ~Stops(n)
      BY <2>2 DEF Solid, Stopping
    <3>2. \A i \in DOMAIN v.io : v.io[i].op # "stop"
      BY <2>1, <3>1 DEF Stops, Ops
    <3> QED BY <1>2, <1>5, <3>2 DEF Solid, Stopping, Stops
  <2>3. CASE n.socket # "open"
    <3>1. v.io = n.io
      BY <1>2, <2>3
    <3> QED BY <1>2, <1>5, <3>1 DEF Solid, Stopping, Stops
  <2> QED BY <2>2, <2>3
<1> QED BY <1>2, <1>9, <1>10, <1>11 DEF Solid, v

-----------------------------------------------------------------------------
(* Closing                                                                   *)

LEMMA CloseWhole ==
  ASSUME NEW n, Solid(n), Requested(n)
  PROVE  /\ Solid(Close(n)) /\ Requested(Close(n)) /\ Close(n).state # "OPEN"
         /\ Close(n).autoSend = n.autoSend
         /\ Pending(n) => Pending(Close(n))
<1>1. n \in Nets
  BY DEF Solid
<1>2. CASE n.state \in {"CLOSED", "REQUEST_CLOSE"}
  <2>1. Close(n) = n /\ n.state # "OPEN"
    BY <1>2 DEF Close
  <2> QED BY <2>1
<1>3. CASE n.state \notin {"CLOSED", "REQUEST_CLOSE"}
  <2> DEFINE v == Close(n)
  <2>1. /\ v \in Nets /\ Same(n, v, {"state", "tasks"})
        /\ v.state = "REQUEST_CLOSE" /\ v.tasks = Append(n.tasks, "closeConnection")
    BY <1>1, <1>3, CloseIs
  <2> HIDE DEF v
  <2>2. /\ v.socket = n.socket /\ v.nullUsed = n.nullUsed
        /\ v.pendingWrite = n.pendingWrite /\ v.hasProtocol = n.hasProtocol /\ v.refs = n.refs
        /\ v.protocol = n.protocol /\ v.linked = n.linked /\ v.protocolRefs = n.protocolRefs
        /\ v.writing = n.writing /\ v.created = n.created /\ v.inUse = n.inUse
        /\ v.ops = n.ops /\ v.io = n.io /\ v.rescheduled = n.rescheduled
        /\ v.autoSend = n.autoSend
    BY <1>1, <2>1, SameFields
  <2>3. n.tasks \in Seq(Tasks) /\ Len(n.tasks) \in Nat
    BY <1>1 DEF Nets
  <2>4. /\ DOMAIN v.tasks = 1 .. Len(n.tasks) + 1 /\ DOMAIN n.tasks = 1 .. Len(n.tasks)
        /\ \A i \in DOMAIN n.tasks : v.tasks[i] = n.tasks[i]
        /\ v.tasks[Len(n.tasks) + 1] = "closeConnection"
    BY <2>1, <2>3
  <2>5. \A t : t # "closeConnection" => (Due(v, t) <=> Due(n, t))
    BY <2>2, <2>3, <2>4 DEF Due
  <2>6. Counted(v) /\ Reading(v) /\ Writing(v)
    BY <2>2 DEF Solid, Counted, Reading, Writing, Single, Begun
  <2>7. Parting(v)
    BY <1>3, <2>1, <2>2, <2>5 DEF Solid, Parting
  <2>8. Stopping(v)
    BY <1>3, <2>1, <2>2 DEF Solid, Stopping, Stops
  <2>9. Requested(v)
    <3>1. \A i \in DOMAIN n.tasks : n.tasks[i] # "closeConnection"
      BY <1>3 DEF Requested
    <3>2. \A i \in DOMAIN v.tasks : v.tasks[i] = "closeConnection" <=> i = Len(n.tasks) + 1
      BY <2>3, <2>4, <3>1
    <3>3. Len(n.tasks) + 1 \in DOMAIN v.tasks
      BY <2>3, <2>4
    <3> QED BY <2>1, <2>2, <3>2, <3>3 DEF Requested
  <2>10. Pending(n) => Pending(v)
    BY <2>1, <2>2 DEF Pending
  <2> QED BY <2>1, <2>2, <2>6, <2>7, <2>8, <2>9, <2>10 DEF Solid, v
<1> QED BY <1>2, <1>3

\* A connection that is not open need not be reading.
LEMMA NotOpenAlive ==
  ASSUME NEW n, n.state # "OPEN"
  PROVE  Alive(n, FALSE)
BY DEF Alive

LEMMA CloseStaysWhole ==
  ASSUME NEW n, NEW busy, Whole(n, busy)
  PROVE  Whole(Close(n), FALSE) /\ Close(n).autoSend = n.autoSend
<1>1. /\ Solid(Close(n)) /\ Requested(Close(n)) /\ Close(n).state # "OPEN"
      /\ Pending(Close(n)) /\ Close(n).autoSend = n.autoSend
  BY CloseWhole DEF Whole
<1> QED BY <1>1, NotOpenAlive DEF Whole

\* The socket closes, whatever is under way on it, and the connection is to.
LEMMA ShutWhole ==
  ASSUME NEW n, Solid(n), Requested(n), n.socket # "deleted",
         n.socket # "open" => n.pendingWrite = 0
  PROVE  /\ Whole(Close(CloseSocket(n)), FALSE)
         /\ Close(CloseSocket(n)).autoSend = n.autoSend
<1> DEFINE c == CloseSocket(n)
<1>1. n \in Nets /\ (n.socket # "open" => n.ops = {})
  BY DEF Solid, Stopping
<1>2. /\ c \in Nets /\ Same(n, c, {"socket", "pendingRead", "pendingWrite", "ops", "io"})
      /\ c.pendingWrite = IF n.socket = "open" THEN 0 ELSE n.pendingWrite
  BY <1>1, CloseSocketIs
<1>3. Solid(c)
  BY CloseSocketSolid
<1> HIDE DEF c
<1>4. Requested(c)
  BY <1>1, <1>2, QuietRequested
<1>5. c.autoSend = n.autoSend
  BY <1>1, <1>2, SameFields
<1> DEFINE v == Close(c)
<1>6. Solid(v) /\ Requested(v) /\ v.state # "OPEN" /\ v.autoSend = c.autoSend
  BY <1>3, <1>4, CloseWhole
<1>7. v.pendingWrite = 0
  <2>1. c.pendingWrite = 0
    BY <1>2
  <2>2. CASE c.state \in {"CLOSED", "REQUEST_CLOSE"}
    BY <2>1, <2>2 DEF Close
  <2>3. CASE c.state \notin {"CLOSED", "REQUEST_CLOSE"}
    <3>1. v \in Nets /\ Same(c, v, {"state", "tasks"})
      BY <1>2, <2>3, CloseIs
    <3> QED BY <1>2, <2>1, <3>1, SameFields
  <2> QED BY <2>2, <2>3
<1> HIDE DEF v
<1>8. Pending(v)
  BY <1>6, <1>7 DEF Pending
<1>9. Alive(v, FALSE)
  BY <1>6, NotOpenAlive
<1> QED BY <1>5, <1>6, <1>8, <1>9 DEF Whole, v, c

\* The messages in use are as many as the counters say.
LEMMA InUseIs ==
  ASSUME NEW n \in Nets, Counted(n)
  PROVE  /\ IsFiniteSet(n.inUse)
         /\ n.refs = 0 \/ n.protocolRefs = 0 => n.inUse = {}
<1>1. n.created \in Int /\ 1 \in Int
  BY DEF Nets
<1>2. IsFiniteSet(1 .. n.created)
  BY <1>1, FS_Interval
<1>3. n.inUse \subseteq 1 .. n.created
  BY DEF Counted
<1>4. IsFiniteSet(n.inUse)
  BY <1>2, <1>3, FS_Subset
<1> QED BY <1>4, FS_EmptySet DEF Counted

LEMMA ReleaseConnectionIs ==
  ASSUME NEW n \in Nets
  PROVE  LET v == ReleaseConnection(n)
         IN  /\ v \in Nets /\ Same(n, v, {"rescheduled", "io"})
             /\ \/ n.refs > 0 /\ v.io = n.io
                   /\ v.rescheduled = n.rescheduled \cup {"releaseConnection"}
                \/ n.refs = 0 /\ v.io = Append(n.io, Completed("stop", "none"))
                   /\ v.rescheduled = n.rescheduled
<1> DEFINE v == ReleaseConnection(n)
           r == n.rescheduled \cup {"releaseConnection"}
           q == Append(n.io, Completed("stop", "none"))
<1>1. \/ n.refs > 0 /\ v = [n EXCEPT !.rescheduled = r]
      \/ n.refs = 0 /\ v = [n EXCEPT !.io = q]
  BY DEF ReleaseConnection, Nets
<1>2. r \in SUBSET Tasks
  BY DEF Nets, Tasks
<1>3. q \in Seq(Completions)
  <2>1. Completed("stop", "none") \in Completions
    BY DEF Completed, Completions
  <2> QED BY <2>1 DEF Nets
<1> HIDE DEF v, r, q
<1>4. \/ n.refs > 0 /\ v.io = n.io /\ v.rescheduled = r
      \/ n.refs = 0 /\ v.io = q /\ v.rescheduled = n.rescheduled
  BY <1>1 DEF Nets
<1>5. v \in Nets
  <2>1. CASE v = [n EXCEPT !.rescheduled = r]
    BY ONLY n \in Nets, <1>2, <2>1 DEF Nets
  <2>2. CASE v = [n EXCEPT !.io = q]
    BY ONLY n \in Nets, <1>3, <2>2 DEF Nets
  <2> QED BY <1>1, <2>1, <2>2
<1>6. Same(n, v, {"rescheduled", "io"})
  BY <1>1 DEF Nets, Same
<1> QED BY <1>4, <1>5, <1>6 DEF v, r, q

\* The last thing a connection does is to stop, when no message refers to it.
LEMMA ReleaseConnectionSolid ==
  ASSUME NEW n, Solid(n), n.state = "CLOSED"
  PROVE  LET v == ReleaseConnection(n)
         IN  /\ Solid(v) /\ v.state = n.state
             /\ Pending(n) => Pending(v)
             /\ Requested(n) => Requested(v)
<1> DEFINE v == ReleaseConnection(n)
<1>1. n \in Nets
  BY DEF Solid
<1>2. /\ v \in Nets /\ Same(n, v, {"rescheduled", "io"})
      /\ \/ n.refs > 0 /\ v.io = n.io
            /\ v.rescheduled = n.rescheduled \cup {"releaseConnection"}
         \/ n.refs = 0 /\ v.io = Append(n.io, Completed("stop", "none"))
            /\ v.rescheduled = n.rescheduled
  BY <1>1, ReleaseConnectionIs
<1> HIDE DEF v
<1>3. /\ v.state = n.state /\ v.socket = n.socket /\ v.nullUsed = n.nullUsed
      /\ v.pendingWrite = n.pendingWrite /\ v.hasProtocol = n.hasProtocol /\ v.refs = n.refs
      /\ v.protocol = n.protocol /\ v.linked = n.linked /\ v.protocolRefs = n.protocolRefs
      /\ v.writing = n.writing /\ v.created = n.created /\ v.inUse = n.inUse
      /\ v.ops = n.ops /\ v.tasks = n.tasks
  BY <1>1, <1>2, SameFields
<1>4. n.io \in Seq(Completions) /\ Len(n.io) \in Nat
  BY <1>1 DEF Nets
<1>5. \A i \in DOMAIN v.io :
        i \in Int /\ \/ i \in DOMAIN n.io /\ i <= Len(n.io) /\ v.io[i] = n.io[i]
                     \/ i = Len(n.io) + 1 /\ v.io[i].op = "stop" /\ n.refs = 0
  <2>1. Completed("stop", "none").op = "stop"
    BY DEF Completed
  <2> QED BY <1>2, <1>4, <2>1
<1>6. DOMAIN n.io = 1 .. Len(n.io)
  BY <1>4
<1>7. \A i \in DOMAIN v.io : v.io[i].op \in Ops => i \in DOMAIN n.io /\ v.io[i] = n.io[i]
  BY <1>5 DEF Ops
<1>8. Counted(v)
  BY <1>3 DEF Solid, Counted
<1>9. Reading(v) /\ Writing(v)
  <2>1. ASSUME NEW S, S \subseteq Ops
        PROVE  /\ Single(n, S) => Single(v, S)
               /\ Begun(v, S) => Begun(n, S)
    BY <1>3, <1>7, <2>1 DEF Single, Begun
  <2>2. Reads \subseteq Ops /\ Writes \subseteq Ops
    BY DEF Reads, Writes, Ops
  <2> QED BY <1>3, <2>1, <2>2 DEF Solid, Reading, Writing
<1>10. Parting(v)
  <2>1. v.rescheduled \subseteq n.rescheduled \cup {"releaseConnection"}
    BY <1>2
  <2>2. Due(v, "releaseProtocol") => Due(n, "releaseProtocol")
    BY <1>3, <2>1 DEF Due
  <2> QED BY <1>3, <2>2 DEF Solid, Parting
<1>11. Stopping(v)
  <2>1. Stops(v) \/ v.socket = "deleted" => n.inUse = {}
    <3>1. SUFFICES ASSUME Stops(v), ~Stops(n) PROVE n.inUse = {}
      BY <1>3 DEF Solid, Stopping
    <3>2. n.refs = 0
      BY <1>5, <3>1 DEF Stops
    <3> QED BY <1>1, <3>2, InUseIs DEF Solid
  <2>2. ASSUME NEW i \in DOMAIN v.io, NEW j \in DOMAIN v.io, v.io[i].op = "stop", v.io[j].op \in Ops
        PROVE  j < i
    <3>1. j \in DOMAIN n.io /\ v.io[j] = n.io[j] /\ j <= Len(n.io) /\ j \in Int
      BY <1>5, <1>6, <1>7, <2>2
    <3>2. CASE i \in DOMAIN n.io /\ v.io[i] = n.io[i]
      BY <2>2, <3>1, <3>2 DEF Solid, Stopping
    <3>3. CASE i = Len(n.io) + 1
      BY <1>4, <3>1, <3>3
    <3> QED BY <1>5, <3>2, <3>3
  <2>3. v.socket = "deleted" => \A i \in DOMAIN v.io : v.io[i].op \notin Ops
    BY <1>3, <1>7 DEF Solid, Stopping
  <2> QED BY <1>3, <2>1, <2>2, <2>3 DEF Solid, Stopping
<1>12. Pending(n) => Pending(v)
  BY <1>1, <1>2, QuietPending
<1>13. Requested(n) => Requested(v)
  <2>1. "closeConnection" \in v.rescheduled => "closeConnection" \in n.rescheduled
    BY <1>2
  <2> QED BY <1>3, <2>1 DEF Requested
<1> QED BY <1>2, <1>3, <1>8, <1>9, <1>10, <1>11, <1>12, <1>13 DEF Solid, v

LEMMA ReleaseProtocolIs ==
  ASSUME NEW n \in Nets
  PROVE  LET v == ReleaseProtocol(n)
         IN  /\ v \in Nets /\ Same(n, v, {"rescheduled", "protocol", "linked", "outputBuffer"})
             /\ \/ n.protocolRefs > 0 /\ v.protocol = n.protocol /\ v.linked = n.linked
                   /\ v.rescheduled = n.rescheduled \cup {"releaseProtocol"}
                \/ n.protocolRefs = 0 /\ v.protocol = "deleted" /\ v.linked = FALSE
                   /\ v.rescheduled = n.rescheduled
<1> DEFINE v == ReleaseProtocol(n)
           r == n.rescheduled \cup {"releaseProtocol"}
<1>1. \/ n.protocolRefs > 0 /\ v = [n EXCEPT !.rescheduled = r]
      \/ /\ n.protocolRefs = 0
         /\ v = [n EXCEPT !.protocol = "deleted", !.linked = FALSE, !.outputBuffer = NoMessage]
  BY DEF ReleaseProtocol, Nets
<1>2. r \in SUBSET Tasks
  BY DEF Nets, Tasks
<1>3. /\ "deleted" \in {"none", "live", "deleted"}
      /\ NoMessage \in Messages \cup {NoMessage} /\ FALSE \in BOOLEAN
  OBVIOUS
<1> HIDE DEF v, r
<1>4. \/ n.protocolRefs > 0 /\ v.protocol = n.protocol /\ v.linked = n.linked /\ v.rescheduled = r
      \/ n.protocolRefs = 0 /\ v.protocol = "deleted" /\ v.linked = FALSE
         /\ v.rescheduled = n.rescheduled
  BY <1>1 DEF Nets
<1>5. v \in Nets
  <2>1. CASE v = [n EXCEPT !.rescheduled = r]
    BY ONLY n \in Nets, <1>2, <2>1 DEF Nets
  <2>2. CASE v = [n EXCEPT !.protocol = "deleted", !.linked = FALSE, !.outputBuffer = NoMessage]
    BY ONLY n \in Nets, <1>3, <2>2 DEF Nets
  <2> QED BY <1>1, <2>1, <2>2
<1>6. Same(n, v, {"rescheduled", "protocol", "linked", "outputBuffer"})
  BY <1>1 DEF Nets, Same
<1> QED BY <1>4, <1>5, <1>6 DEF v, r

\* A protocol goes when the connection has let it go and no message refers to it.
LEMMA ReleaseProtocolSolid ==
  ASSUME NEW n, Solid(n), ~n.hasProtocol, n.state # "OPEN"
  PROVE  LET v == ReleaseProtocol(n)
         IN  /\ Solid(v) /\ Same(n, v, {"rescheduled", "protocol", "linked", "outputBuffer"})
             /\ v.rescheduled \subseteq n.rescheduled \cup {"releaseProtocol"}
             /\ Pending(n) => Pending(v)
             /\ Requested(n) => Requested(v)
<1> DEFINE v == ReleaseProtocol(n)
<1>1. n \in Nets
  BY DEF Solid
<1>2. /\ v \in Nets /\ Same(n, v, {"rescheduled", "protocol", "linked", "outputBuffer"})
      /\ \/ n.protocolRefs > 0 /\ v.protocol = n.protocol /\ v.linked = n.linked
            /\ v.rescheduled = n.rescheduled \cup {"releaseProtocol"}
         \/ n.protocolRefs = 0 /\ v.protocol = "deleted" /\ v.linked = FALSE
            /\ v.rescheduled = n.rescheduled
  BY <1>1, ReleaseProtocolIs
<1> HIDE DEF v
<1>3. /\ v.state = n.state /\ v.socket = n.socket /\ v.nullUsed = n.nullUsed
      /\ v.hasProtocol = n.hasProtocol /\ v.refs = n.refs
      /\ v.protocolRefs = n.protocolRefs
      /\ v.writing = n.writing /\ v.created = n.created /\ v.inUse = n.inUse
      /\ v.ops = n.ops /\ v.tasks = n.tasks /\ v.io = n.io
  BY <1>1, <1>2, SameFields
<1>4. v.rescheduled \subseteq n.rescheduled \cup {"releaseProtocol"}
  BY <1>2
<1>5. Counted(v) /\ Reading(v) /\ Writing(v) /\ Stopping(v)
  BY <1>3 DEF Solid, Counted, Reading, Writing, Stopping, Single, Begun, Stops
<1>6. Parting(v)
  <2>1. Due(v, "releaseConnection") => Due(n, "releaseConnection")
    BY <1>3, <1>4 DEF Due
  <2>2. v.protocol = "deleted" => v.inUse = {}
    <3>1. SUFFICES ASSUME n.protocolRefs = 0 PROVE n.inUse = {}
      BY <1>2, <1>3 DEF Solid, Parting
    <3> QED BY <1>1, <3>1, InUseIs DEF Solid
  <2>3. v.linked = v.hasProtocol
    <3>1. n.linked = n.hasProtocol
      BY DEF Solid, Parting
    <3>2. n.hasProtocol = FALSE
      BY <1>1 DEF Nets
    <3> QED BY <1>2, <1>3, <3>1, <3>2
  <2> QED BY <1>3, <2>1, <2>2, <2>3 DEF Solid, Parting
<1>7. Pending(n) => Pending(v)
  BY <1>1, <1>2, QuietPending
<1>8. Requested(n) => Requested(v)
  <2>1. "closeConnection" \in v.rescheduled => "closeConnection" \in n.rescheduled
    BY <1>4
  <2> QED BY <1>3, <2>1 DEF Requested
<1> QED BY <1>2, <1>4, <1>5, <1>6, <1>7, <1>8 DEF Solid, v

LEMMA StateSet ==
  ASSUME NEW n, Solid(n), ~n.hasProtocol, n.state = "REQUEST_CLOSE",
         NEW s \in {"CLOSING", "CLOSED"}, s = "CLOSED" => n.socket # "open"
  PROVE  LET v == [n EXCEPT !.state = s]
         IN  Solid(v) /\ Same(n, v, {"state"}) /\ v.state = s
<1> DEFINE v == [n EXCEPT !.state = s]
<1>1. n \in Nets
  BY DEF Solid
<1>2. v \in Nets /\ v.state = s
  BY <1>1 DEF Nets
<1>3. Same(n, v, {"state"})
  BY <1>1 DEF Nets, Same
<1> HIDE DEF v
<1>4. /\ v.socket = n.socket /\ v.nullUsed = n.nullUsed
      /\ v.hasProtocol = n.hasProtocol /\ v.refs = n.refs
      /\ v.protocol = n.protocol /\ v.linked = n.linked /\ v.protocolRefs = n.protocolRefs
      /\ v.writing = n.writing /\ v.created = n.created /\ v.inUse = n.inUse
      /\ v.ops = n.ops /\ v.io = n.io /\ v.tasks = n.tasks /\ v.rescheduled = n.rescheduled
  BY <1>1, <1>3, SameFields
<1>5. Counted(v) /\ Reading(v) /\ Writing(v)
  BY <1>4 DEF Solid, Counted, Reading, Writing, Single, Begun
<1>6. Parting(v)
  BY <1>2, <1>4 DEF Solid, Parting, Due
<1>7. Stopping(v)
  BY <1>2, <1>4 DEF Solid, Stopping, Stops
<1> QED BY <1>2, <1>3, <1>5, <1>6, <1>7 DEF Solid, v

LEMMA ReleaseAfterClosed ==
  ASSUME NEW n \in Nets
  PROVE  [ReleaseConnection(n) EXCEPT !.state = "CLOSED"]
           = ReleaseConnection([n EXCEPT !.state = "CLOSED"])
BY DEF ReleaseConnection, Nets

\* No request to close is queued.
Unasked(n) ==
  /\ \A i \in DOMAIN n.tasks : n.tasks[i] # "closeConnection"
  /\ "closeConnection" \notin n.rescheduled

\* The connection's part with its protocol, as CloseConnection has it
Parted(n) ==
  IF n.hasProtocol THEN ReleaseProtocol([n EXCEPT !.linked = FALSE, !.hasProtocol = FALSE])
                   ELSE n

LEMMA PartedSolid ==
  ASSUME NEW n, Solid(n), Pending(n), Unasked(n), n.state = "REQUEST_CLOSE"
  PROVE  LET p == Parted(n)
         IN  /\ Solid(p) /\ Pending(p) /\ Unasked(p) /\ p.state = "REQUEST_CLOSE"
             /\ ~p.hasProtocol /\ p.socket = n.socket /\ p.pendingWrite = n.pendingWrite
<1>1. CASE ~n.hasProtocol
  BY <1>1 DEF Parted
<1>2. CASE n.hasProtocol
  <2> DEFINE u == [n EXCEPT !.linked = FALSE, !.hasProtocol = FALSE]
             p == ReleaseProtocol(u)
  <2>1. n \in Nets
    BY DEF Solid
  <2>2. u \in Nets /\ ~u.linked /\ ~u.hasProtocol /\ u.linked = u.hasProtocol
    BY <2>1 DEF Nets
  <2>3. Same(n, u, {"linked", "hasProtocol"})
    BY <2>1 DEF Nets, Same
  <2> HIDE DEF u
  <2>4. /\ u.state = n.state /\ u.socket = n.socket /\ u.nullUsed = n.nullUsed
        /\ u.refs = n.refs /\ u.protocol = n.protocol /\ u.protocolRefs = n.protocolRefs
        /\ u.writing = n.writing /\ u.created = n.created /\ u.inUse = n.inUse
        /\ u.ops = n.ops /\ u.io = n.io /\ u.tasks = n.tasks /\ u.rescheduled = n.rescheduled
        /\ u.pendingWrite = n.pendingWrite
    BY <2>1, <2>3, SameFields
  <2>5. Counted(u) /\ Reading(u) /\ Writing(u) /\ Stopping(u)
    BY <2>4 DEF Solid, Counted, Reading, Writing, Stopping, Single, Begun, Stops
  <2>6. Parting(u)
    BY <2>2, <2>4 DEF Solid, Parting, Due
  <2>7. Solid(u)
    BY <2>2, <2>5, <2>6 DEF Solid
  <2>8. Pending(u)
    BY <2>4 DEF Pending
  <2>9. /\ Solid(p) /\ Same(u, p, {"rescheduled", "protocol", "linked", "outputBuffer"})
        /\ p.rescheduled \subseteq u.rescheduled \cup {"releaseProtocol"} /\ Pending(p)
    BY <2>2, <2>4, <2>7, <2>8, ReleaseProtocolSolid
  <2> HIDE DEF p
  <2>10. /\ p.state = u.state /\ p.hasProtocol = u.hasProtocol /\ p.socket = u.socket
         /\ p.pendingWrite = u.pendingWrite /\ p.tasks = u.tasks
    BY <2>2, <2>9, SameFields
  <2>11. Unasked(p)
    BY <2>4, <2>9, <2>10 DEF Unasked
  <2>12. Parted(n) = p
    BY <1>2 DEF Parted, p, u
  <2> QED BY <2>2, <2>4, <2>9, <2>10, <2>11, <2>12
<1> QED BY <1>1, <1>2

\* The task that closes the connection leaves it whole.
LEMMA CloseConnectionWhole ==
  ASSUME NEW n, Solid(n), Pending(n), Unasked(n), n.state = "REQUEST_CLOSE"
  PROVE  Whole(CloseConnection(n), FALSE)
<1> DEFINE p == Parted(n)
           c == CloseSocket(p)
           d == [c EXCEPT !.state = "CLOSED"]
           v == CloseConnection(n)
<1>1. v = IF n.pendingWrite > 0 /\ ~n.writeError THEN [p EXCEPT !.state = "CLOSING"]
          ELSE [ReleaseConnection(c) EXCEPT !.state = "CLOSED"]
  BY DEF CloseConnection, Parted
<1>2. /\ Solid(p) /\ Pending(p) /\ Unasked(p) /\ p.state = "REQUEST_CLOSE" /\ ~p.hasProtocol
  BY PartedSolid
<1> HIDE DEF p
<1>3. p \in Nets
  BY <1>2 DEF Solid
<1>4. p.socket # "deleted" /\ (p.socket # "open" => p.ops = {})
  BY <1>2 DEF Solid, Stopping
<1>5. CASE v = [p EXCEPT !.state = "CLOSING"]
  <2>1. Solid(v) /\ Same(p, v, {"state"}) /\ v.state = "CLOSING"
    BY <1>2, <1>5, StateSet
  <2> HIDE DEF v
  <2>2. /\ v.socket = p.socket /\ v.pendingWrite = p.pendingWrite /\ v.writing = p.writing
        /\ v.tasks = p.tasks /\ v.rescheduled = p.rescheduled
    BY <1>3, <2>1, SameFields
  <2>3. Pending(v)
    BY <1>2, <2>1, <2>2 DEF Pending
  <2>4. Requested(v)
    BY <1>2, <2>1, <2>2 DEF Requested, Unasked
  <2> QED BY <2>1, <2>3, <2>4, NotOpenAlive DEF Whole, v
<1>6. CASE v = [ReleaseConnection(c) EXCEPT !.state = "CLOSED"]
  <2>1. /\ c \in Nets /\ Same(p, c, {"socket", "pendingRead", "pendingWrite", "ops", "io"})
        /\ c.socket = "closed"
        /\ c.pendingWrite = IF p.socket = "open" THEN 0 ELSE p.pendingWrite
    BY <1>3, <1>4, CloseSocketIs
  <2>2. Solid(c)
    BY <1>2, <1>4, CloseSocketSolid
  <2> HIDE DEF c
  <2>3. /\ c.state = p.state /\ c.hasProtocol = p.hasProtocol
        /\ c.tasks = p.tasks /\ c.rescheduled = p.rescheduled
    BY <1>3, <2>1, SameFields
  <2>4. c.pendingWrite = 0
    BY <1>2, <2>1 DEF Pending
  <2>5. Solid(d) /\ Same(c, d, {"state"}) /\ d.state = "CLOSED"
    BY <1>2, <2>1, <2>2, <2>3, StateSet
  <2>6. v = ReleaseConnection(d)
    BY <1>6, <2>1, ReleaseAfterClosed
  <2> HIDE DEF d
  <2>7. d.pendingWrite = c.pendingWrite /\ d.tasks = c.tasks /\ d.rescheduled = c.rescheduled
    BY <2>1, <2>5, SameFields
  <2>8. Pending(d)
    BY <2>4, <2>5, <2>7 DEF Pending
  <2>9. Requested(d)
    BY <1>2, <2>3, <2>5, <2>7 DEF Requested, Unasked
  <2>10. Solid(v) /\ v.state = d.state /\ Pending(v) /\ Requested(v)
    BY <2>5, <2>6, <2>8, <2>9, ReleaseConnectionSolid
  <2> HIDE DEF v
  <2>11. Alive(v, FALSE)
    BY <2>5, <2>10, NotOpenAlive
  <2> QED BY <2>10, <2>11 DEF Whole, v
<1> QED BY <1>1, <1>5, <1>6

-----------------------------------------------------------------------------
(* Reading, and messages                                                     *)

\* A read is asked for by one who has none, while the socket is open.
LEMMA ReadAsked ==
  ASSUME NEW n, Solid(n), Pending(n), Requested(n), n.pendingRead = 0, n.socket = "open",
         ~Begun(n, Reads), NEW op \in Reads
  PROVE  LET v == Read(n, op)
         IN  Whole(v, FALSE) /\ v.autoSend = n.autoSend
<1> DEFINE v == Read(n, op)
           t == n.timers \cup {"readTimeout"}
           o == n.ops \cup {op}
           r == n.pendingRead + 1
<1>1. n \in Nets
  BY DEF Solid
<1>2. v = [n EXCEPT !.pendingRead = r, !.timers = t, !.ops = o]
  BY DEF Read
<1>3. t \in SUBSET Timers /\ o \in SUBSET Ops /\ r = 1 /\ r \in 0..1
  BY <1>1 DEF Nets, Timers, Ops, Reads
<1> HIDE DEF t, o, r, v
<1>4. v \in Nets
  BY <1>1, <1>2, <1>3, ZenonT(60) DEF Nets
<1>5. v.pendingRead = 1 /\ v.ops = o
  BY <1>1, <1>2, <1>3 DEF Nets
<1>6. Same(n, v, {"pendingRead", "timers", "ops"}) /\ v.autoSend = n.autoSend
  BY <1>1, <1>2 DEF Nets, Same
<1>7. /\ v.state = n.state /\ v.socket = n.socket /\ v.nullUsed = n.nullUsed
      /\ v.hasProtocol = n.hasProtocol /\ v.refs = n.refs
      /\ v.protocol = n.protocol /\ v.linked = n.linked /\ v.protocolRefs = n.protocolRefs
      /\ v.writing = n.writing /\ v.created = n.created /\ v.inUse = n.inUse
      /\ v.io = n.io /\ v.tasks = n.tasks /\ v.rescheduled = n.rescheduled
  BY <1>1, <1>6, SameFields
<1>8. Counted(v) /\ Parting(v)
  BY <1>7 DEF Solid, Counted, Parting, Due
<1>9. Reading(v)
  <2>1. v.ops \cap Reads = {op}
    BY <1>1, <1>5 DEF Begun, o
  <2>2. \A i \in DOMAIN v.io : v.io[i].op \notin Reads
    BY <1>1, <1>7 DEF Begun
  <2> QED BY <2>1, <2>2 DEF Reading, Single
<1>10. Writing(v)
  <2>1. v.ops \cap Writes = n.ops \cap Writes
    BY <1>5 DEF o, Reads, Writes
  <2> QED BY <1>7, <2>1 DEF Solid, Writing, Single, Begun
<1>11. Stopping(v)
  BY <1>1, <1>7 DEF Solid, Stopping, Stops
<1>12. Alive(v, FALSE)
  BY <1>1, <1>5, <1>7 DEF Alive
<1>13. Pending(v)
  BY <1>1, <1>4, <1>6, QuietPending
<1>14. Requested(v)
  BY <1>1, <1>4, <1>6, QuietRequested
<1> QED BY <1>4, <1>6, <1>7, <1>8, <1>9, <1>10, <1>11, <1>12, <1>13, <1>14 DEF Whole, Solid, v

\* The busy service thread asks for the next packet, and may have closed before.
LEMMA ReadWhole ==
  ASSUME NEW n, Whole(n, TRUE), NEW op \in Reads
  PROVE  \A m \in {n, Close(n)} :
           Whole(Read(m, op), FALSE) /\ Read(m, op).autoSend = n.autoSend
<1>1. /\ n \in Nets /\ n.pendingRead = 0 /\ n.state = "OPEN" /\ n.socket = "open"
      /\ ~Begun(n, Reads)
  BY DEF Whole, Solid, Alive
<1>2. Whole(Read(n, op), FALSE) /\ Read(n, op).autoSend = n.autoSend
  BY <1>1, ReadAsked DEF Whole
<1>3. Whole(Read(Close(n), op), FALSE) /\ Read(Close(n), op).autoSend = n.autoSend
  <2> DEFINE c == Close(n)
  <2>1. Same(n, c, {"state", "tasks"})
    BY <1>1, CloseIs
  <2>2. Solid(c) /\ Requested(c) /\ Pending(c)
    BY CloseWhole DEF Whole
  <2> HIDE DEF c
  <2>3. /\ c.pendingRead = n.pendingRead /\ c.socket = n.socket /\ c.ops = n.ops
        /\ c.io = n.io /\ c.autoSend = n.autoSend
    BY <1>1, <2>1, SameFields
  <2>4. ~Begun(c, Reads)
    BY <1>1, <2>3 DEF Begun
  <2>5. Whole(Read(c, op), FALSE) /\ Read(c, op).autoSend = c.autoSend
    BY <1>1, <2>2, <2>3, <2>4, ReadAsked
  <2> QED BY <2>3, <2>5 DEF c
<1> QED BY <1>2, <1>3

\* The reader that is called back is busy with what it read.
LEMMA ReadDone ==
  ASSUME NEW n, Whole(n, FALSE), n.state = "OPEN", ~Begun(n, Reads)
  PROVE  LET v == [n EXCEPT !.pendingRead = @ - 1]
         IN  /\ Whole(v, TRUE) /\ v.hasProtocol = n.hasProtocol /\ v.created = n.created
             /\ v.state = "OPEN" /\ v.autoSend = n.autoSend
<1> DEFINE r == n.pendingRead - 1
           v == [n EXCEPT !.pendingRead = r]
<1>1. n \in Nets /\ n.pendingRead = 1
  BY DEF Whole, Solid, Alive
<1>2. r = 0 /\ r \in 0..1
  BY <1>1
<1> HIDE DEF r
<1>3. v \in Nets /\ v.pendingRead = 0
  BY <1>1, <1>2 DEF Nets
<1>4. Same(n, v, {"pendingRead"})
  BY <1>1 DEF Nets, Same
<1> HIDE DEF v
<1>5. /\ v.state = n.state /\ v.socket = n.socket /\ v.ops = n.ops /\ v.io = n.io
      /\ v.hasProtocol = n.hasProtocol /\ v.created = n.created /\ v.autoSend = n.autoSend
  BY <1>1, <1>4, SameFields
<1>6. Solid(v)
  BY <1>3, <1>4, QuietSolid DEF Whole
<1>7. Alive(v, TRUE)
  BY <1>3, <1>5 DEF Whole, Alive, Begun
<1>8. Pending(v)
  BY <1>1, <1>3, <1>4, QuietPending DEF Whole
<1>9. Requested(v)
  BY <1>1, <1>3, <1>4, QuietRequested DEF Whole
<1> QED BY <1>5, <1>6, <1>7, <1>8, <1>9 DEF Whole, v, r

\* A protocol is made for an open connection that has none.
LEMMA WithProtocolWhole ==
  ASSUME NEW n, NEW busy, Whole(n, busy), n.state = "OPEN", ~n.hasProtocol
  PROVE  LET v == WithProtocol(n)
         IN  /\ Whole(v, busy) /\ v.hasProtocol /\ v.created = n.created
             /\ v.autoSend = n.autoSend
<1> DEFINE v == WithProtocol(n)
<1>1. n \in Nets
  BY DEF Whole, Solid
<1>2. v = [n EXCEPT !.hasProtocol = TRUE, !.protocol = "live", !.linked = TRUE]
  BY DEF WithProtocol
<1> HIDE DEF v
<1>3. v \in Nets /\ v.hasProtocol = TRUE /\ v.protocol = "live" /\ v.linked = TRUE
  BY <1>1, <1>2 DEF Nets
<1>4. Same(n, v, {"hasProtocol", "protocol", "linked"})
  BY <1>1, <1>2 DEF Nets, Same
<1>5. /\ v.state = n.state /\ v.socket = n.socket /\ v.nullUsed = n.nullUsed
      /\ v.refs = n.refs /\ v.protocolRefs = n.protocolRefs
      /\ v.writing = n.writing /\ v.created = n.created /\ v.inUse = n.inUse
      /\ v.ops = n.ops /\ v.io = n.io /\ v.tasks = n.tasks /\ v.rescheduled = n.rescheduled
      /\ v.autoSend = n.autoSend
  BY <1>1, <1>4, SameFields
<1>6. Counted(v) /\ Reading(v) /\ Writing(v) /\ Stopping(v)
  BY <1>5 DEF Whole, Solid, Counted, Reading, Writing, Stopping, Single, Begun, Stops
<1>7. Parting(v)
  BY <1>3, <1>5 DEF Whole, Solid, Parting, Due
<1>8. Alive(v, busy)
  BY <1>1, <1>3, <1>4, QuietAlive DEF Whole
<1>9. Pending(v)
  BY <1>1, <1>3, <1>4, QuietPending DEF Whole
<1>10. Requested(v)
  BY <1>1, <1>3, <1>4, QuietRequested DEF Whole
<1> QED BY <1>3, <1>5, <1>6, <1>7, <1>8, <1>9, <1>10 DEF Whole, Solid, v

\* One more message counts for the connection and for its protocol.
LEMMA AllocatedWhole ==
  ASSUME NEW n, NEW busy, Whole(n, busy), n.hasProtocol, n.created < MaxMessages
  PROVE  LET v == Allocated(n)
         IN  /\ Whole(v, busy) /\ v.hasProtocol /\ v.created = n.created + 1
             /\ v.autoSend = n.autoSend /\ v.answer = n.answer /\ v.state = n.state
             /\ n.created + 1 \in Messages
<1> DEFINE v == Allocated(n)
           m == n.created + 1
           u == n.inUse \cup {m}
           r == n.refs + 1
           p == n.protocolRefs + 1
<1>1. n \in Nets /\ Counted(n)
  BY DEF Whole, Solid
<1>2. v = [n EXCEPT !.created = m, !.inUse = u, !.refs = r, !.protocolRefs = p]
  BY DEF Allocated
<1>3. m \in Messages /\ m \in 0..MaxMessages /\ r \in Nat /\ p \in Nat
  <2>1. /\ n.created \in 0 .. MaxMessages /\ n.refs \in Nat /\ n.protocolRefs \in Nat
    BY <1>1 DEF Nets
  <2> QED BY <2>1, MaxMessagesAssumption DEF Messages
<1>4. u \in SUBSET Messages
  BY <1>1, <1>3 DEF Nets
<1>5. n.inUse \subseteq 1 .. n.created /\ n.created \in Nat
  BY <1>1 DEF Counted, Nets
<1>6. m \notin n.inUse
  BY <1>5
<1>7. IsFiniteSet(n.inUse)
  BY <1>1, InUseIs
<1>8. Cardinality(u) = Cardinality(n.inUse) + 1
  BY <1>6, <1>7, FS_AddElement
<1>9. u \subseteq 1 .. m
  BY <1>5
<1> HIDE DEF v, m, u, r, p
<1>10. v.created = m /\ v.inUse = u /\ v.refs = r /\ v.protocolRefs = p
  BY <1>1, <1>2 DEF Nets
<1>11. v \in Nets
  BY <1>1, <1>2, <1>3, <1>4 DEF Nets
<1> DEFINE F == {"created", "inUse", "refs", "protocolRefs"}
<1>12. Same(n, v, F) /\ v.autoSend = n.autoSend
  BY <1>1, <1>2 DEF Nets, Same
<1>13. /\ v.state = n.state /\ v.socket = n.socket /\ v.nullUsed = n.nullUsed
       /\ v.hasProtocol = n.hasProtocol /\ v.protocol = n.protocol /\ v.linked = n.linked
       /\ v.writing = n.writing /\ v.ops = n.ops /\ v.io = n.io
       /\ v.tasks = n.tasks /\ v.rescheduled = n.rescheduled
       /\ v.answer = n.answer
  <2> HIDE DEF F
  <2>1. /\ "state" \notin F /\ "socket" \notin F /\ "nullUsed" \notin F
        /\ "hasProtocol" \notin F /\ "protocol" \notin F /\ "linked" \notin F
        /\ "writing" \notin F /\ "ops" \notin F /\ "io" \notin F /\ "tasks" \notin F
        /\ "rescheduled" \notin F /\ "answer" \notin F
    BY DEF F
  <2> QED BY <1>1, <1>12, <2>1, SameFields, ZenonT(60)
<1>14. Counted(v)
  BY <1>1, <1>8, <1>9, <1>10 DEF Counted, r, p
<1>15. Reading(v) /\ Writing(v)
  BY <1>13 DEF Whole, Solid, Reading, Writing, Single, Begun
<1>16. Parting(v)
  BY <1>13 DEF Whole, Solid, Parting, Due
<1>17. Stopping(v)
  <2>1. n.state # "CLOSED"
    BY DEF Whole, Solid, Parting
  <2> QED BY <1>13, <2>1 DEF Whole, Solid, Stopping, Stops
<1>18. Alive(v, busy)
  BY <1>1, <1>11, <1>12, QuietAlive DEF Whole
<1>19. Pending(v)
  BY <1>1, <1>11, <1>12, QuietPending DEF Whole
<1>20. Requested(v)
  BY <1>1, <1>11, <1>12, QuietRequested DEF Whole
<1>21. Whole(v, busy)
  BY <1>11, <1>14, <1>15, <1>16, <1>17, <1>18, <1>19, <1>20 DEF Whole, Solid
<1> QED BY <1>3, <1>10, <1>12, <1>13, <1>21 DEF v, m

LEMMA NewBufferWhole ==
  ASSUME NEW n, NEW busy, Whole(n, busy), n.hasProtocol, n.created < MaxMessages
  PROVE  LET v == NewBuffer(n)
         IN  /\ Whole(v, busy) /\ v.hasProtocol /\ v.created = n.created + 1
             /\ v.answer = n.answer
             /\ Len(v.autoSend) = Len(n.autoSend) + 1
<1> DEFINE a == Allocated(n)
           m == n.created + 1
           s == Append(a.autoSend, m)
           v == NewBuffer(n)
<1>1. /\ Whole(a, busy) /\ a.hasProtocol /\ a.created = m
      /\ a.autoSend = n.autoSend /\ a.answer = n.answer /\ m \in Messages
  BY AllocatedWhole
<1>2. v = [a EXCEPT !.autoSend = s, !.outputBuffer = m]
  BY DEF NewBuffer
<1> HIDE DEF a, m
<1>3. a \in Nets
  BY <1>1 DEF Whole, Solid
<1>4. s \in Seq(Messages) /\ Len(s) = Len(a.autoSend) + 1
  BY <1>1, <1>3 DEF Nets
<1> HIDE DEF v, s
<1>5. v \in Nets
  BY <1>1, <1>2, <1>3, <1>4 DEF Nets
<1>6. Same(a, v, {"autoSend", "outputBuffer"}) /\ v.autoSend = s
  BY <1>2, <1>3 DEF Nets, Same
<1>7. v.hasProtocol = a.hasProtocol /\ v.created = a.created /\ v.answer = a.answer
  BY <1>3, <1>6, SameFields
<1>8. Whole(v, busy)
  BY <1>1, <1>5, <1>6, QuietWhole DEF Quiet
<1> QED BY <1>1, <1>4, <1>6, <1>7, <1>8 DEF v, m

LEMMA OnSendMessageIs ==
  ASSUME NEW n \in Nets, NEW m
  PROVE  OnSendMessage(n, m) \in Nets /\ Same(n, OnSendMessage(n, m), {"outputBuffer"})
<1>1. CASE n.outputBuffer = m
  <2> DEFINE v == [n EXCEPT !.outputBuffer = NoMessage]
  <2>1. NoMessage \in Messages \cup {NoMessage}
    OBVIOUS
  <2>2. v \in Nets
    BY <2>1 DEF Nets
  <2>3. Same(n, v, {"outputBuffer"})
    BY DEF Nets, Same
  <2> QED BY <1>1, <2>2, <2>3 DEF OnSendMessage
<1>2. CASE n.outputBuffer # m
  BY <1>2 DEF OnSendMessage, Same
<1> QED BY <1>1, <1>2

\* A write starts when none is pending, so there is none under way.
LEMMA InternalSendWhole ==
  ASSUME NEW n, NEW busy, Whole(n, busy), NEW m \in Messages,
         n.state = "OPEN", n.pendingWrite = 0
  PROVE  LET v == InternalSend(n, m)
         IN  /\ Whole(v, busy) /\ v.hasProtocol = n.hasProtocol /\ v.created = n.created
             /\ v.autoSend = n.autoSend /\ v.answer = n.answer /\ v.state = n.state
<1> DEFINE v == InternalSend(n, m)
           p == n.pendingWrite + 1
           t == n.timers \cup {"writeTimeout"}
           o == n.ops \cup {"write"}
           w == n.writing \cup {m}
<1>1. n \in Nets /\ n.socket = "open" /\ n.writing = {}
  BY DEF Whole, Solid, Alive, Pending
<1>2. ~Begun(n, Writes)
  BY <1>1 DEF Whole, Solid, Writing
<1>3. v = [n EXCEPT !.pendingWrite = p, !.timers = t, !.ops = o, !.writing = w]
  BY DEF InternalSend
<1>4. p = 1 /\ p \in 0..2 /\ t \in SUBSET Timers /\ o \in SUBSET Ops /\ w \in SUBSET Messages
  BY <1>1 DEF Nets, Timers, Ops
<1> HIDE DEF v, p, t, o, w
<1>5. v \in Nets
  BY <1>1, <1>3, <1>4, ZenonT(60) DEF Nets
<1>6. v.pendingWrite = 1 /\ v.ops = o /\ v.writing = w
  BY <1>1, <1>3, <1>4 DEF Nets
<1>7. Same(n, v, {"pendingWrite", "timers", "ops", "writing"})
  BY <1>1, <1>3 DEF Nets, Same
<1>8. /\ v.state = n.state /\ v.socket = n.socket /\ v.nullUsed = n.nullUsed
      /\ v.hasProtocol = n.hasProtocol /\ v.refs = n.refs /\ v.autoSend = n.autoSend
      /\ v.protocol = n.protocol /\ v.linked = n.linked /\ v.protocolRefs = n.protocolRefs
      /\ v.created = n.created /\ v.inUse = n.inUse /\ v.pendingRead = n.pendingRead
      /\ v.io = n.io /\ v.tasks = n.tasks /\ v.rescheduled = n.rescheduled
      /\ v.answer = n.answer
  BY <1>1, <1>7, SameFields
<1>9. Counted(v) /\ Parting(v)
  BY <1>8 DEF Whole, Solid, Counted, Parting, Due
<1>10. v.ops \cap Reads = n.ops \cap Reads
  BY <1>6 DEF o, Reads
<1>11. Reading(v) /\ Alive(v, busy)
  BY <1>8, <1>10 DEF Whole, Solid, Reading, Single, Alive, Begun
<1>12. Writing(v)
  <2>1. v.ops \cap Writes = {"write"}
    BY <1>6 DEF o, Writes
  <2>2. \A i \in DOMAIN v.io : v.io[i].op \notin Writes
    BY <1>2, <1>8 DEF Begun
  <2>3. v.writing = {m}
    BY <1>1, <1>6 DEF w
  <2> QED BY <2>1, <2>2, <2>3 DEF Writing, Single
<1>13. Stopping(v)
  BY <1>1, <1>8 DEF Whole, Solid, Stopping, Stops
<1>14. Pending(v)
  BY <1>1, <1>6, <1>8 DEF Pending, w
<1>15. Requested(v)
  BY <1>1, <1>5, <1>7, QuietRequested DEF Whole
<1> QED BY <1>5, <1>8, <1>9, <1>11, <1>12, <1>13, <1>14, <1>15 DEF Whole, Solid, v

LEMMA SendWhole ==
  ASSUME NEW n, NEW busy, Whole(n, busy), NEW m \in Messages
  PROVE  LET v == Send(n, m)
         IN  /\ Whole(v, busy) /\ v.hasProtocol = n.hasProtocol /\ v.created = n.created
             /\ v.autoSend = n.autoSend /\ v.answer = n.answer
<1> DEFINE s == OnSendMessage(n, m)
<1>1. n \in Nets
  BY DEF Whole, Solid
<1>2. s \in Nets /\ Same(n, s, {"outputBuffer"})
  BY <1>1, OnSendMessageIs
<1> HIDE DEF s
<1>3. /\ s.state = n.state /\ s.pendingWrite = n.pendingWrite /\ s.hasProtocol = n.hasProtocol
      /\ s.created = n.created /\ s.autoSend = n.autoSend
      /\ s.answer = n.answer
  BY <1>1, <1>2, SameFields
<1>4. Whole(s, busy)
  BY <1>2, QuietWhole DEF Quiet
<1>5. CASE n.state # "OPEN" \/ n.writeError
  BY <1>3, <1>4, <1>5 DEF Send, s
<1>6. CASE n.state = "OPEN" /\ ~n.writeError /\ NoWritePending(n)
  <2>1. Send(n, m) = InternalSend(s, m)
    BY <1>6 DEF Send, s
  <2> QED BY <1>3, <1>4, <1>6, <2>1, InternalSendWhole DEF NoWritePending
<1>7. CASE n.state = "OPEN" /\ ~n.writeError /\ ~NoWritePending(n)
  <2> DEFINE q == Append(n.addQueue, m)
             v == [n EXCEPT !.addQueue = q]
  <2>1. q \in Seq(Messages)
    BY <1>1 DEF Nets
  <2> HIDE DEF q
  <2>2. v \in Nets
    BY <1>1, <2>1 DEF Nets
  <2>3. Same(n, v, {"addQueue"})
    BY <1>1 DEF Nets, Same
  <2>4. Send(n, m) = v
    BY <1>7 DEF Send, q
  <2> HIDE DEF v
  <2>5. /\ v.hasProtocol = n.hasProtocol /\ v.created = n.created /\ v.autoSend = n.autoSend
        /\ v.answer = n.answer
    BY <1>1, <2>3, SameFields
  <2>6. Whole(v, busy)
    BY <2>2, <2>3, QuietWhole DEF Quiet
  <2> QED BY <2>4, <2>5, <2>6
<1> QED BY <1>5, <1>6, <1>7

-----------------------------------------------------------------------------
(* What the service thread runs                                              *)

\* A read that has ended keeps the connection whole; where it was no failure,
\* only its timer is gone.
LEMMA ReadEndedWhole ==
  ASSUME NEW n, Whole(n, FALSE), NEW e
  PROVE  LET v == ReadEnded(n, e)
         IN  /\ Whole(v, FALSE) /\ v.autoSend = n.autoSend
             /\ Usable(v) => /\ v.state = "OPEN" /\ v.ops = n.ops /\ v.io = n.io
                             /\ v.hasProtocol = n.hasProtocol /\ v.created = n.created
<1> DEFINE t == n.timers \ {"readTimeout"}
           q == [n EXCEPT !.timers = t]
           v == ReadEnded(n, e)
<1>1. n \in Nets
  BY DEF Whole, Solid
<1>2. t \in SUBSET Timers
  BY <1>1 DEF Nets
<1> HIDE DEF t
<1>3. q \in Nets
  BY <1>1, <1>2 DEF Nets
<1>4. Same(n, q, {"timers"})
  BY <1>1 DEF Nets, Same
<1>5. v = IF e = "none" THEN q ELSE HandleReadError(q, e)
  BY DEF ReadEnded, t
<1> HIDE DEF q, v
<1>6. Whole(q, FALSE)
  BY <1>3, <1>4, QuietWhole DEF Quiet
<1>7. /\ q.ops = n.ops /\ q.io = n.io /\ q.hasProtocol = n.hasProtocol
      /\ q.created = n.created /\ q.autoSend = n.autoSend
  BY <1>1, <1>4, SameFields
<1>8. CASE e = "none"
  <2> QED BY <1>5, <1>6, <1>8, <1>7 DEF Usable, v
<1>9. CASE e # "none"
  <2> DEFINE c == IF e = "aborted" THEN q ELSE Close(q)
  <2>1. Whole(c, FALSE) /\ c.autoSend = q.autoSend
    BY <1>6, CloseStaysWhole
  <2>2. v = [c EXCEPT !.readError = TRUE]
    BY <1>5, <1>9 DEF HandleReadError
  <2> HIDE DEF c
  <2>3. c \in Nets
    BY <2>1 DEF Whole, Solid
  <2>4. v \in Nets /\ v.readError = TRUE
    BY <2>2, <2>3 DEF Nets
  <2>5. Same(c, v, {"readError"})
    BY <2>2, <2>3 DEF Nets, Same
  <2>6. Whole(v, FALSE)
    BY <2>1, <2>4, <2>5, QuietWhole DEF Quiet
  <2>7. v.autoSend = c.autoSend
    BY <2>3, <2>5, SameFields
  <2> QED BY <1>7, <2>1, <2>4, <2>6, <2>7 DEF Usable, v
<1> QED BY <1>8, <1>9

\* The write that has ended was the only one.
LEMMA OnWriteWhole ==
  ASSUME NEW n, Whole(n, FALSE), ~Begun(n, Writes), n.writing # {}, n.socket # "deleted", NEW e
  PROVE  LET v == OnWrite(n, e)
         IN  Whole(v, FALSE) /\ v.autoSend = n.autoSend
<1> DEFINE t == n.timers \ {"writeTimeout"}
           done == [n EXCEPT !.timers = t, !.writing = {}]
           seen == IF e = "none" THEN done ELSE HandleWriteError(done, e)
           v == OnWrite(n, e)
<1>1. n \in Nets
  BY DEF Whole, Solid
<1>2. t \in SUBSET Timers /\ {} \in SUBSET Messages
  BY <1>1 DEF Nets
<1> HIDE DEF t
<1>3. done \in Nets /\ done.writing = {}
  BY <1>1, <1>2 DEF Nets
<1>4. Same(n, done, {"timers", "writing"})
  BY <1>1 DEF Nets, Same
<1>5. v = IF seen.state # "OPEN" \/ seen.writeError THEN Close(CloseSocket(seen))
          ELSE [seen EXCEPT !.pendingWrite = @ - 1]
  BY DEF OnWrite, t
<1> HIDE DEF done, v
<1>6. /\ done.state = n.state /\ done.socket = n.socket /\ done.nullUsed = n.nullUsed
      /\ done.pendingWrite = n.pendingWrite /\ done.hasProtocol = n.hasProtocol
      /\ done.refs = n.refs
      /\ done.protocol = n.protocol /\ done.linked = n.linked
      /\ done.protocolRefs = n.protocolRefs
      /\ done.created = n.created /\ done.inUse = n.inUse
      /\ done.ops = n.ops /\ done.io = n.io /\ done.tasks = n.tasks
      /\ done.rescheduled = n.rescheduled /\ done.autoSend = n.autoSend
  BY <1>1, <1>4, SameFields
<1>7. Counted(done) /\ Reading(done) /\ Parting(done) /\ Stopping(done)
  BY <1>6 DEF Whole, Solid, Counted, Reading, Parting, Stopping, Single, Begun, Due, Stops
<1>8. Writing(done)
  <2>1. ~Begun(done, Writes)
    BY <1>6 DEF Begun
  <2> QED BY <1>3, <1>6, <2>1 DEF Whole, Solid, Writing, Single
<1>9. Solid(done)
  BY <1>3, <1>7, <1>8 DEF Solid
<1>10. Alive(done, FALSE)
  BY <1>1, <1>3, <1>4, QuietAlive DEF Whole
<1>11. Requested(done)
  BY <1>1, <1>3, <1>4, QuietRequested DEF Whole
<1>12. done.socket # "open" => done.pendingWrite = 0
  BY <1>6 DEF Whole, Pending
<1>13. CASE e = "none" /\ done.state = "OPEN" /\ ~done.writeError
  <2> DEFINE p == done.pendingWrite - 1
  <2>1. n.pendingWrite = 1
    BY <1>6, <1>13 DEF Whole, Pending
  <2>2. p = 0 /\ p \in 0..2
    BY <1>6, <2>1
  <2>3. v = [done EXCEPT !.pendingWrite = p]
    BY <1>5, <1>13
  <2> HIDE DEF p
  <2>4. v \in Nets /\ v.pendingWrite = 0
    BY <1>3, <2>2, <2>3 DEF Nets
  <2>5. Same(done, v, {"pendingWrite"})
    BY <1>3, <2>3 DEF Nets, Same
  <2>6. v.writing = done.writing /\ v.autoSend = done.autoSend
    BY <1>3, <2>5, SameFields
  <2>7. Solid(v)
    BY <1>9, <2>4, <2>5, QuietSolid
  <2>8. Alive(v, FALSE)
    BY <1>3, <1>10, <2>4, <2>5, QuietAlive
  <2>9. Pending(v)
    BY <1>3, <2>4, <2>6 DEF Pending
  <2>10. Requested(v)
    BY <1>3, <1>11, <2>4, <2>5, QuietRequested
  <2> QED BY <1>6, <2>6, <2>7, <2>8, <2>9, <2>10 DEF Whole, v
<1>14. CASE e = "none" /\ (done.state # "OPEN" \/ done.writeError)
  <2>1. v = Close(CloseSocket(done))
    BY <1>5, <1>14
  <2>2. done.socket # "deleted"
    BY <1>6
  <2> QED BY <1>6, <1>9, <1>11, <1>12, <2>1, <2>2, ShutWhole DEF v
<1>15. CASE e # "none"
  <2> DEFINE c == IF e = "aborted" THEN done ELSE Close(done)
             s == [c EXCEPT !.writeError = TRUE]
  <2>1. Solid(c) /\ Requested(c) /\ c.autoSend = done.autoSend
    BY <1>9, <1>11, CloseWhole
  <2>2. c.socket = done.socket /\ c.pendingWrite = done.pendingWrite
    <3>1. CASE c = done
      BY <3>1
    <3>2. CASE c = Close(done) /\ done.state \notin {"CLOSED", "REQUEST_CLOSE"}
      <4>1. Same(done, c, {"state", "tasks"})
        BY <1>3, <3>2, CloseIs
      <4> QED BY <1>3, <4>1, SameFields
    <3>3. CASE c = Close(done) /\ done.state \in {"CLOSED", "REQUEST_CLOSE"}
      BY <3>3 DEF Close
    <3> QED BY <3>1, <3>2, <3>3
  <2> HIDE DEF c
  <2>3. c \in Nets
    BY <2>1 DEF Solid
  <2>4. s \in Nets /\ s.writeError = TRUE
    BY <2>3 DEF Nets
  <2>5. Same(c, s, {"writeError"})
    BY <2>3 DEF Nets, Same
  <2>6. seen = s
    BY <1>15 DEF HandleWriteError, c
  <2> HIDE DEF s
  <2>7. v = Close(CloseSocket(s))
    BY <1>5, <2>4, <2>6
  <2>8. Solid(s)
    BY <2>1, <2>4, <2>5, QuietSolid DEF Quiet
  <2>9. Requested(s)
    BY <2>1, <2>3, <2>4, <2>5, QuietRequested
  <2>10. /\ s.socket = c.socket /\ s.pendingWrite = c.pendingWrite
         /\ s.autoSend = c.autoSend
    BY <2>3, <2>5, SameFields
  <2>11. s.socket # "deleted" /\ (s.socket # "open" => s.pendingWrite = 0)
    BY <1>6, <1>12, <2>2, <2>10
  <2> QED BY <1>6, <2>1, <2>7, <2>8, <2>9, <2>10, <2>11, ShutWhole DEF v
<1> QED BY <1>13, <1>14, <1>15

LEMMA TimeoutWhole ==
  ASSUME NEW n, Whole(n, FALSE)
  PROVE  \A v \in {n, OnReadTimeout(n), OnWriteTimeout(n)} :
           v = n \/ ~Destroyed(n) => Whole(v, FALSE) /\ v.autoSend = n.autoSend
<1>1. ~Destroyed(n) => n.socket # "deleted"
  <2>1. SUFFICES ASSUME n.socket = "deleted" PROVE Destroyed(n)
    OBVIOUS
  <2>2. /\ n.state = "CLOSED" /\ n.inUse = {} /\ n.ops = {}
        /\ \A i \in DOMAIN n.io : n.io[i].op \notin Ops
    BY <2>1 DEF Whole, Solid, Stopping
  <2>3. ~n.linked
    BY <2>2 DEF Whole, Solid, Parting
  <2> QED BY <2>1, <2>2, <2>3 DEF Destroyed
<1>2. n.socket # "open" => n.pendingWrite = 0
  BY DEF Whole, Pending
<1>3. ~Destroyed(n) => /\ Whole(Close(CloseSocket(n)), FALSE)
                       /\ Close(CloseSocket(n)).autoSend = n.autoSend
  BY <1>1, <1>2, ShutWhole DEF Whole
<1> QED BY <1>3 DEF OnReadTimeout, OnWriteTimeout

\* The socket is deleted when nothing is left to do on it.
LEMMA OnStopWhole ==
  ASSUME NEW n, Whole(n, FALSE), n.state = "CLOSED", n.inUse = {},
         \A i \in DOMAIN n.io : n.io[i].op \notin Ops
  PROVE  Whole(OnStop(n), FALSE) /\ OnStop(n).autoSend = n.autoSend
<1> DEFINE v == OnStop(n)
<1>1. n \in Nets
  BY DEF Whole, Solid
<1>2. v = [n EXCEPT !.timers = {}, !.socket = "deleted"]
  BY DEF OnStop
<1>3. {} \in SUBSET Timers /\ "deleted" \in {"open", "closed", "deleted"}
  OBVIOUS
<1> HIDE DEF v
<1>4. v \in Nets
  BY <1>1, <1>2, <1>3 DEF Nets
<1>5. v.socket = "deleted"
  BY <1>1, <1>2 DEF Nets
<1>6. Same(n, v, {"timers", "socket"})
  BY <1>1, <1>2 DEF Nets, Same
<1>7. /\ v.state = n.state /\ v.nullUsed = n.nullUsed
      /\ v.pendingWrite = n.pendingWrite /\ v.hasProtocol = n.hasProtocol /\ v.refs = n.refs
      /\ v.protocol = n.protocol /\ v.linked = n.linked /\ v.protocolRefs = n.protocolRefs
      /\ v.writing = n.writing /\ v.created = n.created /\ v.inUse = n.inUse
      /\ v.ops = n.ops /\ v.io = n.io /\ v.tasks = n.tasks /\ v.rescheduled = n.rescheduled
      /\ v.autoSend = n.autoSend
  BY <1>1, <1>6, SameFields
<1>8. Counted(v) /\ Reading(v) /\ Writing(v) /\ Parting(v)
  BY <1>7 DEF Whole, Solid, Counted, Reading, Writing, Parting, Single, Begun, Due
<1>9. Stopping(v)
  <2>1. v.ops = {}
    BY <1>7 DEF Whole, Solid, Stopping
  <2> QED BY <1>5, <1>7, <2>1 DEF Whole, Solid, Stopping, Stops
<1>10. Alive(v, FALSE)
  BY <1>7, NotOpenAlive
<1>11. Pending(v)
  <2>1. n.socket # "open"
    BY DEF Whole, Solid, Stopping
  <2> QED BY <1>7, <2>1 DEF Whole, Pending
<1>12. Requested(v)
  BY <1>1, <1>4, <1>6, QuietRequested DEF Whole
<1> QED BY <1>4, <1>7, <1>8, <1>9, <1>10, <1>11, <1>12 DEF Whole, Solid, v

\* A completion is taken from the queue: what it completes is not under way.
LEMMA TakenWhole ==
  ASSUME NEW n, NEW busy, Whole(n, busy), n.io # <<>>
  PROVE  LET v == [n EXCEPT !.io = Tail(@)]
             op == Head(n.io).op
         IN  /\ Whole(v, busy) /\ v.hasProtocol = n.hasProtocol /\ v.created = n.created
             /\ v.autoSend = n.autoSend
             /\ op \in Reads => ~Begun(v, Reads)
             /\ op = "write" => ~Begun(v, Writes) /\ v.writing # {} /\ v.socket # "deleted"
             /\ op = "stop" => /\ v.state = "CLOSED" /\ v.inUse = {}
                               /\ \A i \in DOMAIN v.io : v.io[i].op \notin Ops
<1> DEFINE q == Tail(n.io)
           v == [n EXCEPT !.io = q]
           op == Head(n.io).op
<1>1. n \in Nets
  BY DEF Whole, Solid
<1>2. n.io \in Seq(Completions) /\ n.io # <<>>
  BY <1>1 DEF Nets
<1>3. /\ q \in Seq(Completions) /\ Len(n.io) \in Nat /\ Len(q) = Len(n.io) - 1
      /\ DOMAIN n.io = 1 .. Len(n.io) /\ DOMAIN q = 1 .. Len(n.io) - 1
      /\ \A i \in DOMAIN q : q[i] = n.io[i + 1]
  BY <1>2
<1>4. 1 \in DOMAIN n.io /\ n.io[1].op = op
  BY <1>2
<1>5. \A i \in DOMAIN q : i \in Int /\ i + 1 \in DOMAIN n.io /\ i + 1 # 1 /\ q[i] = n.io[i + 1]
  BY <1>3
<1> HIDE DEF q, op
<1>6. v \in Nets /\ v.io = q
  BY <1>1, <1>3 DEF Nets
<1>7. Same(n, v, {"io"})
  BY <1>1 DEF Nets, Same
<1> HIDE DEF v
<1>8. /\ v.state = n.state /\ v.socket = n.socket /\ v.nullUsed = n.nullUsed
      /\ v.pendingRead = n.pendingRead
      /\ v.pendingWrite = n.pendingWrite /\ v.hasProtocol = n.hasProtocol /\ v.refs = n.refs
      /\ v.protocol = n.protocol /\ v.linked = n.linked /\ v.protocolRefs = n.protocolRefs
      /\ v.writing = n.writing /\ v.created = n.created /\ v.inUse = n.inUse
      /\ v.ops = n.ops /\ v.tasks = n.tasks /\ v.rescheduled = n.rescheduled
      /\ v.autoSend = n.autoSend
  BY <1>1, <1>7, SameFields
<1>9. ASSUME NEW S
      PROVE  /\ Single(n, S) => Single(v, S)
             /\ Begun(v, S) => Begun(n, S)
             /\ Single(n, S) /\ op \in S => ~Begun(v, S) /\ Begun(n, S)
  <2>1. Begun(v, S) => Begun(n, S)
    BY <1>5, <1>6, <1>8 DEF Begun
  <2>2. Single(n, S) => Single(v, S)
    <3>1. ASSUME Single(n, S), NEW i \in DOMAIN q, NEW j \in DOMAIN q, q[i].op \in S, q[j].op \in S
          PROVE  i = j
      <4>1. i + 1 = j + 1
        BY <1>5, <3>1 DEF Single
      <4> QED BY <1>5, <4>1
    <3>2. Single(n, S) /\ n.ops \cap S # {} => \A i \in DOMAIN q : q[i].op \notin S
      BY <1>5 DEF Single
    <3> QED BY <1>6, <1>8, <3>1, <3>2 DEF Single
  <2>3. Single(n, S) /\ op \in S => ~Begun(v, S) /\ Begun(n, S)
    <3>1. SUFFICES ASSUME Single(n, S), op \in S PROVE ~Begun(v, S) /\ Begun(n, S)
      OBVIOUS
    <3>2. n.ops \cap S = {}
      BY <1>4, <3>1 DEF Single
    <3>3. \A i \in DOMAIN q : q[i].op \notin S
      BY <1>4, <1>5, <3>1 DEF Single
    <3> QED BY <1>4, <1>6, <1>8, <3>1, <3>2, <3>3 DEF Begun
  <2> QED BY <2>1, <2>2, <2>3
<1>10. Counted(v) /\ Parting(v)
  BY <1>8 DEF Whole, Solid, Counted, Parting, Due
<1>11. Reading(v) /\ Writing(v)
  BY <1>8, <1>9 DEF Whole, Solid, Reading, Writing
<1>12. Stopping(v)
  <2>1. Stops(v) => Stops(n)
    BY <1>5, <1>6 DEF Stops
  <2>2. ASSUME NEW i \in DOMAIN q, NEW j \in DOMAIN q, q[i].op = "stop", q[j].op \in Ops
        PROVE  j < i
    <3>1. j + 1 < i + 1
      BY <1>5, <2>2 DEF Whole, Solid, Stopping
    <3> QED BY <1>5, <3>1
  <2>3. v.socket = "deleted" => \A i \in DOMAIN q : q[i].op \notin Ops
    BY <1>5, <1>8 DEF Whole, Solid, Stopping
  <2> QED BY <1>6, <1>8, <2>1, <2>2, <2>3 DEF Whole, Solid, Stopping
<1>13. Alive(v, busy)
  BY <1>8, <1>9 DEF Whole, Alive
<1>14. Pending(v)
  BY <1>1, <1>6, <1>7, QuietPending DEF Whole
<1>15. Requested(v)
  BY <1>1, <1>6, <1>7, QuietRequested DEF Whole
<1>16. Whole(v, busy)
  BY <1>6, <1>10, <1>11, <1>12, <1>13, <1>14, <1>15 DEF Whole, Solid
<1>17. op \in Reads => ~Begun(v, Reads)
  BY <1>9 DEF Whole, Solid, Reading
<1>18. op = "write" => ~Begun(v, Writes) /\ v.writing # {} /\ v.socket # "deleted"
  <2>1. SUFFICES ASSUME op = "write"
                 PROVE  ~Begun(v, Writes) /\ v.writing # {} /\ v.socket # "deleted"
    OBVIOUS
  <2>2. op \in Writes /\ op \in Ops
    BY <2>1 DEF Writes, Ops
  <2>3. ~Begun(v, Writes) /\ Begun(n, Writes)
    BY <1>9, <2>2 DEF Whole, Solid, Writing
  <2>4. v.writing # {}
    BY <1>8, <2>3 DEF Whole, Solid, Writing
  <2>5. v.socket # "deleted"
    BY <1>4, <1>8, <2>2 DEF Whole, Solid, Stopping
  <2> QED BY <2>3, <2>4, <2>5
<1>19. op = "stop" => /\ v.state = "CLOSED" /\ v.inUse = {}
                      /\ \A i \in DOMAIN v.io : v.io[i].op \notin Ops
  <2>1. SUFFICES ASSUME op = "stop"
                 PROVE  /\ v.state = "CLOSED" /\ v.inUse = {}
                        /\ \A i \in DOMAIN q : q[i].op \notin Ops
    BY <1>6
  <2>2. Stops(n)
    BY <1>4, <2>1 DEF Stops
  <2>3. ASSUME NEW i \in DOMAIN q, q[i].op \in Ops
        PROVE  FALSE
    <3>1. i + 1 < 1 /\ i \in DOMAIN q /\ i >= 1
      BY <1>3, <1>4, <1>5, <2>1, <2>3 DEF Whole, Solid, Stopping
    <3> QED BY <1>5, <3>1
  <2> QED BY <1>8, <2>2, <2>3 DEF Whole, Solid, Stopping
<1> QED BY <1>8, <1>16, <1>17, <1>18, <1>19 DEF v, q, op

\* A timer or an operation has its completion queued.
LEMMA CompletedWhole ==
  ASSUME NEW n, NEW busy, Whole(n, busy), NEW v, NEW F, Same(n, v, F), v \in Nets,
         NEW c \in Completions, v.io = Append(n.io, c),
         \/ c.op \in Timers /\ F = {"timers", "io"}
         \/ c.op \in n.ops /\ F = {"ops", "io"} /\ v.ops = n.ops \ {c.op}
  PROVE  /\ Whole(v, busy) /\ v.hasProtocol = n.hasProtocol /\ v.created = n.created
         /\ v.autoSend = n.autoSend /\ v.answer = n.answer
<1>1. n \in Nets /\ n.io \in Seq(Completions)
  BY DEF Whole, Solid, Nets
<1>2. /\ v.state = n.state /\ v.socket = n.socket /\ v.nullUsed = n.nullUsed
      /\ v.pendingRead = n.pendingRead
      /\ v.pendingWrite = n.pendingWrite /\ v.hasProtocol = n.hasProtocol /\ v.refs = n.refs
      /\ v.protocol = n.protocol /\ v.linked = n.linked /\ v.protocolRefs = n.protocolRefs
      /\ v.writing = n.writing /\ v.created = n.created /\ v.inUse = n.inUse
      /\ v.tasks = n.tasks /\ v.rescheduled = n.rescheduled
      /\ v.autoSend = n.autoSend /\ v.answer = n.answer
  BY <1>1, SameFields
<1>3. v.ops = n.ops \/ (c.op \in n.ops /\ v.ops = n.ops \ {c.op})
  BY <1>1, SameFields
<1>4. /\ Len(n.io) \in Nat /\ DOMAIN n.io = 1 .. Len(n.io)
      /\ \A i \in DOMAIN v.io : \/ i \in DOMAIN n.io /\ v.io[i] = n.io[i]
                                \/ i = Len(n.io) + 1 /\ v.io[i] = c
  BY <1>1
<1>5. c.op # "stop"
  BY <1>1 DEF Timers, Nets, Ops
<1>6. c.op \in Timers \/ c.op \in n.ops
  OBVIOUS
<1>7. ASSUME NEW S, S \subseteq Ops
      PROVE  /\ Single(n, S) => Single(v, S)
             /\ Begun(v, S) => Begun(n, S)
  <2>1. CASE c.op \notin S
    <3>1. v.ops \cap S = n.ops \cap S
      BY <1>3, <2>1
    <3>2. \A i \in DOMAIN v.io : v.io[i].op \in S => i \in DOMAIN n.io /\ v.io[i] = n.io[i]
      BY <1>4, <2>1
    <3> QED BY <3>1, <3>2 DEF Single, Begun
  <2>2. CASE c.op \in S
    <3>1. c.op \in n.ops /\ v.ops = n.ops \ {c.op}
      BY <1>7, <2>2 DEF Ops, Timers
    <3>2. Begun(n, S)
      BY <2>2, <3>1 DEF Begun
    <3>3. SUFFICES ASSUME Single(n, S) PROVE Single(v, S)
      BY <3>2
    <3>4. v.ops \cap S = {}
      BY <2>2, <3>1, <3>3 DEF Single
    <3>5. \A i \in DOMAIN v.io : v.io[i].op \in S => i = Len(n.io) + 1
      BY <1>4, <2>2, <3>1, <3>3 DEF Single
    <3> QED BY <3>4, <3>5 DEF Single
  <2> QED BY <2>1, <2>2
<1>8. Reads \subseteq Ops /\ Writes \subseteq Ops
  BY DEF Reads, Writes, Ops
<1>9. Reading(v) /\ Writing(v) /\ Alive(v, busy)
  BY <1>2, <1>7, <1>8 DEF Whole, Solid, Reading, Writing, Alive
<1>10. Counted(v) /\ Parting(v)
  BY <1>2 DEF Whole, Solid, Counted, Parting, Due
<1>11. Stopping(v)
  <2>1. v.ops \subseteq n.ops
    BY <1>3
  <2>2. Stops(v) => Stops(n)
    BY <1>4, <1>5 DEF Stops
  <2>3. c.op \in Ops => n.socket = "open" /\ ~Stops(n)
    <3>1. SUFFICES ASSUME c.op \in Ops PROVE n.socket = "open" /\ ~Stops(n)
      OBVIOUS
    <3>2. c.op \in n.ops
      BY <1>6, <3>1 DEF Ops, Timers
    <3> QED BY <3>2 DEF Whole, Solid, Stopping
  <2>4. ASSUME NEW i \in DOMAIN v.io, NEW j \in DOMAIN v.io, v.io[i].op = "stop", v.io[j].op \in Ops
        PROVE  j < i
    <3>1. i \in DOMAIN n.io /\ v.io[i] = n.io[i] /\ Stops(n)
      BY <1>4, <1>5, <2>4 DEF Stops
    <3>2. j \in DOMAIN n.io /\ v.io[j] = n.io[j]
      BY <1>4, <2>3, <2>4, <3>1
    <3> QED BY <2>4, <3>1, <3>2 DEF Whole, Solid, Stopping
  <2>5. v.socket = "deleted" => \A i \in DOMAIN v.io : v.io[i].op \notin Ops
    <3>1. SUFFICES ASSUME n.socket = "deleted" PROVE \A i \in DOMAIN v.io : v.io[i].op \notin Ops
      BY <1>2
    <3>2. c.op \notin Ops
      BY <2>3, <3>1
    <3> QED BY <1>4, <3>1, <3>2 DEF Whole, Solid, Stopping
  <2>6. v.socket # "open" => v.ops = {}
    BY <1>2, <2>1 DEF Whole, Solid, Stopping
  <2> QED BY <1>2, <2>2, <2>4, <2>5, <2>6 DEF Whole, Solid, Stopping
<1>12. Pending(v)
  BY <1>1, QuietPending DEF Whole
<1>13. Requested(v)
  BY <1>1, QuietRequested DEF Whole
<1> QED BY <1>2, <1>9, <1>10, <1>11, <1>12, <1>13 DEF Whole, Solid

-----------------------------------------------------------------------------
(* What the dispatcher runs                                                  *)

LEMMA TaskTaken ==
  ASSUME NEW n, NEW busy, Whole(n, busy), n.tasks # <<>>
  PROVE  LET v == [n EXCEPT !.tasks = Tail(@)]
             t == Head(n.tasks)
         IN  /\ Solid(v) /\ Alive(v, busy) /\ Pending(v)
             /\ v.state = n.state /\ v.hasProtocol = n.hasProtocol /\ v.created = n.created
             /\ t # "closeConnection" => Requested(v)
             /\ t = "closeConnection" => Unasked(v) /\ v.state = "REQUEST_CLOSE"
             /\ t = "releaseProtocol" => ~v.hasProtocol /\ v.state # "OPEN"
             /\ t = "releaseConnection" => v.state = "CLOSED"
<1> DEFINE q == Tail(n.tasks)
           v == [n EXCEPT !.tasks = q]
           t == Head(n.tasks)
<1>1. n \in Nets
  BY DEF Whole, Solid
<1>2. n.tasks \in Seq(Tasks) /\ n.tasks # <<>>
  BY <1>1 DEF Nets
<1>3. /\ q \in Seq(Tasks) /\ Len(n.tasks) \in Nat
      /\ DOMAIN n.tasks = 1 .. Len(n.tasks) /\ DOMAIN q = 1 .. Len(n.tasks) - 1
      /\ \A i \in DOMAIN q : q[i] = n.tasks[i + 1]
  BY <1>2
<1>4. 1 \in DOMAIN n.tasks /\ n.tasks[1] = t
  BY <1>2
<1>5. \A i \in DOMAIN q : /\ i \in Int /\ i + 1 \in DOMAIN n.tasks /\ i + 1 # 1
                          /\ q[i] = n.tasks[i + 1]
  BY <1>3
<1>6. \A j \in DOMAIN n.tasks : j = 1 \/ (j - 1 \in DOMAIN q /\ q[j - 1] = n.tasks[j])
  BY <1>3
<1> HIDE DEF q, t
<1>7. v \in Nets /\ v.tasks = q
  BY <1>1, <1>3 DEF Nets
<1>8. Same(n, v, {"tasks"})
  BY <1>1 DEF Nets, Same
<1> HIDE DEF v
<1>9. /\ v.state = n.state /\ v.socket = n.socket /\ v.nullUsed = n.nullUsed
      /\ v.pendingWrite = n.pendingWrite /\ v.hasProtocol = n.hasProtocol /\ v.refs = n.refs
      /\ v.protocol = n.protocol /\ v.linked = n.linked /\ v.protocolRefs = n.protocolRefs
      /\ v.writing = n.writing /\ v.created = n.created /\ v.inUse = n.inUse
      /\ v.ops = n.ops /\ v.io = n.io /\ v.rescheduled = n.rescheduled
  BY <1>1, <1>8, SameFields
<1>10. \A s : Due(v, s) => Due(n, s)
  BY <1>5, <1>7, <1>9 DEF Due
<1>11. Due(n, t)
  BY <1>4 DEF Due
<1>12. Counted(v) /\ Reading(v) /\ Writing(v) /\ Stopping(v)
  BY <1>9 DEF Whole, Solid, Counted, Reading, Writing, Stopping, Single, Begun, Stops
<1>13. Parting(v)
  BY <1>9, <1>10 DEF Whole, Solid, Parting
<1>14. Alive(v, busy)
  BY <1>1, <1>7, <1>8, QuietAlive DEF Whole
<1>15. Pending(v)
  BY <1>1, <1>7, <1>8, QuietPending DEF Whole
<1>16. t # "closeConnection" => Requested(v)
  <2>1. SUFFICES ASSUME t # "closeConnection" PROVE Requested(v)
    OBVIOUS
  <2>2. ASSUME NEW i \in DOMAIN q, NEW j \in DOMAIN q,
               q[i] = "closeConnection", q[j] = "closeConnection"
        PROVE  i = j
    <3>1. i + 1 = j + 1
      BY <1>5, <2>2 DEF Whole, Requested
    <3> QED BY <1>5, <3>1
  <2>3. (\E i \in DOMAIN q : q[i] = "closeConnection")
          <=> \E j \in DOMAIN n.tasks : n.tasks[j] = "closeConnection"
    <3>1. ASSUME NEW j \in DOMAIN n.tasks, n.tasks[j] = "closeConnection"
          PROVE  \E i \in DOMAIN q : q[i] = "closeConnection"
      BY <1>4, <1>6, <2>1, <3>1
    <3> QED BY <1>5, <3>1
  <2> QED BY <1>7, <1>9, <2>2, <2>3 DEF Whole, Requested
<1>17. t = "closeConnection" => Unasked(v) /\ v.state = "REQUEST_CLOSE"
  <2>1. SUFFICES ASSUME t = "closeConnection" PROVE Unasked(v) /\ v.state = "REQUEST_CLOSE"
    OBVIOUS
  <2>2. \A i \in DOMAIN q : q[i] # "closeConnection"
    BY <1>4, <1>5, <2>1 DEF Whole, Requested
  <2>3. "closeConnection" \notin n.rescheduled /\ n.state = "REQUEST_CLOSE"
    BY <1>4, <2>1 DEF Whole, Requested
  <2> QED BY <1>7, <1>9, <2>2, <2>3 DEF Unasked
<1>18. t = "releaseProtocol" => ~v.hasProtocol /\ v.state # "OPEN"
  BY <1>9, <1>11 DEF Whole, Solid, Parting
<1>19. t = "releaseConnection" => v.state = "CLOSED"
  BY <1>9, <1>11 DEF Whole, Solid, Parting
<1>20. Solid(v)
  BY <1>7, <1>12, <1>13 DEF Solid
<1> QED BY <1>9, <1>14, <1>15, <1>16, <1>17, <1>18, <1>19, <1>20 DEF v, q, t

\* What was to be tried again is queued.
LEMMA RescheduledWhole ==
  ASSUME NEW n, NEW busy, Whole(n, busy), NEW t \in n.rescheduled
  PROVE  LET v == [n EXCEPT !.rescheduled = @ \ {t}, !.tasks = Append(@, t)]
         IN  /\ Whole(v, busy) /\ v.hasProtocol = n.hasProtocol /\ v.created = n.created
             /\ v.autoSend = n.autoSend /\ v.answer = n.answer
<1> DEFINE r == n.rescheduled \ {t}
           q == Append(n.tasks, t)
           v == [n EXCEPT !.rescheduled = r, !.tasks = q]
<1>1. n \in Nets
  BY DEF Whole, Solid
<1>2. n.tasks \in Seq(Tasks) /\ n.rescheduled \subseteq Tasks /\ t \in Tasks
  BY <1>1 DEF Nets
<1>3. q \in Seq(Tasks) /\ r \in SUBSET Tasks
  BY <1>2
<1>4. /\ \A i \in DOMAIN q : q[i] = t \/ (i \in DOMAIN n.tasks /\ q[i] = n.tasks[i])
      /\ \A i \in DOMAIN n.tasks : i \in DOMAIN q /\ q[i] = n.tasks[i]
  BY <1>2
<1> HIDE DEF q, r
<1>5. v \in Nets /\ v.tasks = q /\ v.rescheduled = r
  BY <1>1, <1>3 DEF Nets
<1>6. Same(n, v, {"rescheduled", "tasks"})
  BY <1>1 DEF Nets, Same
<1> HIDE DEF v
<1>7. /\ v.state = n.state /\ v.socket = n.socket /\ v.nullUsed = n.nullUsed
      /\ v.pendingWrite = n.pendingWrite /\ v.hasProtocol = n.hasProtocol /\ v.refs = n.refs
      /\ v.protocol = n.protocol /\ v.linked = n.linked /\ v.protocolRefs = n.protocolRefs
      /\ v.writing = n.writing /\ v.created = n.created /\ v.inUse = n.inUse
      /\ v.ops = n.ops /\ v.io = n.io /\ v.autoSend = n.autoSend
      /\ v.answer = n.answer
  BY <1>1, <1>6, SameFields
<1>8. \A s : Due(v, s) => Due(n, s)
  BY <1>4, <1>5 DEF Due, r
<1>9. Counted(v) /\ Reading(v) /\ Writing(v) /\ Stopping(v)
  BY <1>7 DEF Whole, Solid, Counted, Reading, Writing, Stopping, Single, Begun, Stops
<1>10. Parting(v)
  BY <1>7, <1>8 DEF Whole, Solid, Parting
<1>11. Alive(v, busy)
  BY <1>1, <1>5, <1>6, QuietAlive DEF Whole
<1>12. Pending(v)
  BY <1>1, <1>5, <1>6, QuietPending DEF Whole
<1>13. Requested(v)
  <2>1. t # "closeConnection" /\ "closeConnection" \notin r
    BY DEF Whole, Requested, r
  <2>2. \A i \in DOMAIN q : q[i] = "closeConnection" => i \in DOMAIN n.tasks /\ q[i] = n.tasks[i]
    BY <1>4, <2>1
  <2> QED BY <1>4, <1>5, <1>7, <2>1, <2>2 DEF Whole, Requested
<1> QED BY <1>5, <1>7, <1>9, <1>10, <1>11, <1>12, <1>13 DEF Whole, Solid, v, q, r

\* A message that goes back to the pool no longer counts.
LEMMA ReleasedWhole ==
  ASSUME NEW n, NEW busy, Whole(n, busy), NEW m \in n.inUse
  PROVE  LET v == [n EXCEPT !.inUse = @ \ {m}, !.refs = @ - 1, !.protocolRefs = @ - 1]
         IN  /\ Whole(v, busy) /\ v.hasProtocol = n.hasProtocol /\ v.created = n.created
             /\ v.answer = n.answer
<1> DEFINE u == n.inUse \ {m}
           r == n.refs - 1
           p == n.protocolRefs - 1
           v == [n EXCEPT !.inUse = u, !.refs = r, !.protocolRefs = p]
<1>1. n \in Nets /\ Counted(n)
  BY DEF Whole, Solid
<1>2. IsFiniteSet(n.inUse)
  BY <1>1, InUseIs
<1>3. Cardinality(u) = Cardinality(n.inUse) - 1 /\ Cardinality(u) \in Nat
  BY <1>2, FS_RemoveElement, FS_CardinalityType
<1>4. r = Cardinality(u) /\ p = Cardinality(u)
  BY <1>1, <1>3 DEF Counted
<1>5. u \in SUBSET Messages /\ r \in Nat /\ p \in Nat
  BY <1>1, <1>3, <1>4 DEF Nets
<1>6. u \subseteq 1 .. n.created
  BY <1>1 DEF Counted
<1> DEFINE F == {"inUse", "refs", "protocolRefs"}
<1>7. u \subseteq n.inUse
  OBVIOUS
<1> HIDE DEF u, r, p
<1>8. v \in Nets /\ v.inUse = u /\ v.refs = r /\ v.protocolRefs = p
  BY <1>1, <1>5 DEF Nets
<1>9. Same(n, v, F)
  BY <1>1 DEF Nets, Same
<1> HIDE DEF v
<1>10. /\ v.state = n.state /\ v.socket = n.socket /\ v.nullUsed = n.nullUsed
       /\ v.pendingWrite = n.pendingWrite /\ v.hasProtocol = n.hasProtocol
       /\ v.protocol = n.protocol /\ v.linked = n.linked
       /\ v.writing = n.writing /\ v.created = n.created
       /\ v.ops = n.ops /\ v.io = n.io /\ v.tasks = n.tasks /\ v.rescheduled = n.rescheduled
       /\ v.answer = n.answer
  <2>1. /\ "state" \notin F /\ "socket" \notin F /\ "nullUsed" \notin F
        /\ "pendingWrite" \notin F /\ "hasProtocol" \notin F /\ "protocol" \notin F
        /\ "linked" \notin F /\ "writing" \notin F /\ "created" \notin F /\ "ops" \notin F
        /\ "io" \notin F /\ "tasks" \notin F /\ "rescheduled" \notin F /\ "answer" \notin F
    OBVIOUS
  <2> HIDE DEF F
  <2> QED BY <1>1, <1>9, <2>1, SameFields
<1>11. Counted(v)
  BY <1>4, <1>6, <1>8, <1>10 DEF Counted
<1>12. Reading(v) /\ Writing(v) /\ Parting(v) /\ Stopping(v)
  <2>1. n.inUse = {} => v.inUse = {}
    BY <1>7, <1>8
  <2> QED BY <1>10, <2>1
          DEF Whole, Solid, Reading, Writing, Parting, Stopping, Single, Begun, Due, Stops
<1>13. Alive(v, busy)
  BY <1>1, <1>8, <1>9, QuietAlive DEF Whole
<1>14. Pending(v)
  BY <1>1, <1>8, <1>9, QuietPending DEF Whole
<1>15. Requested(v)
  BY <1>1, <1>8, <1>9, QuietRequested DEF Whole
<1> QED BY <1>8, <1>10, <1>11, <1>12, <1>13, <1>14, <1>15 DEF Whole, Solid, v, u, r, p

\* The loop over the added messages, one after the other.
LEMMA KeptIs ==
  ASSUME NEW s \in Seq(Messages)
  PROVE  /\ Kept(s)[0] = <<>>
         /\ \A n \in 1..Len(s) :
              Kept(s)[n] = IF s[n] \in old THEN Kept(s)[n - 1]
                                          ELSE Append(Kept(s)[n - 1], s[n])
<1> DEFINE F(h, n) == IF n = 0 THEN <<>>
                      ELSE IF s[n] \in old THEN h[n - 1] ELSE Append(h[n - 1], s[n])
           Rec(h, m) == h = [n \in 0..m |-> F(h, n)]
           N == {m \in Nat : \E h : Rec(h, m)}
<1>1. Kept(s) = CHOOSE h : Rec(h, Len(s))
  BY DEF Kept
<1>2. \A h : F(h, 0) = <<>>
  OBVIOUS
<1>3. ASSUME NEW g, NEW h, NEW n \in Nat, n # 0, g[n - 1] = h[n - 1]
      PROVE  F(g, n) = F(h, n)
  BY <1>3
<1>4. \A h, n : n # 0 => F(h, n) = IF s[n] \in old THEN h[n - 1] ELSE Append(h[n - 1], s[n])
  OBVIOUS
<1> HIDE DEF F
<1>5. 0 \in N
  <2> DEFINE g == [n \in 0..0 |-> <<>>]
  <2>1. Rec(g, 0)
    <3>1. \A n \in 0..0 : n = 0
      OBVIOUS
    <3> QED BY <1>2, <3>1
  <2> QED BY <2>1
<1>6. ASSUME NEW m \in N PROVE m + 1 \in N
  <2>1. PICK h : Rec(h, m)
    OBVIOUS
  <2> DEFINE g == [n \in 0..(m + 1) |-> IF n <= m THEN h[n] ELSE F(h, n)]
  <2>2. ASSUME NEW n \in 0..(m + 1) PROVE g[n] = F(g, n)
    <3>1. \A k \in 0..m : h[k] = F(h, k)
      BY <2>1
    <3>2. n # 0 => n - 1 \in 0..m /\ g[n - 1] = h[n - 1]
      OBVIOUS
    <3>3. F(g, n) = F(h, n)
      <4> HIDE DEF g
      <4> QED BY <1>2, <1>3, <3>2
    <3>4. n <= m => n \in 0..m
      OBVIOUS
    <3> QED BY <3>1, <3>3, <3>4
  <2>3. Rec(g, m + 1)
    <3>1. g = [n \in 0..(m + 1) |-> g[n]]
      OBVIOUS
    <3> HIDE DEF g
    <3> QED BY <2>2, <3>1
  <2>4. m + 1 \in Nat
    OBVIOUS
  <2> HIDE DEF g, Rec
  <2> QED BY <2>3, <2>4
<1> HIDE DEF N
<1>7. N = Nat
  <2>1. N \subseteq Nat
    BY DEF N
  <2> QED BY <1>5, <1>6, <2>1, SetOfNaturals
<1>8. \E h : Rec(h, Len(s))
  <2>1. Len(s) \in N
    BY <1>7
  <2> HIDE DEF Rec
  <2> QED BY <2>1 DEF N
<1>9. Rec(Kept(s), Len(s))
  <2> HIDE DEF Rec
  <2> QED BY <1>1, <1>8
<1> DEFINE f == Kept(s)
<1> HIDE DEF f
<1>10. \A n \in 0..Len(s) : f[n] = F(f, n)
  <2>1. f = [n \in 0..Len(s) |-> F(f, n)]
    BY <1>9 DEF f
  <2> QED BY <2>1
<1>11. 0 \in 0..Len(s) /\ \A n \in 1..Len(s) : n \in 0..Len(s) /\ n # 0
  OBVIOUS
<1> QED BY <1>2, <1>4, <1>10, <1>11 DEF f

\* The messages kept are messages.
LEMMA YoungIs ==
  ASSUME NEW s \in Seq(Messages)
  PROVE  Young(s) \in Seq(Messages)
<1> DEFINE N == {n \in Nat : n <= Len(s) => Kept(s)[n] \in Seq(Messages)}
<1>1. Len(s) \in Nat /\ \A n \in 1 .. Len(s) : s[n] \in Messages
  OBVIOUS
<1>2. 0 \in N
  <2>1. Kept(s)[0] = <<>>
    BY KeptIs
  <2>2. <<>> \in Seq(Messages)
    OBVIOUS
  <2> QED BY <2>1, <2>2
<1>3. ASSUME NEW n \in N PROVE n + 1 \in N
  <2>1. SUFFICES ASSUME n + 1 <= Len(s) PROVE Kept(s)[n + 1] \in Seq(Messages)
    OBVIOUS
  <2>2. n + 1 \in 1 .. Len(s) /\ n <= Len(s) /\ (n + 1) - 1 = n
    BY <1>1, <2>1
  <2>3. Kept(s)[n] \in Seq(Messages)
    BY <2>2
  <2>4. Kept(s)[n + 1] = IF s[n + 1] \in old THEN Kept(s)[n] ELSE Append(Kept(s)[n], s[n + 1])
    BY <2>2, KeptIs
  <2> QED BY <1>1, <2>2, <2>3, <2>4
<1> HIDE DEF N
<1>4. N = Nat
  <2>1. N \subseteq Nat
    BY DEF N
  <2> QED BY <1>2, <1>3, <2>1, SetOfNaturals
<1>5. Len(s) \in N
  BY <1>1, <1>4
<1> QED BY <1>1, <1>5 DEF N, Young

\* sendAll begins with what is queued.
LEMMA QueuesJoinedWhole ==
  ASSUME NEW n, NEW busy, Whole(n, busy)
  PROVE  LET v == QueuesJoined(n)
         IN  /\ Whole(v, busy) /\ v.hasProtocol = n.hasProtocol /\ v.created = n.created
             /\ v.answer = n.answer
<1> DEFINE y == n.autoSend \o Young(n.addQueue)
           k == [n EXCEPT !.autoSend = y, !.addQueue = <<>>]
           v == QueuesJoined(n)
<1>1. n \in Nets
  BY DEF Whole, Solid
<1>2. n.addQueue \in Seq(Messages) /\ n.autoSend \in Seq(Messages)
  BY <1>1 DEF Nets
<1>3. y \in Seq(Messages) /\ <<>> \in Seq(Messages)
  BY <1>2, YoungIs
<1>4. v = k \/ v = [k EXCEPT !.outputBuffer = NoMessage]
  BY DEF QueuesJoined
<1> HIDE DEF y, v
<1>5. k \in Nets
  BY <1>1, <1>3 DEF Nets
<1>6. Same(n, k, {"autoSend", "addQueue"})
  BY <1>1 DEF Nets, Same
<1> HIDE DEF k
<1>7. Whole(k, busy)
  BY <1>5, <1>6, QuietWhole DEF Quiet
<1>8. k.hasProtocol = n.hasProtocol /\ k.created = n.created /\ k.answer = n.answer
  BY <1>1, <1>6, SameFields
<1>9. CASE v = [k EXCEPT !.outputBuffer = NoMessage]
  <2>1. NoMessage \in Messages \cup {NoMessage}
    OBVIOUS
  <2>2. v \in Nets
    BY <1>5, <1>9, <2>1 DEF Nets
  <2>3. Same(k, v, {"outputBuffer"})
    BY <1>5, <1>9 DEF Nets, Same
  <2>4. Whole(v, busy)
    BY <1>7, <2>2, <2>3, QuietWhole DEF Quiet
  <2>5. v.hasProtocol = k.hasProtocol /\ v.created = k.created /\ v.answer = k.answer
    BY <1>5, <2>3, SameFields
  <2> QED BY <1>8, <2>4, <2>5 DEF v
<1> QED BY <1>4, <1>7, <1>8, <1>9 DEF v

-----------------------------------------------------------------------------
(* The invariant                                                             *)

LEMMA NewNetWhole == Whole(NewNet, TRUE) /\ NewNet.created = 0
<1> DEFINE n == NewNet
<1>1. n \in Nets
  BY MaxMessagesAssumption DEF NewNet, Nets, NoMessage
<1>2. /\ n.state = "OPEN" /\ n.socket = "open" /\ ~n.nullUsed
      /\ n.pendingRead = 0 /\ n.pendingWrite = 0 /\ n.hasProtocol = FALSE /\ n.linked = FALSE
      /\ n.refs = 0 /\ n.protocolRefs = 0 /\ n.protocol = "none"
      /\ n.writing = {} /\ n.created = 0 /\ n.inUse = {} /\ n.ops = {}
      /\ n.io = <<>> /\ n.tasks = <<>> /\ n.rescheduled = {}
  BY DEF NewNet
<1> HIDE DEF n
<1>3. \A i \in DOMAIN n.io : FALSE
  BY <1>2
<1>4. \A i \in DOMAIN n.tasks : FALSE
  BY <1>2
<1>5. Counted(n)
  BY <1>2, FS_EmptySet DEF Counted
<1>6. Reading(n) /\ Writing(n)
  BY <1>2, <1>3 DEF Reading, Writing, Single, Begun
<1>7. Parting(n)
  BY <1>2, <1>4 DEF Parting, Due
<1>8. Stopping(n)
  BY <1>2, <1>3 DEF Stopping, Stops
<1>9. Alive(n, TRUE)
  BY <1>2, <1>3 DEF Alive, Begun
<1>10. Pending(n)
  BY <1>2 DEF Pending
<1>11. Requested(n)
  BY <1>2, <1>4 DEF Requested
<1> QED BY <1>1, <1>2, <1>5, <1>6, <1>7, <1>8, <1>9, <1>10, <1>11 DEF Whole, Solid, n

LEMMA NetInit == Init => NetInv
<1>1. SUFFICES ASSUME Init PROVE NetInv
  OBVIOUS
<1>2. Whole(net, FALSE)
  <2>1. "header" \in Reads
    BY DEF Reads
  <2>2. CASE net = Read(NewNet, "header")
    BY <2>1, <2>2, NewNetWhole, ReadWhole
  <2>3. CASE net = Read(Send(Allocated(WithProtocol(NewNet)), 1), "header")
    <3> DEFINE p == WithProtocol(NewNet)
               a == Allocated(p)
               s == Send(a, 1)
    <3>1. NewNet.state = "OPEN" /\ ~NewNet.hasProtocol
      BY DEF NewNet
    <3>2. Whole(p, TRUE) /\ p.hasProtocol /\ p.created = 0
      BY <3>1, NewNetWhole, WithProtocolWhole
    <3> HIDE DEF p
    <3>3. p.created < MaxMessages /\ 1 \in Messages
      BY <3>2, MaxMessagesAssumption DEF Messages
    <3>4. Whole(a, TRUE)
      BY <3>2, <3>3, AllocatedWhole
    <3> HIDE DEF a
    <3>5. Whole(s, TRUE)
      BY <3>3, <3>4, SendWhole
    <3> HIDE DEF s
    <3>6. Whole(Read(s, "header"), FALSE)
      BY <2>1, <3>5, ReadWhole
    <3> QED BY <2>3, <3>6 DEF s, a, p
  <2> QED BY <1>1, <2>2, <2>3 DEF Init
<1>3. net \in Nets
  BY <1>2 DEF Whole, Solid
<1>4. 0 \in 0 .. Len(net.autoSend)
  BY <1>3 DEF Nets
<1>5. TypeOK
  BY <1>1, <1>3, <1>4 DEF Init, TypeOK
<1>6. Serving /\ Busy = FALSE
  BY <1>1 DEF Init, Serving, Busy
<1> QED BY <1>2, <1>5, <1>6 DEF NetInv

\* A step of the service thread leaves the queues alone, and may make it busy.
LEMMA ServiceKeeps ==
  ASSUME NetInv, NEW busy \in BOOLEAN, Whole(net', busy),
         net'.autoSend = net.autoSend \/ place = 0,
         UNCHANGED <<place, old, raced>>,
         ~busy => service' = "idle",
         busy => /\ service' \in {"single", "buffer", "send"} /\ net'.hasProtocol
                 /\ service' # "send" => net'.created < MaxMessages
                 /\ service' = "send" => net'.answer # NoMessage
  PROVE  NetInv'
<1>1. net' \in Nets
  BY DEF Whole, Solid
<1>2. TypeOK'
  <2>1. place \in 0 .. Len(net.autoSend) /\ Len(net'.autoSend) \in Nat
    BY <1>1 DEF NetInv, TypeOK, Nets
  <2>2. place' \in 0 .. Len(net'.autoSend)
    BY <2>1
  <2> QED BY <1>1, <2>2 DEF NetInv, TypeOK
<1>3. Busy' = busy
  BY DEF Busy
<1>4. Serving'
  BY DEF Serving, Busy
<1> QED BY <1>2, <1>3, <1>4 DEF NetInv

\* The service thread takes the completion of a read.
LEMMA ReadTaken ==
  ASSUME NetInv, service = "idle", net.io # <<>>, Head(net.io).op \in Reads
  PROVE  LET n == ReadEnded(Taken, Head(net.io).error)
             m == [n EXCEPT !.pendingRead = @ - 1]
         IN  /\ Whole(n, FALSE) /\ n.autoSend = net.autoSend
             /\ Usable(n) => /\ Whole(m, TRUE) /\ m.state = "OPEN"
                             /\ m.hasProtocol = n.hasProtocol
                             /\ m.created = net.created /\ m.autoSend = net.autoSend
<1> DEFINE t == Taken
           e == Head(net.io).error
           n == ReadEnded(t, e)
           m == [n EXCEPT !.pendingRead = @ - 1]
<1>1. Whole(net, FALSE)
  <2>1. Busy = FALSE
    BY DEF Busy
  <2> QED BY <2>1 DEF NetInv
<1>2. /\ Whole(t, FALSE) /\ t.created = net.created /\ t.autoSend = net.autoSend
      /\ ~Begun(t, Reads)
  BY <1>1, TakenWhole DEF Taken
<1> HIDE DEF t, e
<1>3. /\ Whole(n, FALSE) /\ n.autoSend = t.autoSend
      /\ Usable(n) => /\ n.state = "OPEN" /\ n.ops = t.ops /\ n.io = t.io
                      /\ n.hasProtocol = t.hasProtocol /\ n.created = t.created
  BY <1>2, ReadEndedWhole
<1> HIDE DEF n
<1>4. ASSUME Usable(n)
      PROVE  /\ Whole(m, TRUE) /\ m.state = "OPEN" /\ m.hasProtocol = n.hasProtocol
             /\ m.created = n.created /\ m.autoSend = n.autoSend
  <2>1. ~Begun(n, Reads)
    BY <1>2, <1>3, <1>4 DEF Begun
  <2> QED BY <1>3, <1>4, <2>1, ReadDone
<1> HIDE DEF m
<1> QED BY <1>2, <1>3, <1>4 DEF m, n, t, e

LEMMA ParseHeaderKeeps == NetInv /\ ParseHeader => NetInv'
<1> DEFINE n == ReadEnded(Taken, Head(net.io).error)
           m == [n EXCEPT !.pendingRead = @ - 1]
<1>1. SUFFICES ASSUME NetInv, ParseHeader PROVE NetInv'
  OBVIOUS
<1>2. /\ service = "idle" /\ net.io # <<>> /\ Head(net.io).op = "header"
      /\ net' = IF Usable(n) THEN Read(m, "packet") ELSE Close(n)
      /\ UNCHANGED <<place, service, old, raced>>
  BY <1>1 DEF ParseHeader, Next1
<1>3. "header" \in Reads /\ "packet" \in Reads
  BY DEF Reads
<1>4. /\ Whole(n, FALSE) /\ n.autoSend = net.autoSend
      /\ Usable(n) => Whole(m, TRUE) /\ m.autoSend = net.autoSend
  BY <1>1, <1>2, <1>3, ReadTaken
<1> HIDE DEF n, m
<1>5. Whole(net', FALSE) /\ net'.autoSend = net.autoSend
  <2>1. CASE Usable(n)
    BY <1>2, <1>3, <1>4, <2>1, ReadWhole
  <2>2. CASE ~Usable(n)
    BY <1>2, <1>4, <2>2, CloseStaysWhole
  <2> QED BY <2>1, <2>2
<1> QED BY <1>1, <1>2, <1>5, ServiceKeeps

LEMMA ParsePacketKeeps == NetInv /\ ParsePacket => NetInv'
<1> DEFINE n == ReadEnded(Taken, Head(net.io).error)
           m == [n EXCEPT !.pendingRead = @ - 1]
           p == IF n.hasProtocol THEN m ELSE WithProtocol(m)
<1>1. SUFFICES ASSUME NetInv, ParsePacket PROVE NetInv'
  OBVIOUS
<1>2. /\ service = "idle" /\ net.io # <<>> /\ Head(net.io).op = "packet"
      /\ UNCHANGED <<place, old, raced>>
      /\ \/ ~Usable(n) /\ net' = Close(n) /\ UNCHANGED service
         \/ Usable(n) /\ net' = Close(m) /\ UNCHANGED service
         \/ Usable(n) /\ net' = Read(p, "header") /\ UNCHANGED service
         \/ Usable(n) /\ CanAllocate /\ net' = p /\ service' \in {"single", "buffer"}
  BY <1>1 DEF ParsePacket, Next1
<1>3. "header" \in Reads /\ "packet" \in Reads
  BY DEF Reads
<1>4. /\ Whole(n, FALSE) /\ n.autoSend = net.autoSend
      /\ Usable(n) => /\ Whole(m, TRUE) /\ m.state = "OPEN" /\ m.hasProtocol = n.hasProtocol
                      /\ m.created = net.created /\ m.autoSend = net.autoSend
  BY <1>1, <1>2, <1>3, ReadTaken
<1> HIDE DEF m
<1>5. ASSUME Usable(n)
      PROVE  /\ Whole(p, TRUE) /\ p.hasProtocol /\ p.created = net.created
             /\ p.autoSend = net.autoSend
  BY <1>4, <1>5, WithProtocolWhole
<1> HIDE DEF n, p
<1>6. CASE ~Usable(n) /\ net' = Close(n) /\ UNCHANGED service
  <2>1. Whole(net', FALSE) /\ net'.autoSend = net.autoSend
    BY <1>4, <1>6, CloseStaysWhole
  <2> QED BY <1>1, <1>2, <1>6, <2>1, ServiceKeeps
<1>7. CASE Usable(n) /\ net' = Close(m) /\ UNCHANGED service
  <2>1. Whole(net', FALSE) /\ net'.autoSend = net.autoSend
    BY <1>4, <1>7, CloseStaysWhole
  <2> QED BY <1>1, <1>2, <1>7, <2>1, ServiceKeeps
<1>8. CASE Usable(n) /\ net' = Read(p, "header") /\ UNCHANGED service
  <2>1. Whole(net', FALSE) /\ net'.autoSend = net.autoSend
    BY <1>3, <1>5, <1>8, ReadWhole
  <2> QED BY <1>1, <1>2, <1>8, <2>1, ServiceKeeps
<1>9. CASE Usable(n) /\ CanAllocate /\ net' = p /\ service' \in {"single", "buffer"}
  <2>1. net.created < MaxMessages
    <3>1. net.created \in Nat
      BY <1>1 DEF NetInv, TypeOK, Nets
    <3> QED BY <1>2, <1>9, <3>1 DEF CanAllocate
  <2> QED BY <1>1, <1>2, <1>5, <1>9, <2>1, ServiceKeeps
<1> QED BY <1>2, <1>6, <1>7, <1>8, <1>9

LEMMA BusyWhole ==
  ASSUME NetInv
  PROVE  /\ service = "idle" => Whole(net, FALSE)
         /\ service # "idle" => Whole(net, TRUE) /\ net.hasProtocol
         /\ net \in Nets
<1>1. Busy = (service # "idle")
  BY DEF Busy
<1> QED BY <1>1 DEF NetInv, Serving, Whole, Solid

LEMMA AnswerInBufferKeeps == NetInv /\ AnswerInBuffer => NetInv'
<1>1. SUFFICES ASSUME NetInv, AnswerInBuffer PROVE NetInv'
  OBVIOUS
<1>2. /\ service = "buffer" /\ place = 0 /\ service' = "idle"
      /\ UNCHANGED <<place, old, raced>>
  <2>1. place \in Nat
    BY <1>1, BusyWhole DEF NetInv, TypeOK, Nets
  <2> QED BY <1>1, <2>1 DEF AnswerInBuffer, DispatcherHasPool
<1>3. "header" \in Reads
  BY DEF Reads
<1>4. Whole(net, TRUE) /\ net.hasProtocol /\ net.created < MaxMessages
  BY <1>1, <1>2, BusyWhole DEF NetInv, Serving
<1>5. Whole(NewBuffer(net), TRUE)
  BY <1>4, NewBufferWhole
<1>6. Whole(Read(net, "header"), FALSE) /\ Whole(Read(NewBuffer(net), "header"), FALSE)
  BY <1>3, <1>4, <1>5, ReadWhole
<1>7. net' = Read(net, "header") \/ net' = Read(NewBuffer(net), "header")
  BY <1>1 DEF AnswerInBuffer
<1>8. Whole(net', FALSE)
  BY <1>6, <1>7
<1> QED BY <1>1, <1>2, <1>8, ServiceKeeps

LEMMA AnswerAllocatesKeeps == NetInv /\ AnswerAllocates => NetInv'
<1> DEFINE a == Allocated(net)
           m == net.created + 1
<1>1. SUFFICES ASSUME NetInv, AnswerAllocates PROVE NetInv'
  OBVIOUS
<1>2. /\ service = "single" /\ service' = "send" /\ net' = [a EXCEPT !.answer = m]
      /\ UNCHANGED <<place, old, raced>>
  BY <1>1 DEF AnswerAllocates
<1>3. Whole(net, TRUE) /\ net.hasProtocol /\ net.created < MaxMessages
  BY <1>1, <1>2, BusyWhole DEF NetInv, Serving
<1>4. Whole(a, TRUE) /\ a.hasProtocol /\ a.autoSend = net.autoSend /\ m \in Messages
  BY <1>3, AllocatedWhole
<1> HIDE DEF a, m
<1>5. a \in Nets
  BY <1>4 DEF Whole, Solid
<1>6. net' \in Nets /\ net'.answer = m
  BY <1>2, <1>4, <1>5 DEF Nets
<1>7. Same(a, net', {"answer"})
  BY <1>2, <1>5 DEF Nets, Same
<1>8. Whole(net', TRUE)
  BY <1>4, <1>6, <1>7, QuietWhole DEF Quiet
<1>9. net'.hasProtocol = a.hasProtocol /\ net'.autoSend = a.autoSend
  BY <1>5, <1>7, SameFields
<1>10. net'.answer # NoMessage
  BY <1>4, <1>6 DEF Messages, NoMessage
<1> QED BY <1>1, <1>2, <1>4, <1>8, <1>9, <1>10, ServiceKeeps

LEMMA AnswerSentKeeps == NetInv /\ AnswerSent => NetInv'
<1> DEFINE m == net.answer
           s == Send(net, m)
           t == [s EXCEPT !.answer = NoMessage]
<1>1. SUFFICES ASSUME NetInv, AnswerSent PROVE NetInv'
  OBVIOUS
<1>2. /\ service = "send" /\ service' = "idle"
      /\ net' \in {Read(t, "header"), Read(Close(t), "header")}
      /\ UNCHANGED <<place, old, raced>>
  BY <1>1 DEF AnswerSent
<1>3. Whole(net, TRUE) /\ net.answer \in Messages
  BY <1>1, <1>2, BusyWhole DEF NetInv, Serving, Nets
<1>4. Whole(s, TRUE) /\ s.autoSend = net.autoSend
  BY <1>3, SendWhole
<1> HIDE DEF s
<1>5. s \in Nets /\ NoMessage \in Messages \cup {NoMessage}
  BY <1>4 DEF Whole, Solid
<1>6. t \in Nets
  BY <1>5 DEF Nets
<1>7. Same(s, t, {"answer"})
  BY <1>5 DEF Nets, Same
<1>8. Whole(t, TRUE)
  BY <1>4, <1>6, <1>7, QuietWhole DEF Quiet
<1>9. t.autoSend = s.autoSend
  BY <1>5, <1>7, SameFields
<1> HIDE DEF t
<1>10. "header" \in Reads
  BY DEF Reads
<1>11. Whole(net', FALSE) /\ net'.autoSend = t.autoSend
  BY <1>2, <1>8, <1>10, ReadWhole
<1> QED BY <1>1, <1>2, <1>4, <1>9, <1>11, ServiceKeeps

LEMMA CompleteKeeps == NetInv /\ Complete => NetInv'
<1> DEFINE t == Taken
           op == Head(net.io).op
           e == Head(net.io).error
<1>1. SUFFICES ASSUME NetInv, Complete PROVE NetInv'
  OBVIOUS
<1>2. /\ service = "idle" /\ net.io # <<>>
      /\ UNCHANGED <<place, service, old, raced>>
      /\ \/ op = "write" /\ net' = OnWrite(t, e)
         \/ net' = IF Destroyed(t) THEN t ELSE OnReadTimeout(t)
         \/ net' = IF Destroyed(t) THEN t ELSE OnWriteTimeout(t)
         \/ op = "stop" /\ net' = OnStop(t)
  BY <1>1 DEF Complete, Next1
<1>3. Whole(net, FALSE)
  BY <1>1, <1>2, BusyWhole
<1>4. /\ Whole(t, FALSE) /\ t.autoSend = net.autoSend
      /\ op = "write" => ~Begun(t, Writes) /\ t.writing # {} /\ t.socket # "deleted"
      /\ op = "stop" => /\ t.state = "CLOSED" /\ t.inUse = {}
                        /\ \A i \in DOMAIN t.io : t.io[i].op \notin Ops
  BY <1>2, <1>3, TakenWhole DEF Taken
<1> HIDE DEF t, op, e
<1>5. Whole(net', FALSE) /\ net'.autoSend = t.autoSend
  <2>1. CASE op = "write" /\ net' = OnWrite(t, e)
    BY <1>4, <2>1, OnWriteWhole
  <2>2. CASE \/ net' = IF Destroyed(t) THEN t ELSE OnReadTimeout(t)
             \/ net' = IF Destroyed(t) THEN t ELSE OnWriteTimeout(t)
    BY <1>4, <2>2, TimeoutWhole
  <2>3. CASE op = "stop" /\ net' = OnStop(t)
    BY <1>4, <2>3, OnStopWhole
  <2> QED BY <1>2, <2>1, <2>2, <2>3
<1> QED BY <1>1, <1>2, <1>4, <1>5, ServiceKeeps

\* What leaves the threads where they are, and what the service thread relies on.
LEMMA WorldKeeps ==
  ASSUME NetInv, Whole(net', Busy), UNCHANGED <<service, raced>>,
         service # "idle" => net'.hasProtocol,
         service \in {"single", "buffer"} => net'.created < MaxMessages,
         service = "send" => net'.answer = net.answer,
         place' \in 0 .. Len(net'.autoSend), old' \subseteq Messages
  PROVE  NetInv'
<1>1. net' \in Nets
  BY DEF Whole, Solid
<1>2. TypeOK'
  BY <1>1 DEF NetInv, TypeOK
<1>3. Busy' = Busy
  BY DEF Busy
<1>4. Serving'
  BY DEF NetInv, Serving, Busy
<1> QED BY <1>2, <1>3, <1>4 DEF NetInv

LEMMA OperationEndsKeeps ==
  ASSUME NetInv, NEW op \in Ops, NEW e \in {"none", "other"}, OperationEnds(op, e)
  PROVE  NetInv'
<1> DEFINE c == Completed(op, e)
           o == net.ops \ {op}
           q == Append(net.io, c)
<1>1. /\ op \in net.ops /\ net' = [net EXCEPT !.ops = o, !.io = q]
      /\ UNCHANGED <<place, service, old, raced>>
  BY DEF OperationEnds
<1>2. c \in Completions /\ c.op = op
  BY DEF Completed, Completions
<1>3. net \in Nets /\ Whole(net, Busy)
  BY BusyWhole DEF NetInv
<1>4. o \in SUBSET Ops /\ q \in Seq(Completions)
  BY <1>2, <1>3 DEF Nets
<1> HIDE DEF c
<1>5. q = Append(net.io, c)
  OBVIOUS
<1> HIDE DEF q
<1>6. net' \in Nets /\ net'.ops = o /\ net'.io = q
  BY <1>1, <1>3, <1>4 DEF Nets
<1>7. Same(net, net', {"ops", "io"})
  BY <1>1, <1>3 DEF Nets, Same
<1> DEFINE F == {"ops", "io"}
<1>8. F = {"ops", "io"} /\ Same(net, net', F)
  BY <1>7
<1>9. c.op \in net.ops /\ net'.ops = net.ops \ {c.op} /\ net'.io = Append(net.io, c)
  BY <1>1, <1>2, <1>5, <1>6
<1> HIDE DEF F, o
<1>10. /\ Whole(net', Busy) /\ net'.hasProtocol = net.hasProtocol
       /\ net'.created = net.created /\ net'.autoSend = net.autoSend
       /\ net'.answer = net.answer
  BY ONLY <1>2, <1>3, <1>6, <1>8, <1>9, CompletedWhole
<1> QED BY <1>1, <1>10, WorldKeeps DEF NetInv, TypeOK, Serving, Busy

LEMMA TimerExpiresKeeps == NetInv /\ TimerExpires => NetInv'
<1>1. SUFFICES ASSUME NetInv, TimerExpires PROVE NetInv'
  OBVIOUS
<1>2. PICK t \in net.timers :
        net' = [net EXCEPT !.timers = @ \ {t}, !.io = Append(@, Completed(t, "none"))]
  BY <1>1 DEF TimerExpires
<1> DEFINE c == Completed(t, "none")
           o == net.timers \ {t}
           q == Append(net.io, c)
<1>3. net' = [net EXCEPT !.timers = o, !.io = q] /\ UNCHANGED <<place, service, old, raced>>
  BY <1>1, <1>2 DEF TimerExpires
<1>4. net \in Nets /\ Whole(net, Busy)
  BY <1>1, BusyWhole DEF NetInv
<1>5. c \in Completions /\ c.op = t /\ t \in Timers
  BY <1>4 DEF Completed, Completions, Nets
<1>6. o \in SUBSET Timers /\ q \in Seq(Completions)
  BY <1>4, <1>5 DEF Nets
<1> HIDE DEF c
<1>7. q = Append(net.io, c)
  OBVIOUS
<1> HIDE DEF q, o
<1>8. net' \in Nets /\ net'.io = q
  BY <1>3, <1>4, <1>6 DEF Nets
<1>9. Same(net, net', {"timers", "io"})
  BY <1>3, <1>4 DEF Nets, Same
<1>10. /\ Whole(net', Busy) /\ net'.hasProtocol = net.hasProtocol
       /\ net'.created = net.created /\ net'.autoSend = net.autoSend
       /\ net'.answer = net.answer
  BY <1>4, <1>5, <1>7, <1>8, <1>9, CompletedWhole
<1> QED BY <1>1, <1>3, <1>10, WorldKeeps DEF NetInv, TypeOK, Serving, Busy

\* A task has made n of the objects, and sendAll follows.
LEMMA TaskDoneKeeps ==
  ASSUME NetInv, NEW n, Whole(n, Busy), TaskDone(n),
         service # "idle" => n.hasProtocol,
         service \in {"single", "buffer"} => n.created < MaxMessages,
         service = "send" => n.answer = net.answer
  PROVE  NetInv'
<1>1. net' = QueuesJoined(n) /\ UNCHANGED <<service, raced>>
  BY DEF TaskDone
<1>2. /\ Whole(net', Busy) /\ net'.hasProtocol = n.hasProtocol /\ net'.created = n.created
      /\ net'.answer = n.answer
  BY <1>1, QueuesJoinedWhole
<1>3. place' \in 0 .. Len(net'.autoSend)
  <2>1. Len(net'.autoSend) \in Nat
    BY <1>2 DEF Whole, Solid, Nets
  <2> QED BY <2>1 DEF TaskDone, At
<1>4. old' \subseteq Messages
  BY DEF NetInv, TypeOK, TaskDone
<1> QED BY <1>1, <1>2, <1>3, <1>4, WorldKeeps

LEMMA ReleaseKeeps == NetInv /\ Release => NetInv'
<1>1. SUFFICES ASSUME NetInv, Release PROVE NetInv'
  OBVIOUS
<1>2. PICK m \in net.inUse :
        TaskDone([net EXCEPT !.inUse = @ \ {m}, !.refs = @ - 1, !.protocolRefs = @ - 1])
  BY <1>1 DEF Release, ToRelease
<1> DEFINE n == [net EXCEPT !.inUse = @ \ {m}, !.refs = @ - 1, !.protocolRefs = @ - 1]
<1>3. Whole(net, Busy)
  BY <1>1 DEF NetInv
<1>4. /\ Whole(n, Busy) /\ n.hasProtocol = net.hasProtocol /\ n.created = net.created
      /\ n.answer = net.answer
  BY <1>3, ReleasedWhole
<1>5. TaskDone(n)
  BY <1>2
<1> HIDE DEF n
<1> QED BY <1>1, <1>4, <1>5, TaskDoneKeeps DEF NetInv, Serving, Busy

\* While the service thread is busy the connection is open, so what runs is not
\* a task of its end.
LEMMA RunTaskKeeps == NetInv /\ RunTask => NetInv'
<1> DEFINE n == [net EXCEPT !.tasks = Tail(@)]
           t == Head(net.tasks)
<1>1. SUFFICES ASSUME NetInv, RunTask PROVE NetInv'
  OBVIOUS
<1>2. net.tasks # <<>> /\ Whole(net, Busy)
  BY <1>1 DEF RunTask, NetInv
<1>3. /\ Solid(n) /\ Alive(n, Busy) /\ Pending(n)
      /\ t # "closeConnection" => Requested(n)
      /\ t = "closeConnection" => Unasked(n) /\ n.state = "REQUEST_CLOSE"
      /\ t = "releaseProtocol" => ~n.hasProtocol /\ n.state # "OPEN"
      /\ t = "releaseConnection" => n.state = "CLOSED"
  BY <1>2, TaskTaken
<1>4. t \in Tasks
  <2>1. net.tasks \in Seq(Tasks)
    BY <1>1, BusyWhole DEF Nets
  <2> QED BY <1>2, <2>1
<1>5. \/ t = "closeConnection" /\ ~ServiceHasConnection /\ TaskDone(CloseConnection(n))
      \/ t = "releaseConnection" /\ TaskDone(ReleaseConnection(n))
      \/ t = "releaseProtocol" /\ TaskDone(ReleaseProtocol(n))
  BY <1>1, <1>4 DEF RunTask, Tasks
<1> HIDE DEF n, t
<1>6. n \in Nets
  BY <1>3 DEF Solid
<1>7. n.state # "OPEN" => service = "idle" /\ Busy = FALSE
  BY <1>3 DEF Alive, Busy
<1>8. CASE t = "closeConnection" /\ ~ServiceHasConnection /\ TaskDone(CloseConnection(n))
  <2>1. service = "idle" /\ Busy = FALSE
    BY <1>8 DEF ServiceHasConnection, Busy
  <2>2. Whole(CloseConnection(n), Busy)
    BY <1>3, <1>8, <2>1, CloseConnectionWhole
  <2> QED BY <1>1, <1>8, <2>1, <2>2, TaskDoneKeeps
<1>9. CASE t = "releaseConnection" /\ TaskDone(ReleaseConnection(n))
  <2> DEFINE v == ReleaseConnection(n)
  <2>1. service = "idle" /\ Busy = FALSE
    BY <1>3, <1>7, <1>9
  <2>2. Solid(v) /\ v.state = "CLOSED" /\ Pending(v) /\ Requested(v)
    BY <1>3, <1>9, ReleaseConnectionSolid
  <2>3. Whole(v, Busy)
    BY <2>1, <2>2, NotOpenAlive DEF Whole
  <2> QED BY <1>1, <1>9, <2>1, <2>3, TaskDoneKeeps
<1>10. CASE t = "releaseProtocol" /\ TaskDone(ReleaseProtocol(n))
  <2> DEFINE v == ReleaseProtocol(n)
  <2>1. service = "idle" /\ Busy = FALSE
    BY <1>3, <1>7, <1>10
  <2>2. /\ Solid(v) /\ Pending(v) /\ Requested(v)
        /\ Same(n, v, {"rescheduled", "protocol", "linked", "outputBuffer"})
    BY <1>3, <1>10, ReleaseProtocolSolid
  <2>3. v.state = n.state
    BY <1>6, <2>2, SameFields
  <2>4. v.state # "OPEN"
    BY <1>3, <1>10, <2>3
  <2>5. Whole(v, Busy)
    BY <2>1, <2>2, <2>4, NotOpenAlive DEF Whole
  <2> QED BY <1>1, <1>10, <2>1, <2>5, TaskDoneKeeps
<1> QED BY <1>5, <1>8, <1>9, <1>10

LEMMA RescheduleKeeps == NetInv /\ Reschedule => NetInv'
<1>1. SUFFICES ASSUME NetInv, Reschedule PROVE NetInv'
  OBVIOUS
<1>2. PICK t \in net.rescheduled :
        net' = [net EXCEPT !.rescheduled = @ \ {t}, !.tasks = Append(@, t)]
  BY <1>1 DEF Reschedule
<1>3. Whole(net, Busy)
  BY <1>1 DEF NetInv
<1>4. /\ Whole(net', Busy) /\ net'.hasProtocol = net.hasProtocol
      /\ net'.created = net.created /\ net'.autoSend = net.autoSend
      /\ net'.answer = net.answer
  BY <1>2, <1>3, RescheduledWhole
<1>5. UNCHANGED <<place, service, old, raced>>
  BY <1>1 DEF Reschedule
<1> QED BY <1>1, <1>4, <1>5, WorldKeeps DEF NetInv, TypeOK, Serving, Busy

LEMMA RoomLeft ==
  ASSUME NetInv, CanAllocate
  PROVE  /\ net.created < MaxMessages
         /\ service \in {"single", "buffer"} => net.created + 1 < MaxMessages
<1>1. net.created \in Nat
  BY BusyWhole DEF Nets
<1> QED BY <1>1, MaxMessagesAssumption DEF CanAllocate

LEMMA GameWritesKeeps == NetInv /\ GameWrites => NetInv'
<1> DEFINE v == NewBuffer(net)
<1>1. SUFFICES ASSUME NetInv, GameWrites PROVE NetInv'
  OBVIOUS
<1>2. Whole(net, Busy)
  BY <1>1 DEF NetInv
<1>3. CASE TaskDone(net)
  BY <1>1, <1>2, <1>3, TaskDoneKeeps DEF NetInv, Serving, Busy
<1>4. CASE CanAllocate /\ TaskDone(v)
  <2>1. net.hasProtocol /\ net.created < MaxMessages
    BY <1>1, <1>4, RoomLeft DEF GameWrites
  <2>2. /\ Whole(v, Busy) /\ v.hasProtocol /\ v.created = net.created + 1
        /\ v.answer = net.answer
    BY <1>2, <2>1, NewBufferWhole
  <2> HIDE DEF v
  <2>3. service \in {"single", "buffer"} => v.created < MaxMessages
    BY <1>1, <1>4, <2>2, RoomLeft
  <2> QED BY <1>1, <1>4, <2>2, <2>3, TaskDoneKeeps
<1> QED BY <1>1, <1>3, <1>4 DEF GameWrites

LEMMA GameDisconnectsKeeps == NetInv /\ GameDisconnects => NetInv'
<1> DEFINE a == Allocated(net)
           s == Send(a, net.created + 1)
<1>1. SUFFICES ASSUME NetInv, GameDisconnects PROVE NetInv'
  OBVIOUS
<1>2. service = "idle" /\ Busy = FALSE /\ net.hasProtocol
  BY <1>1 DEF GameDisconnects, ServiceHasConnection, Busy
<1>3. Whole(net, FALSE)
  BY <1>1, <1>2, BusyWhole
<1>4. CASE TaskDone(Close(net))
  <2>1. Whole(Close(net), FALSE)
    BY <1>3, CloseStaysWhole
  <2> QED BY <1>1, <1>2, <1>4, <2>1, TaskDoneKeeps
<1>5. CASE CanAllocate /\ TaskDone(Close(s))
  <2>1. Whole(a, FALSE) /\ net.created + 1 \in Messages
    BY <1>1, <1>2, <1>3, <1>5, RoomLeft, AllocatedWhole
  <2> HIDE DEF a
  <2>2. Whole(s, FALSE)
    BY <2>1, SendWhole
  <2> HIDE DEF s
  <2>3. Whole(Close(s), FALSE)
    BY <2>2, CloseStaysWhole
  <2> QED BY <1>1, <1>2, <1>5, <2>3, TaskDoneKeeps
<1> QED BY <1>1, <1>4, <1>5 DEF GameDisconnects

LEMMA OtherTaskKeeps == NetInv /\ OtherTask => NetInv'
<1>1. SUFFICES ASSUME NetInv, OtherTask PROVE NetInv'
  OBVIOUS
<1>2. Whole(net, Busy) /\ TaskDone(net)
  BY <1>1 DEF NetInv, OtherTask
<1> QED BY <1>1, <1>2, TaskDoneKeeps DEF NetInv, Serving, Busy

LEMMA SendNextKeeps == NetInv /\ SendNext => NetInv'
<1> DEFINE m == net.autoSend[place]
           s == Send(net, m)
           r == RemoveAt(s.autoSend, place)
           v == [s EXCEPT !.autoSend = r]
<1>1. SUFFICES ASSUME NetInv, SendNext PROVE NetInv'
  OBVIOUS
<1>2. net \in Nets /\ Whole(net, Busy)
  BY <1>1, BusyWhole DEF NetInv
<1>3. /\ net.autoSend \in Seq(Messages) /\ Len(net.autoSend) \in Nat
      /\ place \in 1 .. Len(net.autoSend)
  <2>1. net.autoSend \in Seq(Messages)
    BY <1>2 DEF Nets
  <2>2. place \in 0 .. Len(net.autoSend) /\ place > 0
    BY <1>1 DEF SendNext, DispatcherHasPool, NetInv, TypeOK
  <2> QED BY <2>1, <2>2
<1>4. UNCHANGED <<service, raced>> /\ old' \subseteq Messages
  BY <1>1 DEF SendNext, NetInv, TypeOK
<1>5. \/ net' = net /\ place' = At(net', place + 1)
      \/ net' = v /\ place' = At(net', place)
  BY <1>1 DEF SendNext
<1>6. CASE net' = net /\ place' = At(net', place + 1)
  <2>1. place' \in 0 .. Len(net'.autoSend)
    BY <1>3, <1>6 DEF At
  <2> QED BY <1>1, <1>2, <1>4, <1>6, <2>1, WorldKeeps DEF NetInv, Serving, Busy
<1>7. CASE net' = v /\ place' = At(net', place)
  <2>1. m \in Messages
    BY <1>3
  <2> HIDE DEF m
  <2>2. /\ Whole(s, Busy) /\ s.hasProtocol = net.hasProtocol /\ s.created = net.created
        /\ s.autoSend = net.autoSend /\ s.answer = net.answer
    BY <1>2, <2>1, SendWhole
  <2> HIDE DEF s
  <2>3. s \in Nets
    BY <2>2 DEF Whole, Solid
  <2>4. r \in Seq(Messages) /\ Len(r) \in Nat
    BY <1>3, <2>2 DEF RemoveAt
  <2> HIDE DEF r
  <2>5. v \in Nets /\ v.autoSend = r
    BY <2>3, <2>4 DEF Nets
  <2>6. Same(s, v, {"autoSend"})
    BY <2>3 DEF Nets, Same
  <2> HIDE DEF v
  <2>7. Whole(v, Busy)
    BY <2>2, <2>5, <2>6, QuietWhole DEF Quiet
  <2>8. v.hasProtocol = s.hasProtocol /\ v.created = s.created /\ v.answer = s.answer
    BY <2>3, <2>6, SameFields
  <2>9. place' \in 0 .. Len(net'.autoSend)
    BY <1>3, <1>7, <2>4, <2>5 DEF At
  <2> QED BY <1>1, <1>4, <1>7, <2>2, <2>7, <2>8, <2>9, WorldKeeps DEF NetInv, Serving, Busy
<1> QED BY <1>5, <1>6, <1>7

LEMMA GrowOldKeeps == NetInv /\ GrowOld => NetInv'
<1>1. SUFFICES ASSUME NetInv, GrowOld PROVE NetInv'
  OBVIOUS
<1>2. UNCHANGED <<net, place, service, raced>>
  BY <1>1 DEF GrowOld
<1>3. Queued(net) \subseteq Messages
  <2>1. net.autoSend \in Seq(Messages) /\ net.addQueue \in Seq(Messages)
    BY <1>1, BusyWhole DEF Nets
  <2>2. net.autoSend \o net.addQueue \in Seq(Messages)
    BY <2>1
  <2> DEFINE s == net.autoSend \o net.addQueue
  <2>3. s \in Seq(Messages)
    BY <2>2
  <2> HIDE DEF s
  <2>4. \A i \in DOMAIN s : s[i] \in Messages
    BY <2>3
  <2>5. ToSet(s) \subseteq Messages
    BY <2>4 DEF ToSet
  <2> QED BY <2>5 DEF Queued, s
<1>4. old' \subseteq Messages
  BY <1>1, <1>3 DEF GrowOld, NetInv, TypeOK
<1> QED BY <1>1, <1>2, <1>4, WorldKeeps DEF NetInv, TypeOK, Serving, Busy

LEMMA RaceKeeps == NetInv /\ Race => NetInv'
<1>1. SUFFICES ASSUME NetInv, Race PROVE NetInv'
  OBVIOUS
<1>2. UNCHANGED <<net, place, service, old>> /\ raced' = TRUE
  BY <1>1 DEF Race
<1>3. Busy' = Busy
  BY <1>2 DEF Busy
<1> QED BY <1>1, <1>2, <1>3 DEF NetInv, TypeOK, Serving, Busy

LEMMA NetStep == NetInv /\ [Next]_vars => NetInv'
<1>1. SUFFICES ASSUME NetInv, [Next]_vars PROVE NetInv'
  OBVIOUS
<1>2. CASE ServiceStep
  BY <1>1, <1>2, ParseHeaderKeeps, ParsePacketKeeps, AnswerInBufferKeeps, AnswerAllocatesKeeps,
     AnswerSentKeeps, CompleteKeeps DEF ServiceStep
<1>3. CASE DispatcherStep
  BY <1>1, <1>3, ReleaseKeeps, RunTaskKeeps, OtherTaskKeeps, SendNextKeeps DEF DispatcherStep
<1>4. CASE GameWrites
  BY <1>1, <1>4, GameWritesKeeps
<1>5. CASE GameDisconnects
  BY <1>1, <1>5, GameDisconnectsKeeps
<1>6. CASE Reschedule
  BY <1>1, <1>6, RescheduleKeeps
<1>7. CASE TimerExpires
  BY <1>1, <1>7, TimerExpiresKeeps
<1>8. CASE GrowOld
  BY <1>1, <1>8, GrowOldKeeps
<1>9. CASE Race
  BY <1>1, <1>9, RaceKeeps
<1>10. ASSUME NEW op \in Ops, NEW e \in {"none", "other"}, OperationEnds(op, e)
       PROVE  NetInv'
  BY <1>1, <1>10, OperationEndsKeeps
<1>11. CASE UNCHANGED vars
  <2>1. UNCHANGED <<net, place, service, old, raced>>
    BY <1>11 DEF vars
  <2>2. Busy' = Busy
    BY <2>1 DEF Busy
  <2> QED BY <1>1, <2>1, <2>2 DEF NetInv, TypeOK, Serving
<1> QED BY <1>1, <1>2, <1>3, <1>4, <1>5, <1>6, <1>7, <1>8, <1>9, <1>10, <1>11 DEF Next

THEOREM InvariantHolds == Spec => []NetInv
BY NetInit, NetStep, PTL DEF Spec

-----------------------------------------------------------------------------
(* The theorems                                                              *)

\* Every variable keeps its type.  So no counter of references goes below zero,
\* and the connection never counts two reads: the fields are numbers, 0..1.
THEOREM TypeCorrect == Spec => []TypeOK
<1>1. NetInv => TypeOK
  BY DEF NetInv
<1> QED BY <1>1, InvariantHolds, PTL

\* Writes of one connection never overlap, for any number of messages, and in
\* whatever order the threads send, the writes end and the socket is closed.
THEOREM WritesApart == Spec => []OneWriteAtATime
<1>1. NetInv => OneWriteAtATime
  <2>1. SUFFICES ASSUME NetInv PROVE OneWriteAtATime
    OBVIOUS
  <2>2. Writing(net) /\ Pending(net)
    BY <2>1 DEF NetInv, Whole, Solid
  <2>3. CASE net.writing = {}
    <3>1. Cardinality(net.writing) = 0
      BY <2>3, FS_EmptySet
    <3> QED BY <2>2, <2>3, <3>1 DEF OneWriteAtATime, Pending
  <2>4. CASE net.writing # {}
    <3>1. PICK m \in net.writing : TRUE
      BY <2>4
    <3>2. net.writing = {m}
      BY <2>2, <3>1 DEF Writing
    <3>3. Cardinality(net.writing) = 1
      BY <3>2, FS_Singleton
    <3> QED BY <2>2, <2>4, <3>3 DEF OneWriteAtATime, Pending
  <2> QED BY <2>3, <2>4
<1> QED BY <1>1, InvariantHolds, PTL

\* Nothing that was deleted is used, and a task to close the connection finds
\* what its caller left, for any number of messages.
THEOREM PointersHold == Spec => []NothingDangles
<1>1. NetInv => NothingDangles
  <2>1. SUFFICES ASSUME NetInv PROVE NothingDangles
    OBVIOUS
  <2>2. Parting(net) /\ Stopping(net) /\ Requested(net) /\ Serving /\ net \in Nets
    BY <2>1 DEF NetInv, Whole, Solid
  <2>3. NothingUsedAfterDelete
    BY <2>2 DEF NothingUsedAfterDelete, Parting, Stopping, Serving, Busy
  <2>4. CloseFindsRequest
    <3> DEFINE Asked == {i \in DOMAIN net.tasks : net.tasks[i] = "closeConnection"}
    <3>1. CASE net.state = "REQUEST_CLOSE"
      <4>1. PICK i \in Asked : TRUE
        BY <2>2, <3>1 DEF Requested
      <4>2. Asked = {i}
        BY <2>2, <4>1 DEF Requested
      <4>3. Cardinality(Asked) = 1
        BY <4>2, FS_Singleton
      <4> QED BY <3>1, <4>3 DEF CloseFindsRequest
    <3>2. CASE net.state # "REQUEST_CLOSE"
      <4>1. Asked = {}
        BY <2>2, <3>2 DEF Requested
      <4>2. Cardinality(Asked) = 0
        BY <4>1, FS_EmptySet
      <4> QED BY <3>2, <4>2 DEF CloseFindsRequest
    <3> QED BY <3>1, <3>2
  <2> QED BY <2>3, <2>4 DEF NothingDangles
<1> QED BY <1>1, InvariantHolds, PTL

=============================================================================
