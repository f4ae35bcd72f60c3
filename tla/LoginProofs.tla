----------------------------- MODULE LoginProofs -----------------------------
(***************************************************************************)
(* Proofs about Login, for every number of characters and connections: no  *)
(* order of logins, take-overs and closing connections leaves a pointer to *)
(* a protocol that is gone, or a player waiting to be taken over in vain.  *)
(*                                                                         *)
(* The handlers are compositions of steps on the whole state, so what they *)
(* preserve is stated about such a state w, and proved of each step.       *)
(***************************************************************************)
EXTENDS Login, SumLemmas

Records == [state : ProtocolStates, player : Ids, refs : Int]
Worlds == [game : [Chars -> Seats], protocol : [Protocols -> Records],
           tasks : Seq(TaskSet), later : Seq(TaskSet)]

State(w, p) == w.protocol[p].state

\* Every task and event is about a protocol that is in use, and of the right
\* kind; nothing holds a protocol that was not used yet.
OnLive(w) ==
  /\ \A p \in Protocols : State(w, p) = "unused" => w.protocol[p].refs = 0
  /\ \A i \in DOMAIN w.tasks : /\ State(w, w.tasks[i].protocol) \notin {"unused", "deleted"}
                               /\ w.tasks[i].what = "login" => w.tasks[i].char \in Chars
  /\ \A i \in DOMAIN w.later : /\ State(w, w.later[i].protocol) \notin {"unused", "deleted"}
                               /\ w.later[i].what \in {"release", "connect"}

\* The close of a protocol is queued once, after its login and logout.
Closings(w) ==
  /\ \A p \in Protocols : State(w, p) = "closing" =>
       \E k \in DOMAIN w.tasks : w.tasks[k].what = "close" /\ w.tasks[k].protocol = p
  /\ \A k \in DOMAIN w.tasks : w.tasks[k].what = "close" =>
       /\ State(w, w.tasks[k].protocol) = "closing"
       /\ \A j \in DOMAIN w.tasks :
            /\ w.tasks[j].protocol = w.tasks[k].protocol
            /\ w.tasks[j].what \in {"login", "logout", "close"}
            => j <= k /\ (w.tasks[j].what = "close" => j = k)

\* The release that is tried again is queued or planned once, and is all that
\* is left of a closed protocol but for its connect.
Releases(w) ==
  /\ \A p \in Protocols : State(w, p) = "closed" =>
       \/ \E k \in DOMAIN w.tasks : w.tasks[k].what = "release" /\ w.tasks[k].protocol = p
       \/ \E k \in DOMAIN w.later : w.later[k].what = "release" /\ w.later[k].protocol = p
  /\ \A k \in DOMAIN w.tasks : State(w, w.tasks[k].protocol) = "closed" =>
       w.tasks[k].what \in {"release", "connect"}
  /\ \A k \in DOMAIN w.tasks : w.tasks[k].what = "release" =>
       /\ State(w, w.tasks[k].protocol) = "closed"
       /\ \A j \in DOMAIN w.tasks :
            w.tasks[j].what = "release" /\ w.tasks[j].protocol = w.tasks[k].protocol => j = k
       /\ \A j \in DOMAIN w.later :
            w.later[j].what = "release" => w.later[j].protocol # w.tasks[k].protocol
  /\ \A k \in DOMAIN w.later : w.later[k].what = "release" =>
       /\ State(w, w.later[k].protocol) = "closed"
       /\ \A j \in DOMAIN w.later :
            w.later[j].what = "release" /\ w.later[j].protocol = w.later[k].protocol => j = k

\* A protocol with a login or a connect to come has one of the two, once; it
\* is nobody's client yet, and held if it is to connect.
Arrives(t) == t.what \in {"login", "connect"}
ToArrive(w, t) ==
  /\ Arrives(t)
  /\ w.protocol[t.protocol].refs = IF t.what = "connect" THEN 1 ELSE 0
  /\ \A c \in Chars : w.game[c].client # t.protocol
  /\ t.what = "connect" => t.id # None /\ t.char \in Chars
Arrivals(w) ==
  /\ \A p \in Protocols : w.protocol[p].refs \in 0..1
  /\ \A k \in DOMAIN w.tasks : Arrives(w.tasks[k]) =>
       /\ ToArrive(w, w.tasks[k])
       /\ \A j \in DOMAIN w.tasks :
            Arrives(w.tasks[j]) /\ w.tasks[j].protocol = w.tasks[k].protocol => j = k
       /\ \A j \in DOMAIN w.later :
            Arrives(w.later[j]) => w.later[j].protocol # w.tasks[k].protocol
  /\ \A k \in DOMAIN w.later : Arrives(w.later[k]) =>
       /\ ToArrive(w, w.later[k])
       /\ \A j \in DOMAIN w.later :
            Arrives(w.later[j]) /\ w.later[j].protocol = w.later[k].protocol => j = k

\* A client is in use and plays its player.
Clients(w) ==
  \A c \in Chars : w.game[c].client # None =>
    /\ State(w, w.game[c].client) \notin {"unused", "deleted"}
    /\ w.protocol[w.game[c].client].player = w.game[c].id
    /\ w.game[c].id # None

Core(w) == OnLive(w) /\ Closings(w) /\ Releases(w) /\ Arrivals(w) /\ Clients(w)

\* A player who is connecting has a connect coming, and whoever is still his
\* client is closed before it.
Ends(t, p) == t.what \in {"close", "release"} /\ t.protocol = p
Connects(t, c, id) == t.what = "connect" /\ t.char = c /\ t.id = id
Scheduled(w, c) ==
  LET client == w.game[c].client  id == w.game[c].id IN
  \/ \E j \in DOMAIN w.tasks :
       /\ Connects(w.tasks[j], c, id)
       /\ client # None => \E i \in DOMAIN w.tasks : i < j /\ Ends(w.tasks[i], client)
  \/ \E j \in DOMAIN w.later :
       /\ Connects(w.later[j], c, id)
       /\ client # None =>
            \/ \E i \in DOMAIN w.tasks : Ends(w.tasks[i], client)
            \/ \E i \in DOMAIN w.later : i < j /\ Ends(w.later[i], client)
Schedules(w) == \A c \in Chars : w.game[c].isConnecting => Scheduled(w, c)

\* The type of the waiting list.
Entries == [who : Chars, ip : Addresses \cup {None}, late : BOOLEAN]
ListTyped == waiting \in Seq(Entries)

-----------------------------------------------------------------------------
(* Queues of tasks *)

LEMMA QueuedLast ==
  ASSUME NEW s \in Seq(TaskSet), NEW t \in TaskSet
  PROVE  /\ Append(s, t) \in Seq(TaskSet)
         /\ DOMAIN Append(s, t) = DOMAIN s \cup {Len(s) + 1}
         /\ Append(s, t)[Len(s) + 1] = t
         /\ \A i \in DOMAIN s : Append(s, t)[i] = s[i] /\ i \in Nat /\ i < Len(s) + 1
         /\ Len(s) \in Nat
  OBVIOUS

LEMMA TakenFirst ==
  ASSUME NEW s \in Seq(TaskSet), s # <<>>
  PROVE  /\ Tail(s) \in Seq(TaskSet) /\ Head(s) \in TaskSet
         /\ 1 \in DOMAIN s /\ Head(s) = s[1]
         /\ \A i \in DOMAIN Tail(s) : /\ i \in Nat /\ i >= 1
                                      /\ i + 1 \in DOMAIN s /\ Tail(s)[i] = s[i + 1]
         /\ \A i \in DOMAIN s : i \in Nat /\ i >= 1
                                /\ (i # 1 => i - 1 \in DOMAIN Tail(s) /\ Tail(s)[i - 1] = s[i])
  OBVIOUS

LEMMA TasksAre ==
  ASSUME NEW what \in {"login", "logout", "close", "release", "connect"},
         NEW p \in Protocols, NEW c \in Chars \cup {None}, NEW id \in Ids
  PROVE  /\ Task(what, p, c, id) \in TaskSet
         /\ Task(what, p, c, id).what = what /\ Task(what, p, c, id).protocol = p
         /\ Task(what, p, c, id).char = c /\ Task(what, p, c, id).id = id
BY DEF Task, TaskSet

-----------------------------------------------------------------------------
(* One field of one protocol or seat *)

LEMMA StateSet ==
  ASSUME NEW f \in [Protocols -> Records], NEW p \in Protocols, NEW s \in ProtocolStates
  PROVE  /\ [f EXCEPT ![p].state = s] \in [Protocols -> Records]
         /\ \A q \in Protocols :
              /\ [f EXCEPT ![p].state = s][q].state = IF q = p THEN s ELSE f[q].state
              /\ [f EXCEPT ![p].state = s][q].player = f[q].player
              /\ [f EXCEPT ![p].state = s][q].refs = f[q].refs
<1>1. f[p] \in Records
  OBVIOUS
<1>2. [f[p] EXCEPT !.state = s] \in Records
  BY <1>1 DEF Records
<1> QED BY <1>1, <1>2 DEF Records

LEMMA PlayerSet ==
  ASSUME NEW f \in [Protocols -> Records], NEW p \in Protocols, NEW x \in Ids
  PROVE  /\ [f EXCEPT ![p].player = x] \in [Protocols -> Records]
         /\ \A q \in Protocols :
              /\ [f EXCEPT ![p].player = x][q].state = f[q].state
              /\ [f EXCEPT ![p].player = x][q].player = IF q = p THEN x ELSE f[q].player
              /\ [f EXCEPT ![p].player = x][q].refs = f[q].refs
<1>1. f[p] \in Records
  OBVIOUS
<1>2. [f[p] EXCEPT !.player = x] \in Records
  BY <1>1 DEF Records
<1> QED BY <1>1, <1>2 DEF Records

LEMMA RefsSet ==
  ASSUME NEW f \in [Protocols -> Records], NEW p \in Protocols, NEW n \in Int
  PROVE  /\ [f EXCEPT ![p].refs = n] \in [Protocols -> Records]
         /\ \A q \in Protocols :
              /\ [f EXCEPT ![p].refs = n][q].state = f[q].state
              /\ [f EXCEPT ![p].refs = n][q].player = f[q].player
              /\ [f EXCEPT ![p].refs = n][q].refs = IF q = p THEN n ELSE f[q].refs
<1>1. f[p] \in Records
  OBVIOUS
<1>2. [f[p] EXCEPT !.refs = n] \in Records
  BY <1>1 DEF Records
<1> QED BY <1>1, <1>2 DEF Records

LEMMA WorldIs ==
  ASSUME NEW w \in Worlds
  PROVE  /\ w.tasks \in Seq(TaskSet) /\ w.later \in Seq(TaskSet)
         /\ w.game \in [Chars -> Seats] /\ w.protocol \in [Protocols -> Records]
         /\ \A i \in DOMAIN w.tasks : w.tasks[i] \in TaskSet /\ w.tasks[i].protocol \in Protocols
         /\ \A i \in DOMAIN w.later : w.later[i] \in TaskSet /\ w.later[i].protocol \in Protocols
         /\ \A c \in Chars : /\ w.game[c].client \in Protocols \cup {None}
                             /\ w.game[c].id \in Protocols \cup {None}
<1>1. /\ w.tasks \in Seq(TaskSet) /\ w.later \in Seq(TaskSet)
      /\ w.game \in [Chars -> Seats] /\ w.protocol \in [Protocols -> Records]
  BY DEF Worlds
<1>2. \A t \in TaskSet : t.protocol \in Protocols
  BY DEF TaskSet
<1>3. /\ \A i \in DOMAIN w.tasks : w.tasks[i] \in TaskSet
      /\ \A i \in DOMAIN w.later : w.later[i] \in TaskSet
  <2> HIDE DEF TaskSet
  <2> QED BY <1>1
<1>4. \A s \in Seats : s.client \in Protocols \cup {None} /\ s.id \in Protocols \cup {None}
  BY DEF Seats, Ids
<1>5. \A c \in Chars : w.game[c] \in Seats
  BY <1>1
<1> QED BY <1>1, <1>2, <1>3, <1>4, <1>5

-----------------------------------------------------------------------------
(* Closing a connection *)

LEMMA CloseIs ==
  ASSUME NEW w \in Worlds, NEW p \in Protocols, State(w, p) = "open"
  PROVE  /\ Close(w, p) \in Worlds
         /\ Close(w, p).game = w.game /\ Close(w, p).later = w.later
         /\ Close(w, p).tasks = Append(w.tasks, Task("close", p, None, None))
         /\ \A q \in Protocols :
              /\ State(Close(w, p), q) = IF q = p THEN "closing" ELSE State(w, q)
              /\ Close(w, p).protocol[q].player = w.protocol[q].player
              /\ Close(w, p).protocol[q].refs = w.protocol[q].refs
<1> DEFINE t == Task("close", p, None, None)
<1>1. t \in TaskSet
  BY TasksAre DEF Ids
<1>2. p # None
  BY LoginAssumption
<1>3. w.protocol \in [Protocols -> Records] /\ w.tasks \in Seq(TaskSet)
  BY DEF Worlds
<1> DEFINE f == [w.protocol EXCEPT ![p].state = "closing"]
<1>4. /\ f \in [Protocols -> Records]
      /\ \A q \in Protocols : /\ f[q].state = IF q = p THEN "closing" ELSE w.protocol[q].state
                              /\ f[q].player = w.protocol[q].player
                              /\ f[q].refs = w.protocol[q].refs
  BY <1>3, StateSet, ZenonT(60) DEF ProtocolStates
<1> HIDE DEF t
<1> DEFINE v == [w EXCEPT !.protocol[p].state = "closing", !.tasks = Append(@, t)]
<1>5. Close(w, p) = v
  BY <1>2 DEF Close, State, t
<1>6. v.game = w.game /\ v.later = w.later /\ v.tasks = Append(w.tasks, t) /\ v.protocol = f
  BY DEF Worlds
<1> HIDE DEF f
<1>7. v.tasks \in Seq(TaskSet)
  BY <1>1, <1>3, <1>6
<1>8. v \in Worlds
  BY <1>4, <1>6, <1>7 DEF Worlds
<1> HIDE DEF v
<1> QED BY <1>4, <1>5, <1>6, <1>8 DEF State, t

LEMMA CloseCore ==
  ASSUME NEW w \in Worlds, NEW p \in Ids, Core(w)
  PROVE  Close(w, p) \in Worlds /\ Core(Close(w, p))
<1>1. CASE p = None \/ State(w, p) # "open"
  BY <1>1 DEF Close, State
<1>2. CASE p # None /\ State(w, p) = "open"
  <2> DEFINE t == Task("close", p, None, None)
             v == Close(w, p)
             n == Len(w.tasks) + 1
  <2>1. p \in Protocols
    BY <1>2 DEF Ids
  <2>2. t \in TaskSet /\ t.what = "close" /\ t.protocol = p
    BY <2>1, TasksAre DEF Ids
  <2>3. /\ v \in Worlds /\ v.game = w.game /\ v.later = w.later /\ v.tasks = Append(w.tasks, t)
        /\ \A q \in Protocols :
             /\ State(v, q) = IF q = p THEN "closing" ELSE State(w, q)
             /\ v.protocol[q].player = w.protocol[q].player
             /\ v.protocol[q].refs = w.protocol[q].refs
    BY <1>2, <2>1, CloseIs
  <2>4. w.tasks \in Seq(TaskSet)
    BY WorldIs
  <2> HIDE DEF v, t
  <2>5. /\ DOMAIN v.tasks = DOMAIN w.tasks \cup {n} /\ v.tasks[n] = t
        /\ \A i \in DOMAIN w.tasks : v.tasks[i] = w.tasks[i] /\ i \in Nat /\ i < n
        /\ n \in Nat
    BY <2>2, <2>3, <2>4, QueuedLast
  <2>6. /\ \A i \in DOMAIN w.tasks : w.tasks[i].protocol \in Protocols
        /\ \A i \in DOMAIN w.later : w.later[i].protocol \in Protocols
        /\ \A c \in Chars : w.game[c].client \in Protocols \cup {None}
    BY WorldIs
  <2> HIDE DEF n
  <2>7. OnLive(v)
    BY <1>2, <2>1, <2>2, <2>3, <2>5, <2>6 DEF Core, OnLive
  <2>8. Closings(v)
    BY <1>2, <2>1, <2>2, <2>3, <2>5, <2>6 DEF Core, Closings
  <2>9. Releases(v)
    BY <1>2, <2>1, <2>2, <2>3, <2>5, <2>6 DEF Core, Releases
  <2>10. Arrivals(v)
    BY <1>2, <2>1, <2>2, <2>3, <2>5, <2>6, SMTT(30) DEF Core, Arrivals, Arrives, ToArrive
  <2>11. Clients(v)
    BY <1>2, <2>1, <2>2, <2>3, <2>5, <2>6 DEF Core, Clients
  <2> QED BY <2>3, <2>7, <2>8, <2>9, <2>10, <2>11 DEF Core, v
<1> QED BY <1>1, <1>2

LEMMA CloseSchedules ==
  ASSUME NEW w \in Worlds, NEW p \in Ids, Schedules(w)
  PROVE  Schedules(Close(w, p))
<1>1. CASE p = None \/ State(w, p) # "open"
  BY <1>1 DEF Close, State
<1>2. CASE p # None /\ State(w, p) = "open"
  <2> DEFINE t == Task("close", p, None, None)
             v == Close(w, p)
             n == Len(w.tasks) + 1
  <2>1. p \in Protocols
    BY <1>2 DEF Ids
  <2>2. t \in TaskSet
    BY <2>1, TasksAre DEF Ids
  <2>3. v.game = w.game /\ v.later = w.later /\ v.tasks = Append(w.tasks, t)
    BY <1>2, <2>1, CloseIs
  <2>4. w.tasks \in Seq(TaskSet)
    BY WorldIs
  <2> HIDE DEF v, t
  <2>5. /\ DOMAIN v.tasks = DOMAIN w.tasks \cup {n}
        /\ \A i \in DOMAIN w.tasks : v.tasks[i] = w.tasks[i]
    BY <2>2, <2>3, <2>4, QueuedLast
  <2> HIDE DEF n
  <2>6. Schedules(v)
    BY <2>3, <2>5 DEF Schedules, Scheduled
  <2> QED BY <2>6 DEF v
<1> QED BY <1>1, <1>2

-----------------------------------------------------------------------------
(* Leaving the game *)

Good(w) == w \in Worlds /\ Core(w) /\ Schedules(w)

LEMMA CloseGood ==
  ASSUME NEW w, NEW p \in Ids, Good(w)
  PROVE  Good(Close(w, p))
BY CloseCore, CloseSchedules DEF Good

LEMMA SeatSet ==
  ASSUME NEW w \in Worlds, NEW c \in Chars, NEW s \in Seats
  PROVE  /\ [w EXCEPT !.game[c] = s] \in Worlds
         /\ [w EXCEPT !.game[c] = s].protocol = w.protocol
         /\ [w EXCEPT !.game[c] = s].tasks = w.tasks
         /\ [w EXCEPT !.game[c] = s].later = w.later
         /\ \A d \in Chars : [w EXCEPT !.game[c] = s].game[d] = IF d = c THEN s ELSE w.game[d]
<1> DEFINE v == [w EXCEPT !.game[c] = s]
<1>1. w.game \in [Chars -> Seats]
  BY DEF Worlds
<1>2. /\ v.game = [w.game EXCEPT ![c] = s] /\ v.protocol = w.protocol
      /\ v.tasks = w.tasks /\ v.later = w.later
  BY DEF Worlds
<1> HIDE DEF Seats
<1>3. [w.game EXCEPT ![c] = s] \in [Chars -> Seats]
  BY <1>1
<1>4. \A d \in Chars : [w.game EXCEPT ![c] = s][d] = IF d = c THEN s ELSE w.game[d]
  BY <1>1
<1>5. v \in Worlds
  BY <1>2, <1>3 DEF Worlds
<1> HIDE DEF v
<1> QED BY <1>2, <1>4, <1>5 DEF v

LEMMA LeftGood ==
  ASSUME NEW w, NEW p \in Ids, NEW c \in Chars, Good(w)
  PROVE  Good(Left(w, p, c))
<1> DEFINE u == Close(w, p)
           v == [u EXCEPT !.game[c] = Absent]
<1>1. Good(u)
  BY CloseGood
<1>2. Absent \in Seats /\ Absent.client = None /\ Absent.isConnecting = FALSE
  BY DEF Absent, Seats, Ids
<1>3. Left(w, p, c) = v
  BY DEF Left
<1> HIDE DEF u
<1>4. u \in Worlds /\ Core(u) /\ Schedules(u)
  BY <1>1 DEF Good
<1>5. /\ v \in Worlds /\ v.protocol = u.protocol /\ v.tasks = u.tasks /\ v.later = u.later
      /\ \A d \in Chars : v.game[d] = IF d = c THEN Absent ELSE u.game[d]
  BY <1>2, <1>4, SeatSet
<1> HIDE DEF v
<1>6. /\ \A i \in DOMAIN u.tasks : u.tasks[i].protocol \in Protocols
      /\ \A i \in DOMAIN u.later : u.later[i].protocol \in Protocols
  BY <1>4, WorldIs
<1>7. None \notin Protocols
  BY LoginAssumption
<1>8. OnLive(v) /\ Closings(v) /\ Releases(v)
  BY <1>4, <1>5 DEF Core, OnLive, Closings, Releases, State
<1>9. Arrivals(v)
  BY <1>2, <1>4, <1>5, <1>6, <1>7 DEF Core, Arrivals, ToArrive, Arrives
<1>10. Clients(v)
  BY <1>2, <1>4, <1>5 DEF Core, Clients, State
<1>11. Schedules(v)
  BY <1>2, <1>4, <1>5 DEF Schedules, Scheduled
<1> QED BY <1>3, <1>5, <1>8, <1>9, <1>10, <1>11 DEF Good, Core

-----------------------------------------------------------------------------
(* Taking the first task *)

Dropped(w) == [w EXCEPT !.tasks = Tail(@)]

\* p has no login and no connect to come, and is nobody's client.
Arrived(w, p, n) ==
  /\ State(w, p) \notin {"unused", "deleted"} /\ w.protocol[p].refs = n
  /\ \A c \in Chars : w.game[c].client # p
  /\ \A i \in DOMAIN w.tasks : Arrives(w.tasks[i]) => w.tasks[i].protocol # p
  /\ \A i \in DOMAIN w.later : Arrives(w.later[i]) => w.later[i].protocol # p

LEMMA DroppedIs ==
  ASSUME NEW w \in Worlds, w.tasks # <<>>
  PROVE  /\ Dropped(w) \in Worlds
         /\ Dropped(w).game = w.game /\ Dropped(w).protocol = w.protocol
         /\ Dropped(w).later = w.later
         /\ 1 \in DOMAIN w.tasks /\ Head(w.tasks) = w.tasks[1] /\ Head(w.tasks) \in TaskSet
         /\ \A i \in DOMAIN Dropped(w).tasks :
              /\ i \in Nat /\ i >= 1
              /\ i + 1 \in DOMAIN w.tasks /\ Dropped(w).tasks[i] = w.tasks[i + 1]
         /\ \A i \in DOMAIN w.tasks :
              /\ i \in Nat /\ i >= 1
              /\ i # 1 => i - 1 \in DOMAIN Dropped(w).tasks /\ Dropped(w).tasks[i - 1] = w.tasks[i]
<1> DEFINE v == Dropped(w)
<1>1. w.tasks \in Seq(TaskSet)
  BY DEF Worlds
<1>2. /\ v.game = w.game /\ v.protocol = w.protocol /\ v.later = w.later
      /\ v.tasks = Tail(w.tasks)
  BY DEF Worlds, Dropped
<1>3. Tail(w.tasks) \in Seq(TaskSet)
  BY <1>1, TakenFirst
<1>4. v \in Worlds
  BY <1>3 DEF Worlds, Dropped
<1> HIDE DEF v
<1> QED BY <1>1, <1>2, <1>4, TakenFirst DEF v

LEMMA DroppedCore ==
  ASSUME NEW w \in Worlds, w.tasks # <<>>, Core(w),
         Head(w.tasks).what \in {"login", "logout", "connect"}
  PROVE  Core(Dropped(w))
<1> DEFINE v == Dropped(w)
           t == Head(w.tasks)
<1>1. /\ v \in Worlds
      /\ v.game = w.game /\ v.protocol = w.protocol /\ v.later = w.later
      /\ 1 \in DOMAIN w.tasks /\ t = w.tasks[1]
      /\ \A i \in DOMAIN v.tasks : i \in Nat /\ i >= 1 /\ i + 1 \in DOMAIN w.tasks
                                   /\ v.tasks[i] = w.tasks[i + 1]
      /\ \A i \in DOMAIN w.tasks : /\ i \in Nat /\ i >= 1
                                   /\ i # 1 => /\ i - 1 \in DOMAIN v.tasks
                                               /\ v.tasks[i - 1] = w.tasks[i]
  BY DroppedIs
<1>2. t.what \in {"login", "logout", "connect"}
  OBVIOUS
<1> HIDE DEF v, t
<1>3. OnLive(v)
  BY <1>1 DEF Core, OnLive, State
<1>4. Closings(v)
  BY <1>1, <1>2 DEF Core, Closings, State
<1>5. Releases(v)
  BY <1>1, <1>2, SMTT(30) DEF Core, Releases, State
<1>6. Arrivals(v)
  <2>1. \A x : ToArrive(w, x) => ToArrive(v, x)
    BY <1>1 DEF ToArrive
  <2> QED BY <1>1, <2>1, SMTT(30) DEF Core, Arrivals
<1>7. Clients(v)
  BY <1>1 DEF Core, Clients, State
<1> QED BY <1>3, <1>4, <1>5, <1>6, <1>7 DEF Core, v

LEMMA DroppedArrives ==
  ASSUME NEW w \in Worlds, w.tasks # <<>>, Core(w), Arrives(Head(w.tasks))
  PROVE  /\ Arrived(Dropped(w), Head(w.tasks).protocol,
                    IF Head(w.tasks).what = "connect" THEN 1 ELSE 0)
         /\ Head(w.tasks).char \in Chars
         /\ Head(w.tasks).what = "connect" => Head(w.tasks).id # None
<1> DEFINE v == Dropped(w)
           t == Head(w.tasks)
<1>1. /\ v.game = w.game /\ v.protocol = w.protocol /\ v.later = w.later
      /\ 1 \in DOMAIN w.tasks /\ t = w.tasks[1]
      /\ \A i \in DOMAIN v.tasks : i \in Nat /\ i >= 1 /\ i + 1 \in DOMAIN w.tasks
                                   /\ v.tasks[i] = w.tasks[i + 1]
  BY DroppedIs
<1>2. Arrives(t)
  OBVIOUS
<1> HIDE DEF v, t
<1> DEFINE p == t.protocol
<1>3. State(w, p) \notin {"unused", "deleted"} /\ t.char \in Chars
  BY <1>1, <1>2 DEF Core, OnLive, Arrivals, Arrives, ToArrive
<1>4. ToArrive(w, t)
  BY <1>1, <1>2 DEF Core, Arrivals
<1>5. \A i \in DOMAIN v.tasks : Arrives(v.tasks[i]) => v.tasks[i].protocol # p
  <2> TAKE i \in DOMAIN v.tasks
  <2>1. i \in Nat /\ i >= 1 /\ i + 1 \in DOMAIN w.tasks /\ v.tasks[i] = w.tasks[i + 1]
    BY <1>1
  <2>2. i + 1 # 1
    BY <2>1
  <2> QED BY <1>1, <1>2, <2>1, <2>2 DEF Core, Arrivals
<1>6. \A i \in DOMAIN v.later : Arrives(v.later[i]) => v.later[i].protocol # p
  BY <1>1, <1>2 DEF Core, Arrivals
<1> HIDE DEF p
<1>7. Arrived(v, p, IF t.what = "connect" THEN 1 ELSE 0)
  BY <1>1, <1>3, <1>4, <1>5, <1>6 DEF Arrived, State, ToArrive, p
<1> QED BY <1>3, <1>4, <1>7 DEF v, t, p, ToArrive

\* A connect that is taken may be the one that was coming, if the client is gone.
Expected(w, t, c) ==
  t.what = "connect" /\ t.char = c /\ t.id = w.game[c].id /\ w.game[c].client = None

LEMMA DroppedSchedules ==
  ASSUME NEW w \in Worlds, w.tasks # <<>>, Schedules(w),
         Head(w.tasks).what \in {"login", "logout", "connect"}
  PROVE  \A c \in Chars : Dropped(w).game[c].isConnecting
           => Scheduled(Dropped(w), c) \/ Expected(Dropped(w), Head(w.tasks), c)
<1> DEFINE v == Dropped(w)
           t == Head(w.tasks)
<1>1. /\ v.game = w.game /\ v.later = w.later
      /\ 1 \in DOMAIN w.tasks /\ t = w.tasks[1]
      /\ \A i \in DOMAIN w.tasks : /\ i \in Nat /\ i >= 1
                                   /\ i # 1 => /\ i - 1 \in DOMAIN v.tasks
                                               /\ v.tasks[i - 1] = w.tasks[i]
  BY DroppedIs
<1>2. t.what \in {"login", "logout", "connect"}
  OBVIOUS
<1> HIDE DEF v, t
<1>3. SUFFICES ASSUME NEW c \in Chars, v.game[c].isConnecting, ~Expected(v, t, c)
               PROVE  Scheduled(v, c)
  BY DEF v, t
<1>4. Scheduled(w, c)
  BY <1>1, <1>3 DEF Schedules
<1> QED BY <1>1, <1>2, <1>3, <1>4 DEF Scheduled, Expected, Connects, Ends

-----------------------------------------------------------------------------
(* What a protocol that has arrived may be given *)

LEMMA RefsCore ==
  ASSUME NEW w \in Worlds, NEW p \in Protocols, NEW m \in 0..1, NEW n \in 0..1,
         Core(w), Arrived(w, p, m), NEW v, v = [w EXCEPT !.protocol[p].refs = n]
  PROVE  /\ v \in Worlds
         /\ v.game = w.game
         /\ v.tasks = w.tasks
         /\ v.later = w.later
         /\ Core(v)
         /\ Arrived(v, p, n)
<1>1. w.protocol \in [Protocols -> Records] /\ n \in Int
  BY DEF Worlds
<1> DEFINE f == [w.protocol EXCEPT ![p].refs = n]
<1>2. /\ f \in [Protocols -> Records]
      /\ \A q \in Protocols : /\ f[q].state = w.protocol[q].state
                              /\ f[q].player = w.protocol[q].player
                              /\ f[q].refs = IF q = p THEN n ELSE w.protocol[q].refs
  BY <1>1, RefsSet
<1>3. v.game = w.game /\ v.tasks = w.tasks /\ v.later = w.later /\ v.protocol = f
  BY DEF Worlds
<1> HIDE DEF f
<1>4. v \in Worlds
  BY <1>2, <1>3 DEF Worlds
<1>5. \A q \in Protocols : /\ State(v, q) = State(w, q)
                           /\ v.protocol[q].player = w.protocol[q].player
                           /\ v.protocol[q].refs = IF q = p THEN n ELSE w.protocol[q].refs
  BY <1>2, <1>3 DEF State
<1>6. /\ \A i \in DOMAIN w.tasks : w.tasks[i].protocol \in Protocols
      /\ \A i \in DOMAIN w.later : w.later[i].protocol \in Protocols
      /\ \A c \in Chars : w.game[c].client \in Protocols \cup {None}
  BY WorldIs
<1>7. OnLive(v) /\ Closings(v) /\ Releases(v)
  <2>1. OnLive(v)
    BY <1>3, <1>5, <1>6 DEF Core, OnLive, Arrived
  <2> QED BY <1>3, <1>5, <1>6, <2>1 DEF Core, Closings, Releases
<1>8. Arrivals(v)
  <2>1. \A x : x.protocol \in Protocols /\ x.protocol # p /\ ToArrive(w, x) => ToArrive(v, x)
    BY <1>3, <1>5 DEF ToArrive
  <2>2. \A q \in Protocols : v.protocol[q].refs \in 0..1
    BY <1>5 DEF Core, Arrivals
  <2> QED BY <1>3, <1>6, <2>1, <2>2 DEF Core, Arrivals, Arrived
<1>9. Clients(v)
  BY <1>3, <1>5, <1>6 DEF Core, Clients
<1>10. Arrived(v, p, n)
  BY <1>3, <1>5 DEF Arrived
<1> QED BY <1>3, <1>4, <1>7, <1>8, <1>9, <1>10 DEF Core

PlayerWorld(w, p, x) == [w EXCEPT !.protocol[p].player = x]

LEMMA PlayerCore ==
  ASSUME NEW w \in Worlds, NEW p \in Protocols, NEW n, NEW x \in Ids,
         Core(w), Arrived(w, p, n)
  PROVE  /\ PlayerWorld(w, p, x) \in Worlds
         /\ PlayerWorld(w, p, x).game = w.game
         /\ PlayerWorld(w, p, x).tasks = w.tasks
         /\ PlayerWorld(w, p, x).later = w.later
         /\ PlayerWorld(w, p, x).protocol[p].player = x
         /\ Core(PlayerWorld(w, p, x))
         /\ Arrived(PlayerWorld(w, p, x), p, n)
<1> DEFINE v == PlayerWorld(w, p, x)
<1>1. w.protocol \in [Protocols -> Records]
  BY DEF Worlds
<1> DEFINE f == [w.protocol EXCEPT ![p].player = x]
<1>2. /\ f \in [Protocols -> Records]
      /\ \A q \in Protocols : /\ f[q].state = w.protocol[q].state
                              /\ f[q].player = IF q = p THEN x ELSE w.protocol[q].player
                              /\ f[q].refs = w.protocol[q].refs
  BY <1>1, PlayerSet
<1>3. v.game = w.game /\ v.tasks = w.tasks /\ v.later = w.later /\ v.protocol = f
  BY DEF Worlds, PlayerWorld
<1> HIDE DEF f
<1>4. v \in Worlds
  BY <1>2, <1>3 DEF Worlds, PlayerWorld
<1> HIDE DEF v
<1>5. \A q \in Protocols : /\ State(v, q) = State(w, q)
                           /\ v.protocol[q].player = IF q = p THEN x ELSE w.protocol[q].player
                           /\ v.protocol[q].refs = w.protocol[q].refs
  BY <1>2, <1>3 DEF State
<1>6. /\ \A i \in DOMAIN w.tasks : w.tasks[i].protocol \in Protocols
      /\ \A i \in DOMAIN w.later : w.later[i].protocol \in Protocols
      /\ \A c \in Chars : w.game[c].client \in Protocols \cup {None}
  BY WorldIs
<1>7. OnLive(v) /\ Closings(v) /\ Releases(v)
  BY <1>3, <1>5, <1>6 DEF Core, OnLive, Closings, Releases
<1>8. Arrivals(v)
  <2>1. \A y : y.protocol \in Protocols /\ ToArrive(w, y) => ToArrive(v, y)
    BY <1>3, <1>5 DEF ToArrive
  <2> QED BY <1>3, <1>5, <1>6, <2>1 DEF Core, Arrivals
<1>9. Clients(v)
  BY <1>3, <1>5, <1>6 DEF Core, Clients, Arrived
<1>10. Arrived(v, p, n)
  BY <1>3, <1>5 DEF Arrived
<1> QED BY <1>3, <1>4, <1>5, <1>7, <1>8, <1>9, <1>10 DEF Core, v

\* v is w with p as the client of c, who is not connecting.
Seated(w, v, p, c) ==
  /\ v.tasks = w.tasks /\ v.later = w.later
  /\ \A q \in Protocols : /\ State(v, q) = State(w, q)
                          /\ q # p => v.protocol[q].player = w.protocol[q].player
                          /\ v.protocol[q].refs = w.protocol[q].refs
  /\ \A d \in Chars : d # c => v.game[d] = w.game[d]
  /\ v.game[c].client = p /\ v.protocol[p].player = v.game[c].id /\ v.game[c].id # None
  /\ ~v.game[c].isConnecting

LEMMA SeatedGood ==
  ASSUME NEW w \in Worlds, NEW v \in Worlds, NEW p \in Protocols, NEW n, NEW c \in Chars,
         Core(w), Arrived(w, p, n), Seated(w, v, p, c),
         \A d \in Chars : w.game[d].isConnecting => d = c \/ Scheduled(w, d)
  PROVE  Good(v)
<1>1. /\ \A i \in DOMAIN w.tasks : w.tasks[i].protocol \in Protocols
      /\ \A i \in DOMAIN w.later : w.later[i].protocol \in Protocols
      /\ \A d \in Chars : w.game[d].client \in Protocols \cup {None}
  BY WorldIs
<1>2. OnLive(v) /\ Closings(v) /\ Releases(v)
  BY <1>1 DEF Core, OnLive, Closings, Releases, Seated
<1>3. Arrivals(v)
  <2>1. \A y : y.protocol \in Protocols /\ y.protocol # p /\ ToArrive(w, y) => ToArrive(v, y)
    BY DEF ToArrive, Seated
  <2> QED BY <1>1, <2>1 DEF Core, Arrivals, Arrived, Seated
<1>4. Clients(v)
  BY <1>1 DEF Core, Clients, Arrived, Seated
<1>5. Schedules(v)
  BY DEF Schedules, Scheduled, Seated
<1> QED BY <1>2, <1>3, <1>4, <1>5 DEF Good, Core

-----------------------------------------------------------------------------
(* Connecting *)

ConnectedWorld(u, p, c, id) ==
  [u EXCEPT !.game[c] = Connected(@, p), !.protocol[p].player = id]

LEMMA ConnectedIs ==
  ASSUME NEW u \in Worlds, NEW p \in Protocols, NEW c \in Chars, NEW id \in Protocols,
         u.game[c].id = id
  PROVE  /\ ConnectedWorld(u, p, c, id) \in Worlds
         /\ Seated(u, ConnectedWorld(u, p, c, id), p, c)
<1> DEFINE v == ConnectedWorld(u, p, c, id)
<1> DEFINE s == Connected(u.game[c], p)
           f == [u.protocol EXCEPT ![p].player = id]
           g == [u.game EXCEPT ![c] = s]
<1>1. u.protocol \in [Protocols -> Records] /\ u.game \in [Chars -> Seats] /\ id \in Ids
  BY DEF Worlds, Ids
<1>2. u.game[c] \in Seats
  BY <1>1
<1>3. s \in Seats /\ s.client = p /\ s.id = u.game[c].id /\ s.isConnecting = FALSE
  BY <1>2 DEF Seats, Connected, Ids
<1>4. /\ f \in [Protocols -> Records]
      /\ \A q \in Protocols : /\ f[q].state = u.protocol[q].state
                              /\ f[q].player = IF q = p THEN id ELSE u.protocol[q].player
                              /\ f[q].refs = u.protocol[q].refs
  BY <1>1, PlayerSet
<1> HIDE DEF s
<1>5. g \in [Chars -> Seats] /\ g[c] = s /\ \A d \in Chars : d # c => g[d] = u.game[d]
  BY <1>1, <1>3
<1>6. v.game = g /\ v.protocol = f /\ v.tasks = u.tasks /\ v.later = u.later
  BY DEF Worlds, s, ConnectedWorld
<1>7. v \in Worlds
  <2> HIDE DEF f, g
  <2> QED BY <1>4, <1>5, <1>6 DEF Worlds, ConnectedWorld
<1>8. id # None
  BY LoginAssumption
<1> HIDE DEF f, g, v
<1>9. Seated(u, v, p, c)
  BY <1>3, <1>4, <1>5, <1>6, <1>8 DEF Seated, State
<1> QED BY <1>7, <1>9 DEF v

LEMMA ConnectGood ==
  ASSUME NEW w \in Worlds, NEW p \in Protocols, NEW c \in Chars, NEW id \in Protocols,
         Core(w), Arrived(w, p, 1),
         \A d \in Chars : w.game[d].isConnecting
           => Scheduled(w, d) \/ (d = c /\ w.game[c].id = id /\ w.game[c].client = None)
  PROVE  Good(Connect(w, p, c, id))
<1> DEFINE u == [w EXCEPT !.protocol[p].refs = 0]
<1>1. w.protocol[p].refs - 1 = 0
  BY DEF Arrived
<1>2. [w EXCEPT !.protocol[p].refs = @ - 1] = u
  BY <1>1
<1>3. /\ u \in Worlds /\ u.game = w.game /\ u.tasks = w.tasks /\ u.later = w.later
      /\ Core(u) /\ Arrived(u, p, 0)
  <2>1. 0 \in 0..1 /\ 1 \in 0..1
    OBVIOUS
  <2> QED BY <2>1, RefsCore
<1> DEFINE Ended(v) == IF w.game[c].id = id /\ w.game[c].client = None
                       THEN [v EXCEPT !.game[c] = Connected(@, p), !.protocol[p].player = id]
                       ELSE Close(v, p)
<1>4. Connect(w, p, c, id) = Ended(u)
  <2>1. Connect(w, p, c, id) = Ended([w EXCEPT !.protocol[p].refs = @ - 1])
    BY DEF Connect
  <2> HIDE DEF Ended, u
  <2> QED BY <1>2, <2>1
<1> HIDE DEF u
<1>5. \A d \in Chars : w.game[d].isConnecting
        => Scheduled(u, d) \/ (d = c /\ w.game[c].id = id /\ w.game[c].client = None)
  BY <1>3 DEF Scheduled
<1>6. CASE w.game[c].id = id /\ w.game[c].client = None
  <2>1. Connect(w, p, c, id) = ConnectedWorld(u, p, c, id)
    BY <1>4, <1>6 DEF ConnectedWorld, Ended
  <2>2. u.game[c].id = id
    BY <1>3, <1>6
  <2> HIDE DEF Ended
  <2>3. \A d \in Chars : u.game[d].isConnecting => d = c \/ Scheduled(u, d)
    BY <1>3, <1>5
  <2> QED BY <1>3, <2>1, <2>2, <2>3, ConnectedIs, SeatedGood
<1>7. CASE ~(w.game[c].id = id /\ w.game[c].client = None)
  <2>1. Schedules(u)
    BY <1>3, <1>5, <1>7 DEF Schedules
  <2>2. Good(u) /\ p \in Ids
    BY <1>3, <2>1 DEF Good, Ids
  <2> QED BY <1>4, <1>7, <2>2, CloseGood
<1> QED BY <1>6, <1>7

-----------------------------------------------------------------------------
(* Taking over *)

LEMMA CloseArrived ==
  ASSUME NEW w \in Worlds, NEW p \in Protocols, NEW q \in Ids, NEW n, Arrived(w, p, n)
  PROVE  /\ Arrived(Close(w, q), p, n) /\ Close(w, q).game = w.game
         /\ q # None /\ State(w, q) \notin {"unused", "deleted"}
              => State(Close(w, q), q) \in {"closing", "closed"}
<1>1. CASE q = None \/ State(w, q) # "open"
  <2>1. Close(w, q) = w
    BY <1>1 DEF Close, State
  <2>2. q # None => State(w, q) \in ProtocolStates
    <3>1. \A r \in Records : r.state \in ProtocolStates
      BY DEF Records
    <3>2. q # None => w.protocol[q] \in Records
      BY WorldIs DEF Ids
    <3> QED BY <3>1, <3>2 DEF State
  <2> QED BY <1>1, <2>1, <2>2 DEF ProtocolStates
<1>2. CASE q # None /\ State(w, q) = "open"
  <2> DEFINE t == Task("close", q, None, None)
             v == Close(w, q)
             m == Len(w.tasks) + 1
  <2>1. q \in Protocols
    BY <1>2 DEF Ids
  <2>2. t \in TaskSet /\ t.what = "close"
    BY <2>1, TasksAre DEF Ids
  <2>3. /\ v.game = w.game /\ v.later = w.later /\ v.tasks = Append(w.tasks, t)
        /\ \A r \in Protocols : /\ State(v, r) = IF r = q THEN "closing" ELSE State(w, r)
                                /\ v.protocol[r].refs = w.protocol[r].refs
    BY <1>2, <2>1, CloseIs
  <2>4. w.tasks \in Seq(TaskSet)
    BY WorldIs
  <2> HIDE DEF v, t
  <2>5. /\ DOMAIN v.tasks = DOMAIN w.tasks \cup {m} /\ v.tasks[m] = t
        /\ \A i \in DOMAIN w.tasks : v.tasks[i] = w.tasks[i]
    BY <2>2, <2>3, <2>4, QueuedLast
  <2> HIDE DEF m
  <2>6. Arrived(v, p, n)
    BY <2>2, <2>3, <2>5 DEF Arrived, Arrives
  <2> QED BY <2>1, <2>3, <2>6 DEF v
<1> QED BY <1>1, <1>2

TakenWorld(x, p, c, id) ==
  [x EXCEPT !.game[c].isConnecting = TRUE, !.later = Append(@, Task("connect", p, c, id))]

LEMMA TakenIs ==
  ASSUME NEW x \in Worlds, NEW p \in Protocols, NEW c \in Chars, NEW id \in Protocols
  PROVE  /\ TakenWorld(x, p, c, id) \in Worlds
         /\ TakenWorld(x, p, c, id).protocol = x.protocol
         /\ TakenWorld(x, p, c, id).tasks = x.tasks
         /\ TakenWorld(x, p, c, id).later = Append(x.later, Task("connect", p, c, id))
         /\ \A d \in Chars :
              /\ d # c => TakenWorld(x, p, c, id).game[d] = x.game[d]
              /\ TakenWorld(x, p, c, id).game[d].client = x.game[d].client
              /\ TakenWorld(x, p, c, id).game[d].id = x.game[d].id
<1> DEFINE v == TakenWorld(x, p, c, id)
           g == [x.game EXCEPT ![c].isConnecting = TRUE]
           t == Task("connect", p, c, id)
<1>1. x.later \in Seq(TaskSet) /\ x.game \in [Chars -> Seats]
  BY WorldIs
<1>2. t \in TaskSet
  BY TasksAre DEF Ids
<1>3. x.game[c] \in Seats
  BY <1>1
<1>4. [x.game[c] EXCEPT !.isConnecting = TRUE] \in Seats
  BY <1>3 DEF Seats
<1>5. g \in [Chars -> Seats]
  <2> HIDE DEF Seats
  <2> QED BY <1>1, <1>4
<1>6. \A d \in Chars :
        /\ d # c => g[d] = x.game[d]
        /\ g[d].client = x.game[d].client /\ g[d].id = x.game[d].id
  BY <1>1, <1>3 DEF Seats
<1> HIDE DEF t
<1>7. Append(x.later, t) \in Seq(TaskSet)
  <2> HIDE DEF TaskSet
  <2> QED BY <1>1, <1>2
<1>8. /\ v.game = g /\ v.protocol = x.protocol /\ v.tasks = x.tasks
      /\ v.later = Append(x.later, t)
  BY DEF Worlds, TakenWorld, t
<1> HIDE DEF g
<1>9. v \in Worlds
  BY <1>5, <1>7, <1>8 DEF Worlds, TakenWorld
<1> HIDE DEF v
<1> QED BY <1>6, <1>8, <1>9 DEF v, t

LEMMA TakenGood ==
  ASSUME NEW x \in Worlds, NEW p \in Protocols, NEW c \in Chars, NEW id \in Protocols,
         Good(x), Arrived(x, p, 1), x.game[c].id = id, x.game[c].client # None,
         State(x, x.game[c].client) \in {"closing", "closed"}
  PROVE  Good(TakenWorld(x, p, c, id))
<1> DEFINE t == Task("connect", p, c, id)
           v == TakenWorld(x, p, c, id)
           n == Len(x.later) + 1
<1>1. t \in TaskSet /\ t.what = "connect" /\ t.protocol = p /\ t.char = c /\ t.id = id
  BY TasksAre DEF Ids
<1>2. /\ v \in Worlds /\ v.protocol = x.protocol /\ v.tasks = x.tasks
      /\ v.later = Append(x.later, t)
      /\ \A d \in Chars : /\ d # c => v.game[d] = x.game[d]
                          /\ v.game[d].client = x.game[d].client /\ v.game[d].id = x.game[d].id
  BY TakenIs
<1>3. /\ x.later \in Seq(TaskSet)
      /\ \A i \in DOMAIN x.tasks : x.tasks[i].protocol \in Protocols
      /\ \A i \in DOMAIN x.later : x.later[i].protocol \in Protocols
      /\ \A d \in Chars : x.game[d].client \in Protocols \cup {None}
  BY WorldIs
<1> HIDE DEF v, t
<1>4. /\ DOMAIN v.later = DOMAIN x.later \cup {n} /\ v.later[n] = t
      /\ \A i \in DOMAIN x.later : v.later[i] = x.later[i] /\ i \in Nat /\ i < n
      /\ n \in Nat
  BY <1>1, <1>2, <1>3, QueuedLast
<1> HIDE DEF n
<1>5. Core(x) /\ Schedules(x) /\ id # None
  BY LoginAssumption DEF Good
<1>6. OnLive(v)
  BY <1>1, <1>2, <1>3, <1>4, <1>5 DEF Core, OnLive, State, Arrived
<1>7. Closings(v)
  BY <1>2, <1>5 DEF Core, Closings, State
<1>8. Releases(v)
  BY <1>1, <1>2, <1>3, <1>4, <1>5 DEF Core, Releases, State
<1>9. Arrivals(v)
  <2>1. \A y : ToArrive(x, y) => ToArrive(v, y)
    BY <1>2 DEF ToArrive
  <2>2. ToArrive(v, t)
    BY <1>1, <1>2, <1>5 DEF ToArrive, Arrives, Arrived
  <2> QED BY <1>1, <1>2, <1>3, <1>4, <1>5, <2>1, <2>2, SMTT(30) DEF Core, Arrivals, Arrived
<1>10. Clients(v)
  BY <1>2, <1>5 DEF Core, Clients, State
<1>11. Schedules(v)
  <2>1. ASSUME NEW d \in Chars, d # c, v.game[d].isConnecting
        PROVE  Scheduled(v, d)
    BY <1>2, <1>4, <1>5, <2>1 DEF Schedules, Scheduled
  <2> DEFINE q == x.game[c].client
  <2>2. \/ \E i \in DOMAIN x.tasks : Ends(x.tasks[i], q)
        \/ \E i \in DOMAIN x.later : Ends(x.later[i], q)
    BY <1>3, <1>5 DEF Core, Closings, Releases, Ends
  <2> HIDE DEF q
  <2>3. Scheduled(v, c)
    BY <1>1, <1>2, <1>4, <2>2 DEF Scheduled, Connects, q
  <2> QED BY <2>1, <2>3 DEF Schedules
<1> QED BY <1>2, <1>6, <1>7, <1>8, <1>9, <1>10, <1>11 DEF Good, Core, v

LEMMA HeldIs ==
  ASSUME NEW w \in Worlds, NEW p \in Protocols, Core(w), Arrived(w, p, 0)
  PROVE  /\ Held(w, p) \in Worlds /\ Held(w, p).game = w.game
         /\ Held(w, p).tasks = w.tasks /\ Held(w, p).later = w.later
         /\ Core(Held(w, p)) /\ Arrived(Held(w, p), p, 1)
         /\ \A c \in Chars : Scheduled(w, c) => Scheduled(Held(w, p), c)
<1> DEFINE v == Held(w, p)
<1>1. w.protocol[p].refs + 1 = 1
  BY DEF Arrived
<1>2. v = [w EXCEPT !.protocol[p].refs = 1]
  BY <1>1 DEF Held
<1>3. 0 \in 0..1 /\ 1 \in 0..1
  OBVIOUS
<1> HIDE DEF v
<1>4. /\ v \in Worlds /\ v.game = w.game /\ v.tasks = w.tasks /\ v.later = w.later
      /\ Core(v) /\ Arrived(v, p, 1)
  BY <1>2, <1>3, RefsCore
<1>5. \A c \in Chars : Scheduled(w, c) => Scheduled(v, c)
  BY <1>4 DEF Scheduled
<1> QED BY <1>4, <1>5 DEF v

LEMMA TakeOverGood ==
  ASSUME NEW w, NEW p \in Protocols, NEW c \in Chars,
         Good(w), Arrived(w, p, 0), w.game[c].client # None
  PROVE  Good(TakeOver(w, p, c))
<1> DEFINE u == Held(w, p)
           q == w.game[c].client
           x == Close(u, q)
           id == w.game[c].id
<1>1. w \in Worlds /\ Core(w) /\ Schedules(w)
  BY DEF Good
<1>2. q \in Protocols /\ q \in Ids /\ id \in Protocols
  BY <1>1, WorldIs DEF Ids, Core, Clients
<1>3. TakeOver(w, p, c) = TakenWorld(x, p, c, id)
  BY DEF TakeOver, TakenWorld
<1> HIDE DEF u
<1>4. /\ u \in Worlds /\ u.game = w.game /\ u.tasks = w.tasks /\ u.later = w.later
      /\ Core(u) /\ Arrived(u, p, 1) /\ \A d \in Chars : Scheduled(w, d) => Scheduled(u, d)
  BY <1>1, HeldIs DEF u
<1>5. Good(u)
  BY <1>1, <1>4 DEF Good, Schedules
<1>6. State(u, q) \notin {"unused", "deleted"} /\ q # None
  BY <1>4 DEF Core, Clients
<1> HIDE DEF q, x, id
<1>7. Good(x) /\ x \in Worlds
  BY <1>2, <1>5, CloseGood DEF x, Good
<1>8. Arrived(x, p, 1) /\ x.game = u.game /\ State(x, q) \in {"closing", "closed"}
  BY <1>2, <1>4, <1>6, CloseArrived DEF x
<1>9. x.game[c].id = id /\ x.game[c].client = q
  BY <1>4, <1>8 DEF id, q
<1> QED BY <1>2, <1>3, <1>6, <1>7, <1>8, <1>9, TakenGood

-----------------------------------------------------------------------------
(* Releasing a protocol *)

\* When a protocol's close or release is taken, only a connect is left of it.
LEMMA ConnectRemains ==
  ASSUME NEW s \in Worlds, s.tasks # <<>>, Core(s), Head(s.tasks).what \in {"close", "release"},
         NEW p, p = Head(s.tasks).protocol
  PROVE  /\ State(s, p) \in {"closing", "closed"}
         /\ \A i \in DOMAIN Dropped(s).tasks : Dropped(s).tasks[i].protocol = p =>
              Dropped(s).tasks[i].what = "connect" /\ s.protocol[p].refs = 1
         /\ \A i \in DOMAIN s.later : s.later[i].protocol = p =>
              s.later[i].what = "connect" /\ s.protocol[p].refs = 1
<1> DEFINE w == Dropped(s)
           t == Head(s.tasks)
<1>1. /\ 1 \in DOMAIN s.tasks /\ t = s.tasks[1] /\ t \in TaskSet
      /\ \A i \in DOMAIN w.tasks : /\ i \in Nat /\ i >= 1
                                   /\ i + 1 \in DOMAIN s.tasks /\ w.tasks[i] = s.tasks[i + 1]
  BY DroppedIs
<1>2. t.what \in {"close", "release"} /\ t.protocol = p
  OBVIOUS
<1>3. \A y \in TaskSet : y.what \in {"login", "logout", "close", "release", "connect"}
  BY DEF TaskSet
<1>4. /\ \A i \in DOMAIN s.tasks : s.tasks[i] \in TaskSet
      /\ \A i \in DOMAIN s.later : s.later[i] \in TaskSet
  BY WorldIs
<1> HIDE DEF w, t
<1>5. State(s, p) \in {"closing", "closed"}
  BY <1>1, <1>2 DEF Core, Closings, Releases
<1>6. \A i \in DOMAIN s.tasks : i # 1 /\ i \in Nat /\ i >= 1 /\ s.tasks[i].protocol = p
                                => s.tasks[i].what = "connect"
  <2>1. CASE t.what = "close"
    <3>1. /\ State(s, p) = "closing"
          /\ \A j \in DOMAIN s.tasks :
               s.tasks[j].protocol = p /\ s.tasks[j].what \in {"login", "logout", "close"}
               => j <= 1
      BY <1>1, <1>2, <2>1 DEF Core, Closings
    <3>2. \A j \in DOMAIN s.tasks : s.tasks[j].protocol = p => s.tasks[j].what # "release"
      BY <3>1 DEF Core, Releases
    <3> QED BY <1>3, <1>4, <3>1, <3>2
  <2>2. CASE t.what = "release"
    BY <1>1, <1>2, <2>2 DEF Core, Releases
  <2> QED BY <1>2, <2>1, <2>2
<1>7. \A i \in DOMAIN s.later : s.later[i].protocol = p => s.later[i].what = "connect"
  <2>1. \A i \in DOMAIN s.later : s.later[i].what \in {"release", "connect"}
    BY DEF Core, OnLive
  <2>2. CASE t.what = "close"
    BY <1>1, <1>2, <2>1, <2>2 DEF Core, Closings, Releases
  <2>3. CASE t.what = "release"
    BY <1>1, <1>2, <2>1, <2>3 DEF Core, Releases
  <2> QED BY <1>2, <2>2, <2>3
<1>8. /\ \A i \in DOMAIN s.tasks : s.tasks[i].protocol = p /\ s.tasks[i].what = "connect"
                                   => s.protocol[p].refs = 1
      /\ \A i \in DOMAIN s.later : s.later[i].protocol = p /\ s.later[i].what = "connect"
                                   => s.protocol[p].refs = 1
  BY DEF Core, Arrivals, Arrives, ToArrive
<1>9. \A i \in DOMAIN w.tasks : w.tasks[i].protocol = p =>
        w.tasks[i].what = "connect" /\ s.protocol[p].refs = 1
  <2> TAKE i \in DOMAIN w.tasks
  <2>1. i \in Nat /\ i >= 1 /\ i + 1 \in DOMAIN s.tasks /\ w.tasks[i] = s.tasks[i + 1]
    BY <1>1
  <2>2. i + 1 # 1 /\ i + 1 \in Nat /\ i + 1 >= 1
    BY <2>1
  <2> QED BY <1>6, <1>8, <2>1, <2>2
<1> QED BY <1>5, <1>7, <1>8, <1>9 DEF w

\* v is w without p as a client.
Parted(w, v, p) ==
  \A c \in Chars : /\ v.game[c].client = IF w.game[c].client = p THEN None ELSE w.game[c].client
                   /\ v.game[c].id = w.game[c].id
                   /\ v.game[c].isConnecting = w.game[c].isConnecting

LEMMA ClientsParted ==
  ASSUME NEW w \in Worlds, NEW p \in Protocols, Clients(w)
  PROVE  /\ [w EXCEPT !.game = ClientsWithout(w, p)] \in Worlds
         /\ [w EXCEPT !.game = ClientsWithout(w, p)].protocol = w.protocol
         /\ [w EXCEPT !.game = ClientsWithout(w, p)].tasks = w.tasks
         /\ [w EXCEPT !.game = ClientsWithout(w, p)].later = w.later
         /\ Parted(w, [w EXCEPT !.game = ClientsWithout(w, p)], p)
<1> DEFINE g == ClientsWithout(w, p)
           v == [w EXCEPT !.game = g]
<1>1. w.game \in [Chars -> Seats] /\ p # None
  BY WorldIs, LoginAssumption
<1>2. ASSUME NEW c \in Chars
      PROVE  /\ g[c] \in Seats
             /\ g[c].client = IF w.game[c].client = p THEN None ELSE w.game[c].client
             /\ g[c].id = w.game[c].id /\ g[c].isConnecting = w.game[c].isConnecting
  <2>1. w.game[c].client = p => w.game[c].id = w.protocol[p].player
    BY <1>1 DEF Clients
  <2>2. w.game[c] \in Seats
    BY <1>1
  <2>3. g[c] = IF w.game[c].client = p THEN [w.game[c] EXCEPT !.client = None] ELSE w.game[c]
    BY <2>1 DEF ClientsWithout
  <2> HIDE DEF g
  <2> QED BY <2>2, <2>3 DEF Seats, Ids
<1>3. g \in [Chars -> Seats]
  BY <1>2 DEF ClientsWithout
<1>4. /\ v.game = g /\ v.protocol = w.protocol /\ v.tasks = w.tasks /\ v.later = w.later
  BY DEF Worlds
<1> HIDE DEF g
<1>5. v \in Worlds
  BY <1>3 DEF Worlds
<1> HIDE DEF v
<1>6. Parted(w, v, p)
  BY <1>2, <1>4 DEF Parted
<1> QED BY <1>4, <1>5, <1>6 DEF v, g

DeletedWorld(u, p) ==
  [u EXCEPT !.protocol[p] = [@ EXCEPT !.state = "deleted", !.player = None]]
ClosedWorld(u, p) ==
  [u EXCEPT !.protocol[p].state = "closed", !.later = Append(@, Task("release", p, None, None))]

LEMMA DeletedIs ==
  ASSUME NEW u \in Worlds, NEW p \in Protocols
  PROVE  /\ DeletedWorld(u, p) \in Worlds
         /\ DeletedWorld(u, p).game = u.game /\ DeletedWorld(u, p).tasks = u.tasks
         /\ DeletedWorld(u, p).later = u.later
         /\ \A q \in Protocols :
              /\ State(DeletedWorld(u, p), q) = IF q = p THEN "deleted" ELSE State(u, q)
              /\ q # p => DeletedWorld(u, p).protocol[q].player = u.protocol[q].player
              /\ DeletedWorld(u, p).protocol[q].refs = u.protocol[q].refs
<1> DEFINE v == DeletedWorld(u, p)
           r == [u.protocol[p] EXCEPT !.state = "deleted", !.player = None]
           f == [u.protocol EXCEPT ![p] = r]
<1>1. u.protocol \in [Protocols -> Records]
  BY WorldIs
<1>2. u.protocol[p] \in Records
  BY <1>1
<1>3. r \in Records /\ r.state = "deleted" /\ r.refs = u.protocol[p].refs
  BY <1>2 DEF Records, ProtocolStates, Ids
<1>4. v.game = u.game /\ v.tasks = u.tasks /\ v.later = u.later /\ v.protocol = f
  BY DEF Worlds, DeletedWorld
<1> HIDE DEF r
<1>5. /\ f \in [Protocols -> Records]
      /\ \A q \in Protocols : f[q] = IF q = p THEN r ELSE u.protocol[q]
  <2> HIDE DEF Records
  <2> QED BY <1>1, <1>3
<1> HIDE DEF f
<1>6. v \in Worlds
  BY <1>4, <1>5 DEF Worlds, DeletedWorld
<1> HIDE DEF v
<1> QED BY <1>3, <1>4, <1>5, <1>6 DEF v, State

LEMMA ClosedIs ==
  ASSUME NEW u \in Worlds, NEW p \in Protocols
  PROVE  /\ ClosedWorld(u, p) \in Worlds
         /\ ClosedWorld(u, p).game = u.game /\ ClosedWorld(u, p).tasks = u.tasks
         /\ ClosedWorld(u, p).later = Append(u.later, Task("release", p, None, None))
         /\ \A q \in Protocols :
              /\ State(ClosedWorld(u, p), q) = IF q = p THEN "closed" ELSE State(u, q)
              /\ ClosedWorld(u, p).protocol[q].player = u.protocol[q].player
              /\ ClosedWorld(u, p).protocol[q].refs = u.protocol[q].refs
<1> DEFINE v == ClosedWorld(u, p)
           t == Task("release", p, None, None)
           f == [u.protocol EXCEPT ![p].state = "closed"]
<1>1. u.protocol \in [Protocols -> Records] /\ u.later \in Seq(TaskSet)
  BY WorldIs
<1>2. /\ f \in [Protocols -> Records]
      /\ \A q \in Protocols : /\ f[q].state = IF q = p THEN "closed" ELSE u.protocol[q].state
                              /\ f[q].player = u.protocol[q].player
                              /\ f[q].refs = u.protocol[q].refs
  BY <1>1, StateSet, ZenonT(60) DEF ProtocolStates
<1>3. t \in TaskSet
  BY TasksAre DEF Ids
<1> HIDE DEF t
<1>4. Append(u.later, t) \in Seq(TaskSet)
  <2> HIDE DEF TaskSet
  <2> QED BY <1>1, <1>3
<1>5. /\ v.game = u.game /\ v.tasks = u.tasks /\ v.protocol = f
      /\ v.later = Append(u.later, t)
  BY DEF Worlds, ClosedWorld, t
<1> HIDE DEF f
<1>6. v \in Worlds
  BY <1>2, <1>4, <1>5 DEF Worlds, ClosedWorld
<1> HIDE DEF v
<1> QED BY <1>2, <1>5, <1>6 DEF v, State, t

\* v is s without its first task, a close or a release of p, and without p as a
\* client; p is deleted, or its release is planned.
Shifted(s, v) ==
  /\ 1 \in DOMAIN s.tasks
  /\ \A i \in DOMAIN v.tasks : /\ i \in Nat /\ i >= 1
                               /\ i + 1 \in DOMAIN s.tasks /\ v.tasks[i] = s.tasks[i + 1]
  /\ \A i \in DOMAIN s.tasks : /\ i \in Nat /\ i >= 1
                               /\ i # 1 => /\ i - 1 \in DOMAIN v.tasks
                                           /\ v.tasks[i - 1] = s.tasks[i]

Extended(s, v, p) ==
  /\ \A i \in DOMAIN s.later : i \in DOMAIN v.later /\ v.later[i] = s.later[i]
  /\ \A i \in DOMAIN v.later : i \notin DOMAIN s.later =>
       /\ v.later[i].what = "release" /\ v.later[i].protocol = p /\ State(v, p) = "closed"
       /\ \A j \in DOMAIN v.later : j \notin DOMAIN s.later => j = i
  /\ State(v, p) = "closed" => \E i \in DOMAIN v.later : i \notin DOMAIN s.later

Released(s, v, p) ==
  /\ Shifted(s, v) /\ Extended(s, v, p) /\ Parted(s, v, p)
  /\ s.tasks[1].protocol = p /\ s.tasks[1].what \in {"close", "release"}
  /\ State(v, p) \in {"deleted", "closed"}
  /\ \A q \in Protocols :
       /\ q # p => State(v, q) = State(s, q) /\ v.protocol[q].player = s.protocol[q].player
       /\ v.protocol[q].refs = s.protocol[q].refs
  /\ \A i \in DOMAIN v.tasks : v.tasks[i].protocol = p =>
       v.tasks[i].what = "connect" /\ State(v, p) = "closed"
  /\ \A i \in DOMAIN s.later : s.later[i].protocol = p =>
       s.later[i].what = "connect" /\ State(v, p) = "closed"

LEMMA ReleasedCore ==
  ASSUME NEW s \in Worlds, NEW v \in Worlds, NEW p \in Protocols, Core(s), Released(s, v, p)
  PROVE  Core(v)
<1>1. /\ \A i \in DOMAIN s.tasks : s.tasks[i].protocol \in Protocols
      /\ \A i \in DOMAIN s.later : s.later[i].protocol \in Protocols
      /\ \A c \in Chars : s.game[c].client \in Protocols \cup {None}
  BY WorldIs
<1>2. p # None
  BY LoginAssumption
<1>3. OnLive(v)
  BY <1>1 DEF Core, OnLive, Released, Shifted, Extended
<1>4. Closings(v)
  BY <1>1 DEF Core, Closings, Released, Shifted
<1>5. Releases(v)
  <2>1. \A q \in Protocols : State(v, q) = "closed" =>
          \/ \E k \in DOMAIN v.tasks : v.tasks[k].what = "release" /\ v.tasks[k].protocol = q
          \/ \E k \in DOMAIN v.later : v.later[k].what = "release" /\ v.later[k].protocol = q
    BY <1>1 DEF Core, Releases, Released, Shifted, Extended
  <2>2. \A k \in DOMAIN v.tasks : State(v, v.tasks[k].protocol) = "closed" =>
          v.tasks[k].what \in {"release", "connect"}
    BY <1>1 DEF Core, Releases, Released, Shifted
  <2>3. \A k \in DOMAIN v.tasks : v.tasks[k].what = "release" =>
          /\ State(v, v.tasks[k].protocol) = "closed"
          /\ \A j \in DOMAIN v.tasks :
               v.tasks[j].what = "release" /\ v.tasks[j].protocol = v.tasks[k].protocol => j = k
          /\ \A j \in DOMAIN v.later :
               v.later[j].what = "release" => v.later[j].protocol # v.tasks[k].protocol
    BY <1>1 DEF Core, Releases, Released, Shifted, Extended
  <2>4. \A k \in DOMAIN v.later : v.later[k].what = "release" =>
          /\ State(v, v.later[k].protocol) = "closed"
          /\ \A j \in DOMAIN v.later :
               v.later[j].what = "release" /\ v.later[j].protocol = v.later[k].protocol => j = k
    BY <1>1 DEF Core, Releases, Released, Extended
  <2> QED BY <2>1, <2>2, <2>3, <2>4 DEF Releases
<1>6. Arrivals(v)
  <2>1. \A y : y.protocol \in Protocols /\ ToArrive(s, y) => ToArrive(v, y)
    BY LoginAssumption DEF ToArrive, Parted, Released
  <2>2. \A q \in Protocols : v.protocol[q].refs \in 0..1
    BY DEF Core, Arrivals, Released
  <2>3. \A i \in DOMAIN v.later : i \notin DOMAIN s.later => ~Arrives(v.later[i])
    BY DEF Arrives, Released, Extended
  <2> QED BY <1>1, <2>1, <2>2, <2>3 DEF Core, Arrivals, Released, Shifted, Extended
<1>7. Clients(v)
  BY <1>1 DEF Core, Clients, Released, Parted
<1> QED BY <1>3, <1>4, <1>5, <1>6, <1>7 DEF Core

LEMMA ReleasedSchedules ==
  ASSUME NEW s, NEW v, NEW p, Schedules(s), Released(s, v, p)
  PROVE  Schedules(v)
<1> DEFINE t == s.tasks[1]
<1>1. /\ 1 \in DOMAIN s.tasks /\ t = s.tasks[1]
      /\ \A i \in DOMAIN s.tasks : /\ i \in Nat /\ i >= 1
                                   /\ i # 1 => /\ i - 1 \in DOMAIN v.tasks
                                               /\ v.tasks[i - 1] = s.tasks[i]
  BY DEF Released, Shifted
<1>2. /\ t.what \in {"close", "release"} /\ t.protocol = p /\ Parted(s, v, p)
      /\ \A i \in DOMAIN s.later : i \in DOMAIN v.later /\ v.later[i] = s.later[i]
  BY DEF Released, Extended
<1> HIDE DEF t
<1>3. SUFFICES ASSUME NEW c \in Chars, v.game[c].isConnecting PROVE Scheduled(v, c)
  BY DEF Schedules
<1> DEFINE q == s.game[c].client
           r == v.game[c].client
<1>4. r # None => q # None /\ q # p /\ r = q
  BY <1>2 DEF Parted
<1>5. v.game[c].id = s.game[c].id /\ s.game[c].isConnecting
  BY <1>2, <1>3 DEF Parted
<1>6. Scheduled(s, c)
  BY <1>5 DEF Schedules
<1>7. CASE \E j \in DOMAIN s.tasks :
             /\ Connects(s.tasks[j], c, s.game[c].id)
             /\ q # None => \E i \in DOMAIN s.tasks : i < j /\ Ends(s.tasks[i], q)
  <2>1. PICK j \in DOMAIN s.tasks :
          /\ Connects(s.tasks[j], c, s.game[c].id)
          /\ q # None => \E i \in DOMAIN s.tasks : i < j /\ Ends(s.tasks[i], q)
    BY <1>7
  <2>2. j # 1
    BY <1>1, <1>2, <2>1 DEF Connects
  <2>3. j - 1 \in DOMAIN v.tasks /\ v.tasks[j - 1] = s.tasks[j] /\ j \in Nat
    BY <1>1, <1>2, <2>2
  <2>4. ASSUME r # None
        PROVE  \E i \in DOMAIN v.tasks : i < j - 1 /\ Ends(v.tasks[i], r)
    <3>1. PICK i \in DOMAIN s.tasks : i < j /\ Ends(s.tasks[i], q)
      BY <1>4, <2>1, <2>4
    <3>2. i # 1
      BY <1>1, <1>2, <1>4, <2>4, <3>1 DEF Ends
    <3>3. i - 1 \in DOMAIN v.tasks /\ v.tasks[i - 1] = s.tasks[i] /\ i - 1 < j - 1
      BY <1>1, <1>2, <2>3, <3>1, <3>2
    <3> QED BY <1>4, <2>4, <3>1, <3>3
  <2> QED BY <1>5, <2>1, <2>3, <2>4 DEF Scheduled
<1>8. CASE \E j \in DOMAIN s.later :
             /\ Connects(s.later[j], c, s.game[c].id)
             /\ q # None => \/ \E i \in DOMAIN s.tasks : Ends(s.tasks[i], q)
                            \/ \E i \in DOMAIN s.later : i < j /\ Ends(s.later[i], q)
  <2>1. PICK j \in DOMAIN s.later :
          /\ Connects(s.later[j], c, s.game[c].id)
          /\ q # None => \/ \E i \in DOMAIN s.tasks : Ends(s.tasks[i], q)
                         \/ \E i \in DOMAIN s.later : i < j /\ Ends(s.later[i], q)
    BY <1>8
  <2>2. j \in DOMAIN v.later /\ Connects(v.later[j], c, v.game[c].id)
    BY <1>2, <1>5, <2>1
  <2>3. ASSUME r # None
        PROVE  \/ \E i \in DOMAIN v.tasks : Ends(v.tasks[i], r)
               \/ \E i \in DOMAIN v.later : i < j /\ Ends(v.later[i], r)
    <3>1. ASSUME NEW i \in DOMAIN s.tasks, Ends(s.tasks[i], q)
          PROVE  \E k \in DOMAIN v.tasks : Ends(v.tasks[k], r)
      <4>1. i # 1
        BY <1>1, <1>2, <1>4, <2>3, <3>1 DEF Ends
      <4>2. i - 1 \in DOMAIN v.tasks /\ v.tasks[i - 1] = s.tasks[i]
        BY <1>1, <1>2, <4>1
      <4> QED BY <1>4, <2>3, <3>1, <4>2
    <3> QED BY <1>2, <1>4, <2>1, <2>3, <3>1
  <2> QED BY <2>2, <2>3 DEF Scheduled
<1> QED BY <1>6, <1>7, <1>8 DEF Scheduled

LEMMA ReleaseGood ==
  ASSUME NEW s, Good(s), s.tasks # <<>>, Head(s.tasks).what \in {"close", "release"}
  PROVE  Good(Release(Dropped(s), Head(s.tasks).protocol))
<1> DEFINE w == Dropped(s)
           p == Head(s.tasks).protocol
           u == [w EXCEPT !.game = ClientsWithout(w, p)]
           v == Release(w, p)
<1>1. s \in Worlds /\ Core(s) /\ Schedules(s)
  BY DEF Good
<1>2. /\ w \in Worlds /\ w.game = s.game /\ w.protocol = s.protocol /\ w.later = s.later
      /\ Head(s.tasks) \in TaskSet
  BY <1>1, DroppedIs
<1>3. p \in Protocols
  BY <1>2 DEF TaskSet
<1>4. v = IF Unheld(w, p) THEN DeletedWorld(u, p) ELSE ClosedWorld(u, p)
  BY DEF Release, DeletedWorld, ClosedWorld
<1> HIDE DEF w
<1>5. Clients(w)
  BY <1>1, <1>2 DEF Core, Clients, State
<1>6. /\ u \in Worlds /\ u.protocol = s.protocol /\ u.tasks = w.tasks /\ u.later = s.later
      /\ Parted(w, u, p)
  <2> HIDE DEF p
  <2> QED BY <1>2, <1>3, <1>5, ClientsParted
<1> HIDE DEF u, v
<1> DEFINE x == Task("release", p, None, None)
<1>7. /\ v \in Worlds /\ v.game = u.game /\ v.tasks = w.tasks
      /\ \A q \in Protocols :
           /\ q # p => State(v, q) = State(s, q) /\ v.protocol[q].player = s.protocol[q].player
           /\ v.protocol[q].refs = s.protocol[q].refs
      /\ \/ v.later = s.later /\ State(v, p) = "deleted" /\ s.protocol[p].refs = 0
         \/ v.later = Append(s.later, x) /\ State(v, p) = "closed"
  <2> HIDE DEF p
  <2>1. \A q \in Protocols : State(u, q) = State(s, q)
    BY <1>6 DEF State
  <2>2. CASE Unheld(w, p)
    <3>1. v = DeletedWorld(u, p)
      BY <1>4, <2>2
    <3>2. s.protocol[p].refs = 0
      BY <1>2, <2>2 DEF Unheld
    <3> QED BY <1>3, <1>6, <2>1, <3>1, <3>2, DeletedIs
  <2>3. CASE ~Unheld(w, p)
    <3>1. v = ClosedWorld(u, p)
      BY <1>4, <2>3
    <3> QED BY <1>3, <1>6, <2>1, <3>1, ClosedIs
  <2> QED BY <2>2, <2>3
<1>8. Parted(s, v, p)
  BY <1>2, <1>6, <1>7 DEF Parted
<1>9. Extended(s, v, p)
  <2>1. x \in TaskSet /\ x.what = "release" /\ x.protocol = p
    BY <1>3, TasksAre, SMTT(30) DEF Ids
  <2>2. s.later \in Seq(TaskSet)
    BY <1>1, WorldIs
  <2> HIDE DEF p, x
  <2>3. CASE v.later = s.later /\ State(v, p) = "deleted"
    BY <2>3 DEF Extended
  <2>4. CASE v.later = Append(s.later, x) /\ State(v, p) = "closed"
    <3> DEFINE n == Len(s.later) + 1
    <3>1. /\ DOMAIN v.later = DOMAIN s.later \cup {n} /\ v.later[n] = x
          /\ \A i \in DOMAIN s.later : v.later[i] = s.later[i] /\ i # n
      BY <2>1, <2>2, <2>4, QueuedLast
    <3> HIDE DEF n
    <3> QED BY <2>1, <2>4, <3>1 DEF Extended
  <2> QED BY <1>7, <2>3, <2>4
<1>10. /\ Shifted(s, v) /\ s.tasks[1].protocol = p /\ s.tasks[1].what \in {"close", "release"}
  BY <1>1, <1>7, DroppedIs DEF Shifted, w
<1>11. /\ \A i \in DOMAIN v.tasks : v.tasks[i].protocol = p =>
            v.tasks[i].what = "connect" /\ s.protocol[p].refs = 1
       /\ \A i \in DOMAIN s.later : s.later[i].protocol = p =>
            s.later[i].what = "connect" /\ s.protocol[p].refs = 1
  BY <1>1, <1>7, ConnectRemains DEF w
<1>12. Released(s, v, p)
  <2> HIDE DEF p, x
  <2> QED BY <1>7, <1>8, <1>9, <1>10, <1>11 DEF Released
<1>13. Core(v)
  BY <1>1, <1>3, <1>7, <1>12, ReleasedCore
<1>14. Schedules(v)
  BY <1>1, <1>12, ReleasedSchedules
<1> QED BY <1>7, <1>13, <1>14 DEF Good, v, w

-----------------------------------------------------------------------------
(* The network and the scheduler *)

LEMMA PacketGood ==
  ASSUME NEW w, Good(w), NEW v \in Worlds, NEW t \in TaskSet,
         v.game = w.game, v.later = w.later, v.tasks = Append(w.tasks, t),
         \A q \in Protocols : /\ q # t.protocol => State(v, q) = State(w, q)
                              /\ v.protocol[q].player = w.protocol[q].player
                              /\ v.protocol[q].refs = w.protocol[q].refs,
         State(v, t.protocol) = "open",
         \/ t.what = "logout" /\ State(w, t.protocol) = "open"
         \/ t.what = "login" /\ t.char \in Chars /\ State(w, t.protocol) = "unused"
  PROVE  Good(v)
<1> DEFINE p == t.protocol
           n == Len(w.tasks) + 1
<1>1. w \in Worlds /\ Core(w) /\ Schedules(w)
  BY DEF Good
<1>2. p \in Protocols
  BY DEF TaskSet
<1>3. w.tasks \in Seq(TaskSet)
  BY <1>1, WorldIs
<1>4. /\ DOMAIN v.tasks = DOMAIN w.tasks \cup {n} /\ v.tasks[n] = t
      /\ \A i \in DOMAIN w.tasks : v.tasks[i] = w.tasks[i] /\ i \in Nat /\ i < n
      /\ n \in Nat
  BY <1>3, QueuedLast
<1>5. /\ \A i \in DOMAIN w.tasks : w.tasks[i].protocol \in Protocols
      /\ \A i \in DOMAIN w.later : w.later[i].protocol \in Protocols
      /\ \A c \in Chars : w.game[c].client \in Protocols \cup {None}
  BY <1>1, WorldIs
<1>6. State(w, p) \in {"open", "unused"} /\ State(v, p) = "open"
      /\ t.what \in {"login", "logout"}
  OBVIOUS
<1>7. \A q \in Protocols : /\ q # p => State(v, q) = State(w, q)
                           /\ v.protocol[q].player = w.protocol[q].player
                           /\ v.protocol[q].refs = w.protocol[q].refs
  OBVIOUS
<1>8. t.what = "login" =>
        /\ State(w, p) = "unused" /\ t.char \in Chars /\ w.protocol[p].refs = 0
        /\ \A i \in DOMAIN w.tasks : w.tasks[i].protocol # p
        /\ \A i \in DOMAIN w.later : w.later[i].protocol # p
        /\ \A c \in Chars : w.game[c].client # p
  BY <1>1, <1>2, LoginAssumption DEF Core, OnLive, Clients
<1> HIDE DEF p, n
<1>9. OnLive(v)
  BY <1>1, <1>2, <1>4, <1>5, <1>6, <1>7, <1>8 DEF Core, OnLive, p
<1>10. Closings(v)
  BY <1>1, <1>2, <1>4, <1>5, <1>6, <1>7 DEF Core, Closings, p
<1>11. Releases(v)
  BY <1>1, <1>2, <1>4, <1>5, <1>6, <1>7 DEF Core, Releases, p
<1>12. Arrivals(v)
  <2>1. \A y : y.protocol \in Protocols /\ ToArrive(w, y) => ToArrive(v, y)
    BY <1>7 DEF ToArrive
  <2>2. t.what = "login" => ToArrive(v, t)
    BY <1>2, <1>7, <1>8 DEF ToArrive, Arrives, p
  <2>3. \A q \in Protocols : v.protocol[q].refs \in 0..1
    BY <1>1, <1>7 DEF Core, Arrivals
  <2>4. Arrives(t) => t.what = "login"
    BY <1>6 DEF Arrives
  <2>5. t.protocol = p /\ v.later = w.later
    BY DEF p
  <2>6. \A k \in DOMAIN w.tasks : Arrives(w.tasks[k]) =>
          /\ ToArrive(w, w.tasks[k])
          /\ \A j \in DOMAIN w.tasks :
               Arrives(w.tasks[j]) /\ w.tasks[j].protocol = w.tasks[k].protocol => j = k
          /\ \A j \in DOMAIN w.later :
               Arrives(w.later[j]) => w.later[j].protocol # w.tasks[k].protocol
    BY <1>1 DEF Core, Arrivals
  <2>7. \A k \in DOMAIN w.later : Arrives(w.later[k]) =>
          /\ ToArrive(w, w.later[k])
          /\ \A j \in DOMAIN w.later :
               Arrives(w.later[j]) /\ w.later[j].protocol = w.later[k].protocol => j = k
    BY <1>1 DEF Core, Arrivals
  <2> QED BY <1>4, <1>5, <1>8, <2>1, <2>2, <2>3, <2>4, <2>5, <2>6, <2>7 DEF Arrivals
<1>13. Clients(v)
  BY <1>1, <1>2, <1>5, <1>6, <1>7 DEF Core, Clients
<1>14. Schedules(v)
  BY <1>1, <1>4 DEF Schedules, Scheduled
<1> QED BY <1>9, <1>10, <1>11, <1>12, <1>13, <1>14 DEF Good, Core

\* v is w with the event n due.
Moved(w, v, n) ==
  LET m == Len(w.tasks) + 1 IN
  /\ v.game = w.game /\ v.protocol = w.protocol
  /\ n \in DOMAIN w.later /\ n \in Nat /\ (w.later[n].what = "release" \/ n = 1)
  /\ m \in Nat /\ DOMAIN v.tasks = DOMAIN w.tasks \cup {m} /\ v.tasks[m] = w.later[n]
  /\ \A i \in DOMAIN w.tasks : v.tasks[i] = w.tasks[i] /\ i \in Nat /\ i < m
  /\ \A i \in DOMAIN v.later :
       /\ i \in Nat
       /\ i < n => i \in DOMAIN w.later /\ v.later[i] = w.later[i]
       /\ i >= n => i + 1 \in DOMAIN w.later /\ v.later[i] = w.later[i + 1]
  /\ \A j \in DOMAIN w.later :
       /\ j \in Nat /\ j >= 1
       /\ j < n => j \in DOMAIN v.later /\ v.later[j] = w.later[j]
       /\ j > n => j - 1 \in DOMAIN v.later /\ v.later[j - 1] = w.later[j]

LEMMA MovedCore ==
  ASSUME NEW w \in Worlds, NEW v \in Worlds, NEW n, Core(w), Moved(w, v, n)
  PROVE  Core(v)
<1> DEFINE m == Len(w.tasks) + 1
           t == w.later[n]
<1>1. \A q \in Protocols : State(v, q) = State(w, q)
  BY DEF State, Moved
<1>2. /\ n \in DOMAIN w.later /\ n \in Nat /\ v.game = w.game /\ v.protocol = w.protocol
      /\ m \in Nat /\ DOMAIN v.tasks = DOMAIN w.tasks \cup {m} /\ v.tasks[m] = t
      /\ \A i \in DOMAIN w.tasks : v.tasks[i] = w.tasks[i] /\ i \in Nat /\ i < m
  BY DEF Moved
<1>3. \A i \in DOMAIN v.later : \E j \in DOMAIN w.later : j # n /\ v.later[i] = w.later[j]
  BY DEF Moved
<1>4. \A i \in DOMAIN v.later, k \in DOMAIN v.later :
        i # k => \E j \in DOMAIN w.later, l \in DOMAIN w.later :
                   /\ j # n /\ l # n /\ j # l
                   /\ v.later[i] = w.later[j] /\ v.later[k] = w.later[l]
  <2> TAKE i \in DOMAIN v.later, k \in DOMAIN v.later
  <2> DEFINE j(x) == IF x < n THEN x ELSE x + 1
  <2>1. \A x \in DOMAIN v.later : x \in Nat /\ j(x) \in DOMAIN w.later /\ v.later[x] = w.later[j(x)]
    BY DEF Moved
  <2>2. j(i) # n /\ j(k) # n /\ (i # k => j(i) # j(k))
    BY <1>2, <2>1
  <2> HIDE DEF j
  <2> QED BY <2>1, <2>2
<1>5. \A j \in DOMAIN w.later : j # n => \E i \in DOMAIN v.later : v.later[i] = w.later[j]
  <2> TAKE j \in DOMAIN w.later
  <2>1. CASE j < n
    BY <2>1 DEF Moved
  <2>2. CASE j > n
    BY <2>2 DEF Moved
  <2>3. j \in Nat
    BY DEF Moved
  <2> QED BY <1>2, <2>1, <2>2, <2>3
<1>6. /\ \A i \in DOMAIN w.tasks : w.tasks[i].protocol \in Protocols
      /\ \A i \in DOMAIN w.later : w.later[i].protocol \in Protocols
      /\ \A c \in Chars : w.game[c].client \in Protocols \cup {None}
  BY WorldIs
<1>7. t.what \in {"release", "connect"} /\ t.protocol \in Protocols
  BY <1>2, <1>6 DEF Core, OnLive
<1> HIDE DEF m, t
<1>8. OnLive(v)
  BY <1>1, <1>2, <1>3, <1>6, <1>7 DEF Core, OnLive, t
<1>9. Closings(v)
  BY <1>1, <1>2, <1>6, <1>7 DEF Core, Closings
<1>10. Releases(v)
  <2>1. \A q \in Protocols : State(v, q) = "closed" =>
          \/ \E k \in DOMAIN v.tasks : v.tasks[k].what = "release" /\ v.tasks[k].protocol = q
          \/ \E k \in DOMAIN v.later : v.later[k].what = "release" /\ v.later[k].protocol = q
    BY <1>1, <1>2, <1>5 DEF Core, Releases, t
  <2>2. \A k \in DOMAIN v.tasks : State(v, v.tasks[k].protocol) = "closed" =>
          v.tasks[k].what \in {"release", "connect"}
    BY <1>1, <1>2, <1>6, <1>7 DEF Core, Releases
  <2>3. \A k \in DOMAIN v.tasks : v.tasks[k].what = "release" =>
          /\ State(v, v.tasks[k].protocol) = "closed"
          /\ \A j \in DOMAIN v.tasks :
               v.tasks[j].what = "release" /\ v.tasks[j].protocol = v.tasks[k].protocol => j = k
          /\ \A j \in DOMAIN v.later :
               v.later[j].what = "release" => v.later[j].protocol # v.tasks[k].protocol
    BY <1>1, <1>2, <1>3, <1>6, <1>7 DEF Core, Releases, t
  <2>4. \A k \in DOMAIN v.later : v.later[k].what = "release" =>
          /\ State(v, v.later[k].protocol) = "closed"
          /\ \A j \in DOMAIN v.later :
               v.later[j].what = "release" /\ v.later[j].protocol = v.later[k].protocol => j = k
    BY <1>1, <1>3, <1>4, <1>6 DEF Core, Releases
  <2> QED BY <2>1, <2>2, <2>3, <2>4 DEF Releases
<1>11. Arrivals(v)
  <2>1. \A y : ToArrive(w, y) => ToArrive(v, y)
    BY <1>2 DEF ToArrive
  <2>2. \A q \in Protocols : v.protocol[q].refs \in 0..1
    BY <1>2 DEF Core, Arrivals
  <2>3. \A k \in DOMAIN v.tasks : Arrives(v.tasks[k]) =>
          /\ ToArrive(v, v.tasks[k])
          /\ \A j \in DOMAIN v.tasks :
               Arrives(v.tasks[j]) /\ v.tasks[j].protocol = v.tasks[k].protocol => j = k
          /\ \A j \in DOMAIN v.later :
               Arrives(v.later[j]) => v.later[j].protocol # v.tasks[k].protocol
    BY <1>2, <1>3, <2>1 DEF Core, Arrivals, t
  <2>4. \A k \in DOMAIN v.later : Arrives(v.later[k]) =>
          /\ ToArrive(v, v.later[k])
          /\ \A j \in DOMAIN v.later :
               Arrives(v.later[j]) /\ v.later[j].protocol = v.later[k].protocol => j = k
    BY <1>3, <1>4, <2>1 DEF Core, Arrivals
  <2> QED BY <2>2, <2>3, <2>4 DEF Arrivals
<1>12. Clients(v)
  BY <1>1, <1>2, <1>6 DEF Core, Clients
<1> QED BY <1>8, <1>9, <1>10, <1>11, <1>12 DEF Core

LEMMA MovedSchedules ==
  ASSUME NEW w, NEW v, NEW n, Schedules(w), Moved(w, v, n)
  PROVE  Schedules(v)
<1> DEFINE m == Len(w.tasks) + 1
<1>1. SUFFICES ASSUME NEW c \in Chars, v.game[c].isConnecting PROVE Scheduled(v, c)
  BY DEF Schedules
<1> DEFINE q == w.game[c].client
           id == w.game[c].id
<1>2. v.game = w.game /\ Scheduled(w, c)
  BY <1>1 DEF Moved, Schedules
<1>3. CASE \E j \in DOMAIN w.tasks :
             /\ Connects(w.tasks[j], c, id)
             /\ q # None => \E i \in DOMAIN w.tasks : i < j /\ Ends(w.tasks[i], q)
  BY <1>2, <1>3 DEF Scheduled, Moved
<1>4. CASE \E j \in DOMAIN w.later :
             /\ Connects(w.later[j], c, id)
             /\ q # None => \/ \E i \in DOMAIN w.tasks : Ends(w.tasks[i], q)
                            \/ \E i \in DOMAIN w.later : i < j /\ Ends(w.later[i], q)
  <2>1. PICK j \in DOMAIN w.later :
          /\ Connects(w.later[j], c, id)
          /\ q # None => \/ \E i \in DOMAIN w.tasks : Ends(w.tasks[i], q)
                         \/ \E i \in DOMAIN w.later : i < j /\ Ends(w.later[i], q)
    BY <1>4
  <2>2. CASE j = n
    <3>1. n = 1
      BY <2>1, <2>2 DEF Moved, Connects
    <3>2. q # None => \E i \in DOMAIN w.tasks : Ends(w.tasks[i], q)
      BY <2>1, <2>2, <3>1 DEF Moved
    <3>3. m \in DOMAIN v.tasks /\ v.tasks[m] = w.later[n]
      BY DEF Moved
    <3>4. q # None => \E i \in DOMAIN v.tasks : i < m /\ Ends(v.tasks[i], q)
      BY <3>2 DEF Moved
    <3> HIDE DEF m
    <3> QED BY <1>2, <2>1, <2>2, <3>3, <3>4 DEF Scheduled
  <2>3. CASE j # n
    <3> DEFINE k == IF j < n THEN j ELSE j - 1
    <3>1. k \in DOMAIN v.later /\ v.later[k] = w.later[j]
      BY <2>3 DEF Moved
    <3>2. ASSUME q # None
          PROVE  \/ \E i \in DOMAIN v.tasks : Ends(v.tasks[i], q)
                 \/ \E i \in DOMAIN v.later : i < k /\ Ends(v.later[i], q)
      <4>1. CASE \E i \in DOMAIN w.tasks : Ends(w.tasks[i], q)
        BY <4>1 DEF Moved
      <4>2. ASSUME NEW i \in DOMAIN w.later, i < j, Ends(w.later[i], q)
            PROVE  \/ \E l \in DOMAIN v.tasks : Ends(v.tasks[l], q)
                   \/ \E l \in DOMAIN v.later : l < k /\ Ends(v.later[l], q)
        <5>1. CASE i = n
          BY <4>2, <5>1 DEF Moved
        <5>2. CASE i # n
          <6> DEFINE l == IF i < n THEN i ELSE i - 1
          <6>1. l \in DOMAIN v.later /\ v.later[l] = w.later[i]
            BY <5>2 DEF Moved
          <6>2. l < k
            BY <2>3, <4>2, <5>2 DEF Moved
          <6> QED BY <4>2, <6>1, <6>2
        <5> QED BY <5>1, <5>2
      <4> QED BY <2>1, <3>2, <4>1, <4>2
    <3> HIDE DEF k
    <3> QED BY <1>2, <2>1, <3>1, <3>2 DEF Scheduled
  <2> QED BY <2>2, <2>3
<1> QED BY <1>2, <1>3, <1>4 DEF Scheduled

LEMMA DueGood ==
  ASSUME NEW w, Good(w), NEW v \in Worlds, NEW n \in DOMAIN w.later,
         v.game = w.game, v.protocol = w.protocol,
         w.later[n].what = "release" \/ n = 1,
         v.later = RemoveAt(w.later, n), v.tasks = Append(w.tasks, w.later[n])
  PROVE  Good(v)
<1>1. w \in Worlds /\ Core(w) /\ Schedules(w)
  BY DEF Good
<1>2. w.tasks \in Seq(TaskSet) /\ w.later \in Seq(TaskSet)
  BY <1>1, WorldIs
<1> DEFINE t == w.later[n]
<1>3. t \in TaskSet /\ n \in Nat
  BY <1>2, Removed
<1> HIDE DEF t
<1>4. \A j \in DOMAIN w.later : j \in Nat /\ j >= 1
  BY <1>2
<1> DEFINE m == Len(w.tasks) + 1
<1>5. /\ DOMAIN v.tasks = DOMAIN w.tasks \cup {m} /\ v.tasks[m] = t
      /\ \A i \in DOMAIN w.tasks : v.tasks[i] = w.tasks[i] /\ i \in Nat /\ i < m
      /\ m \in Nat
  <2>1. v.tasks = Append(w.tasks, t)
    BY DEF t
  <2> QED BY <1>2, <1>3, <2>1, QueuedLast
<1>6. /\ \A i \in DOMAIN v.later :
           /\ i \in Nat
           /\ i < n => i \in DOMAIN w.later /\ v.later[i] = w.later[i]
           /\ i >= n => i + 1 \in DOMAIN w.later /\ v.later[i] = w.later[i + 1]
      /\ \A j \in DOMAIN w.later :
           /\ j < n => j \in DOMAIN v.later /\ v.later[j] = w.later[j]
           /\ j > n => j - 1 \in DOMAIN v.later /\ v.later[j - 1] = w.later[j]
  <2> DEFINE s == w.later
             r == v.later
  <2>1. s \in Seq(TaskSet) /\ n \in DOMAIN s /\ r = RemoveAt(s, n)
    BY <1>2
  <2> HIDE DEF s, r
  <2>2. /\ \A i \in DOMAIN r :
             /\ i \in Nat
             /\ i < n => i \in DOMAIN s /\ r[i] = s[i]
             /\ i >= n => i + 1 \in DOMAIN s /\ r[i] = s[i + 1]
        /\ \A j \in DOMAIN s :
             /\ j < n => j \in DOMAIN r /\ r[j] = s[j]
             /\ j > n => j - 1 \in DOMAIN r /\ r[j - 1] = s[j]
    BY <2>1, Removed
  <2> QED BY <2>2 DEF s, r
<1>7. Moved(w, v, n)
  <2> HIDE DEF m
  <2> QED BY <1>3, <1>4, <1>5, <1>6 DEF Moved, t, m
<1>8. Core(v)
  BY <1>1, <1>7, MovedCore
<1>9. Schedules(v)
  BY <1>1, <1>7, MovedSchedules
<1> QED BY <1>8, <1>9 DEF Good

-----------------------------------------------------------------------------
(* The tasks *)

LEMMA Becoming ==
  ASSUME NEW v, Good(v), Become(v)
  PROVE  Good(World)'
<1>1. v \in Worlds
  BY DEF Good
<1>2. v = [game |-> v.game, protocol |-> v.protocol, tasks |-> v.tasks, later |-> v.later]
  BY <1>1 DEF Worlds
<1>3. World' = v
  BY <1>2 DEF World, Become
<1> QED BY <1>3

LEMMA WorldFields ==
  /\ World.game = game /\ World.protocol = protocol
  /\ World.tasks = tasks /\ World.later = later
  /\ TaskTaken = Dropped(World)
BY DEF World, TaskTaken, Dropped

\* The first task is a login: its protocol has arrived.
LEMMA LoginTaken ==
  ASSUME Good(World), Next1("login")
  PROVE  /\ Good(TaskTaken) /\ Arrived(TaskTaken, Head(tasks).protocol, 0)
         /\ Head(tasks).protocol \in Protocols /\ Head(tasks).char \in Chars
         /\ TaskTaken.game = game
<1> DEFINE s == World
<1>1. s \in Worlds /\ Core(s) /\ Schedules(s)
  BY DEF Good
<1>2. s.tasks = tasks /\ s.game = game /\ TaskTaken = Dropped(s)
  BY WorldFields
<1> HIDE DEF s
<1>3. s.tasks # <<>> /\ Head(s.tasks).what = "login"
  BY <1>2 DEF Next1
<1>4. Arrives(Head(s.tasks)) /\ Head(s.tasks).what \in {"login", "logout", "connect"}
  BY <1>3 DEF Arrives
<1>5. /\ Dropped(s) \in Worlds /\ Dropped(s).game = s.game /\ Head(s.tasks) \in TaskSet
  BY <1>1, <1>3, DroppedIs
<1>6. Core(Dropped(s))
  BY <1>1, <1>3, <1>4, DroppedCore
<1>7. Arrived(Dropped(s), Head(s.tasks).protocol, 0) /\ Head(s.tasks).char \in Chars
  BY <1>1, <1>3, <1>4, DroppedArrives
<1>8. Schedules(Dropped(s))
  BY <1>1, <1>3, <1>4, DroppedSchedules DEF Schedules, Expected
<1>9. Head(s.tasks).protocol \in Protocols
  BY <1>5 DEF TaskSet
<1> QED BY <1>2, <1>5, <1>6, <1>7, <1>8, <1>9 DEF Good

LEMMA LoginNewGood ==
  ASSUME Good(World), LoginNew
  PROVE  Good(World)'
<1> DEFINE p == Head(tasks).protocol
           c == Head(tasks).char
           w == TaskTaken
           u == [w EXCEPT !.protocol[p].player = p]
           seat == [id |-> p, client |-> p, isConnecting |-> FALSE]
           v == [u EXCEPT !.game[c] = seat]
<1>1. Next1("login") /\ (Become(Close(u, p)) \/ Become(v))
  BY DEF LoginNew
<1>2. /\ w \in Worlds /\ Core(w) /\ Schedules(w) /\ Arrived(w, p, 0)
      /\ p \in Protocols /\ c \in Chars
  BY <1>1, LoginTaken DEF Good
<1> HIDE DEF p, c, w
<1>3. p \in Ids /\ 0 \in 0..1 /\ p # None
  BY <1>2, LoginAssumption DEF Ids
<1>4. u = PlayerWorld(w, p, p)
  BY DEF PlayerWorld
<1> HIDE DEF u
<1>5. /\ u \in Worlds /\ u.game = w.game /\ u.tasks = w.tasks /\ u.later = w.later
      /\ u.protocol[p].player = p /\ Core(u) /\ Arrived(u, p, 0)
  BY <1>2, <1>3, <1>4, PlayerCore
<1>6. Schedules(u)
  BY <1>2, <1>5 DEF Schedules, Scheduled
<1>7. Good(Close(u, p))
  BY <1>3, <1>5, <1>6, CloseGood DEF Good
<1>8. /\ seat \in Seats /\ seat.id = p /\ seat.client = p /\ ~seat.isConnecting
  BY <1>3 DEF Seats
<1> HIDE DEF seat
<1>9. /\ v \in Worlds /\ v.protocol = u.protocol /\ v.tasks = u.tasks /\ v.later = u.later
      /\ \A d \in Chars : v.game[d] = IF d = c THEN seat ELSE u.game[d]
  BY <1>2, <1>5, <1>8, SeatSet
<1> HIDE DEF v
<1>10. Seated(u, v, p, c)
  BY <1>2, <1>3, <1>5, <1>8, <1>9 DEF Seated, State
<1>11. Good(v)
  BY <1>2, <1>5, <1>6, <1>9, <1>10, SeatedGood DEF Schedules
<1> QED BY <1>1, <1>7, <1>11, Becoming DEF p, u, v

LEMMA LoginAgainGood ==
  ASSUME Good(World), LoginAgain
  PROVE  Good(World)'
<1> DEFINE p == Head(tasks).protocol
           c == Head(tasks).char
           w == TaskTaken
           u == Held(w, p)
           id == game[c].id
<1>1. /\ Next1("login") /\ InGame(c)
      /\ Become(IF game[c].client # None THEN TakeOver(w, p, c) ELSE Connect(u, p, c, id))
  BY DEF LoginAgain
<1>2. /\ Good(w) /\ Arrived(w, p, 0) /\ p \in Protocols /\ c \in Chars /\ w.game = game
  BY <1>1, LoginTaken
<1> HIDE DEF p, c, w
<1>3. CASE game[c].client # None
  <2>1. Good(TakeOver(w, p, c))
    BY <1>2, <1>3, TakeOverGood
  <2> QED BY <1>1, <1>3, <2>1, Becoming
<1>4. CASE game[c].client = None
  <2>1. w \in Worlds /\ Core(w) /\ Schedules(w)
    BY <1>2 DEF Good
  <2>2. id \in Protocols
    BY <1>1, <1>2, <2>1, WorldIs DEF InGame
  <2> HIDE DEF u, id
  <2>3. /\ u \in Worlds /\ u.game = w.game /\ Core(u) /\ Arrived(u, p, 1)
        /\ \A d \in Chars : Scheduled(w, d) => Scheduled(u, d)
    BY <1>2, <2>1, HeldIs DEF u
  <2>4. \A d \in Chars : u.game[d].isConnecting
          => Scheduled(u, d) \/ (d = c /\ u.game[c].id = id /\ u.game[c].client = None)
    BY <2>1, <2>3 DEF Schedules
  <2>5. Good(Connect(u, p, c, id))
    BY <1>2, <2>2, <2>3, <2>4, ConnectGood
  <2> QED BY <1>1, <1>4, <2>5, Becoming DEF u, id
<1> QED BY <1>3, <1>4

LEMMA DelayedConnectGood ==
  ASSUME Good(World), DelayedConnect
  PROVE  Good(World)'
<1> DEFINE s == World
           t == Head(tasks)
           w == Dropped(s)
<1>1. s \in Worlds /\ Core(s) /\ Schedules(s)
  BY DEF Good
<1>2. /\ s.tasks = tasks /\ Next1("connect")
      /\ Become(Connect(w, t.protocol, t.char, t.id))
  BY WorldFields DEF DelayedConnect
<1> HIDE DEF s
<1>3. s.tasks # <<>> /\ t = Head(s.tasks) /\ t.what = "connect"
  BY <1>2 DEF Next1
<1> HIDE DEF t
<1>4. Arrives(t) /\ t.what \in {"login", "logout", "connect"}
  BY <1>3 DEF Arrives
<1>5. w \in Worlds /\ t \in TaskSet
  BY <1>1, <1>3, DroppedIs
<1>6. Core(w)
  BY <1>1, <1>3, <1>4, DroppedCore
<1>7. Arrived(w, t.protocol, 1) /\ t.char \in Chars /\ t.id # None
  BY <1>1, <1>3, <1>4, DroppedArrives
<1>8. t.protocol \in Protocols /\ t.id \in Protocols
  BY <1>5, <1>7 DEF TaskSet, Ids
<1>9. \A d \in Chars : w.game[d].isConnecting => Scheduled(w, d) \/ Expected(w, t, d)
  BY <1>1, <1>3, <1>4, DroppedSchedules
<1> HIDE DEF w
<1>10. \A d \in Chars : w.game[d].isConnecting
         => Scheduled(w, d)
            \/ (d = t.char /\ w.game[t.char].id = t.id /\ w.game[t.char].client = None)
  BY <1>9 DEF Expected
<1>11. Good(Connect(w, t.protocol, t.char, t.id))
  BY <1>5, <1>6, <1>7, <1>8, <1>10, ConnectGood DEF w
<1> QED BY <1>2, <1>11, Becoming

LEMMA CloseOrReleaseGood ==
  ASSUME Good(World), CloseOrRelease
  PROVE  Good(World)'
<1> DEFINE s == World
           t == Head(tasks)
<1>1. s.tasks = tasks /\ Become(Release(Dropped(s), t.protocol))
  BY WorldFields DEF CloseOrRelease
<1>2. s.tasks # <<>> /\ t = Head(s.tasks) /\ t.what \in {"close", "release"}
  BY WorldFields DEF CloseOrRelease, Next1
<1> HIDE DEF s, t
<1>3. Good(Release(Dropped(s), t.protocol))
  BY <1>2, ReleaseGood DEF s
<1> QED BY <1>1, <1>3, Becoming

LEMMA LogoutGood ==
  ASSUME Good(World), Logout
  PROVE  Good(World)'
<1> DEFINE s == World
           w == TaskTaken
           p == Head(tasks).protocol
<1>1. s.tasks = tasks /\ w = Dropped(s) /\ Next1("logout")
  BY WorldFields DEF Logout
<1>2. \/ Become(w)
      \/ \E c \in Chars : Become(Left(w, p, c))
      \/ Become(Close(w, p))
  BY DEF Logout
<1>3. s \in Worlds /\ Core(s) /\ Schedules(s)
  BY DEF Good
<1> HIDE DEF s, w
<1>4. s.tasks # <<>> /\ Head(s.tasks).what = "logout"
  BY <1>1 DEF Next1
<1>5. w \in Worlds /\ Head(s.tasks) \in TaskSet
  BY <1>1, <1>3, <1>4, DroppedIs
<1>6. Core(w)
  BY <1>1, <1>3, <1>4, DroppedCore
<1>7. Schedules(w)
  BY <1>1, <1>3, <1>4, DroppedSchedules DEF Schedules, Expected
<1>8. p \in Ids
  BY <1>1, <1>5 DEF TaskSet, Ids
<1> HIDE DEF p
<1>9. Good(w)
  BY <1>5, <1>6, <1>7 DEF Good
<1>10. Good(Close(w, p)) /\ \A c \in Chars : Good(Left(w, p, c))
  BY <1>8, <1>9, CloseGood, LeftGood
<1> QED BY <1>2, <1>9, <1>10, Becoming

LEMMA NetworkGood ==
  ASSUME Good(World), NEW p \in Protocols,
         LogoutPacket(p) \/ Lost(p) \/ \E c \in Chars : FirstPacket(p, c)
  PROVE  Good(World)'
<1> DEFINE w == World
           v == [game |-> game', protocol |-> protocol', tasks |-> tasks', later |-> later']
<1>1. /\ w.game = game /\ w.protocol = protocol /\ w.tasks = tasks /\ w.later = later
      /\ v = World' /\ w \in Worlds
  BY WorldFields DEF Good, World
<1>2. /\ game \in [Chars -> Seats] /\ protocol \in [Protocols -> Records]
      /\ tasks \in Seq(TaskSet) /\ later \in Seq(TaskSet)
  BY <1>1, WorldIs
<1>3. v.game = game' /\ v.protocol = protocol' /\ v.tasks = tasks' /\ v.later = later'
  OBVIOUS
<1>4. CASE LogoutPacket(p)
  <2> DEFINE t == Task("logout", p, None, None)
  <2>1. t \in TaskSet /\ t.what = "logout" /\ t.protocol = p
    BY TasksAre DEF Ids
  <2>2. /\ game' = game /\ protocol' = protocol /\ later' = later
        /\ tasks' = Append(tasks, t) /\ protocol[p].state = "open"
    BY <1>4 DEF LogoutPacket
  <2> HIDE DEF t
  <2>3. tasks' \in Seq(TaskSet)
    BY <1>2, <2>1, <2>2, QueuedLast
  <2>4. v \in Worlds
    BY <1>2, <2>2, <2>3 DEF Worlds
  <2> HIDE DEF v, w
  <2>5. Good(w) /\ v.game = w.game /\ v.later = w.later /\ v.tasks = Append(w.tasks, t)
    BY <1>1, <1>3, <2>2 DEF w
  <2>6. \A q \in Protocols : /\ q # t.protocol => State(v, q) = State(w, q)
                             /\ v.protocol[q].player = w.protocol[q].player
                             /\ v.protocol[q].refs = w.protocol[q].refs
    BY <1>1, <1>3, <2>2 DEF State
  <2>7. State(v, t.protocol) = "open" /\ State(w, t.protocol) = "open"
    BY <1>1, <1>3, <2>1, <2>2 DEF State
  <2>8. Good(v)
    BY <2>1, <2>4, <2>5, <2>6, <2>7, PacketGood
  <2> QED BY <1>1, <2>8
<1>5. CASE Lost(p)
  <2>1. Good(Close(World, p)) /\ Become(Close(World, p))
    BY <1>5, CloseGood DEF Lost, Ids
  <2> QED BY <2>1, Becoming
<1>6. ASSUME NEW c \in Chars, FirstPacket(p, c)
      PROVE  Good(World)'
  <2> DEFINE t == Task("login", p, c, None)
             f == [protocol EXCEPT ![p].state = "open"]
  <2>1. t \in TaskSet /\ t.what = "login" /\ t.protocol = p /\ t.char = c
    BY TasksAre DEF Ids
  <2>2. /\ game' = game /\ protocol' = f /\ later' = later
        /\ tasks' = Append(tasks, t) /\ protocol[p].state = "unused"
    BY <1>6 DEF FirstPacket
  <2>3. /\ f \in [Protocols -> Records]
        /\ \A q \in Protocols : /\ f[q].state = IF q = p THEN "open" ELSE protocol[q].state
                                /\ f[q].player = protocol[q].player
                                /\ f[q].refs = protocol[q].refs
    BY <1>2, StateSet DEF ProtocolStates
  <2> HIDE DEF t, f
  <2>4. tasks' \in Seq(TaskSet)
    BY <1>2, <2>1, <2>2, QueuedLast
  <2>5. v \in Worlds
    BY <1>2, <2>2, <2>3, <2>4 DEF Worlds
  <2> HIDE DEF v, w
  <2>6. Good(w) /\ v.game = w.game /\ v.later = w.later /\ v.tasks = Append(w.tasks, t)
    BY <1>1, <1>3, <2>2 DEF w
  <2>7. \A q \in Protocols : /\ q # t.protocol => State(v, q) = State(w, q)
                             /\ v.protocol[q].player = w.protocol[q].player
                             /\ v.protocol[q].refs = w.protocol[q].refs
    BY <1>1, <1>3, <2>1, <2>2, <2>3 DEF State
  <2>8. State(v, t.protocol) = "open" /\ State(w, t.protocol) = "unused"
    BY <1>1, <1>3, <2>1, <2>2, <2>3 DEF State
  <2>9. Good(v)
    BY <2>1, <2>5, <2>6, <2>7, <2>8, PacketGood
  <2> QED BY <1>1, <2>9
<1> QED BY <1>4, <1>5, <1>6

LEMMA ComingDueGood ==
  ASSUME Good(World), Due
  PROVE  Good(World)'
<1> DEFINE w == World
           v == [game |-> game', protocol |-> protocol', tasks |-> tasks', later |-> later']
<1>1. /\ w.game = game /\ w.protocol = protocol /\ w.tasks = tasks /\ w.later = later
      /\ v = World' /\ w \in Worlds
  BY WorldFields DEF Good, World
<1>2. /\ game \in [Chars -> Seats] /\ protocol \in [Protocols -> Records]
      /\ tasks \in Seq(TaskSet) /\ later \in Seq(TaskSet)
  BY <1>1, WorldIs
<1>3. v.game = game' /\ v.protocol = protocol' /\ v.tasks = tasks' /\ v.later = later'
  OBVIOUS
<1>4. PICK n \in DOMAIN later : /\ later[n].what = "release" \/ n = 1
                                /\ later' = RemoveAt(later, n)
                                /\ tasks' = Append(tasks, later[n])
  BY DEF Due
<1>5. game' = game /\ protocol' = protocol
  BY DEF Due
<1>6. later[n] \in TaskSet /\ RemoveAt(later, n) \in Seq(TaskSet)
  BY <1>2, Removed
<1>7. Append(tasks, later[n]) \in Seq(TaskSet)
  BY <1>2, <1>6, QueuedLast
<1>8. tasks' \in Seq(TaskSet) /\ later' \in Seq(TaskSet)
  BY <1>4, <1>6, <1>7
<1>9. v \in Worlds
  BY <1>2, <1>5, <1>8 DEF Worlds
<1> HIDE DEF w, v
<1>10. Good(v)
  <2>1. /\ v.game = w.game /\ v.protocol = w.protocol /\ n \in DOMAIN w.later
        /\ w.later[n].what = "release" \/ n = 1
        /\ v.later = RemoveAt(w.later, n) /\ v.tasks = Append(w.tasks, w.later[n])
    BY <1>1, <1>3, <1>4, <1>5
  <2>2. Good(w)
    BY DEF w
  <2> QED BY <1>9, <2>1, <2>2, DueGood
<1> QED BY <1>1, <1>10

-----------------------------------------------------------------------------
(* The theorems *)

LEMMA GoodInvariant == Spec => []Good(World)
<1>1. Init => Good(World)
  <2> SUFFICES ASSUME Init PROVE Good(World)
    OBVIOUS
  <2> DEFINE w == World
  <2>1. /\ game \in [Chars -> Seats] /\ protocol \in [Protocols -> Records]
        /\ tasks \in Seq(TaskSet) /\ later \in Seq(TaskSet)
    BY DEF Init, Absent, Seats, Records, ProtocolStates, Ids
  <2>2. w \in Worlds
    BY <2>1 DEF World, Worlds
  <2>3. /\ w.tasks = <<>> /\ w.later = <<>> /\ w.game = game /\ w.protocol = protocol
    BY WorldFields DEF Init
  <2>4. /\ \A p \in Protocols : State(w, p) = "unused" /\ w.protocol[p].refs = 0
        /\ \A c \in Chars : w.game[c].client = None /\ ~w.game[c].isConnecting
    BY <2>3 DEF Init, State, Absent
  <2> HIDE DEF w
  <2>5. OnLive(w) /\ Closings(w) /\ Releases(w)
    BY <2>3, <2>4 DEF OnLive, Closings, Releases
  <2>6. Arrivals(w) /\ Clients(w) /\ Schedules(w)
    BY <2>3, <2>4 DEF Arrivals, Clients, Schedules
  <2> QED BY <2>2, <2>5, <2>6 DEF Good, Core, w
<1>2. Good(World) /\ [Next]_vars => Good(World)'
  <2> SUFFICES ASSUME Good(World), [Next]_vars PROVE Good(World)'
    OBVIOUS
  <2>1. CASE RunTask
    BY <2>1, LoginNewGood, LoginAgainGood, DelayedConnectGood, CloseOrReleaseGood, LogoutGood
       DEF RunTask
  <2>2. CASE Due
    BY <2>2, ComingDueGood
  <2>3. CASE GetLate \/ UNCHANGED vars
    <3>1. World' = World
      BY <2>3 DEF GetLate, vars, World
    <3> QED BY <3>1
  <2>4. ASSUME NEW c \in Chars, Idle(c) \/ Kick(c)
        PROVE  Good(World)'
    <3>1. Become(Left(World, game[c].client, c))
      BY <2>4 DEF Idle, Kick
    <3>2. game[c].client \in Ids
      BY WorldIs, WorldFields DEF Good, Ids
    <3>3. Good(Left(World, game[c].client, c))
      BY <3>2, LeftGood
    <3> QED BY <3>1, <3>3, Becoming
  <2>5. ASSUME NEW p \in Protocols,
               LogoutPacket(p) \/ Lost(p) \/ \E c \in Chars : FirstPacket(p, c)
        PROVE  Good(World)'
    BY <2>5, NetworkGood
  <2> QED BY <2>1, <2>2, <2>3, <2>4, <2>5 DEF Next
<1> QED BY <1>1, <1>2, PTL DEF Spec

LEMMA ToSetOfBoth ==
  ASSUME NEW a \in Seq(TaskSet), NEW b \in Seq(TaskSet)
  PROVE  /\ \A t \in ToSet(a \o b) : \/ \E i \in DOMAIN a : t = a[i]
                                     \/ \E i \in DOMAIN b : t = b[i]
         /\ \A i \in DOMAIN a : a[i] \in ToSet(a \o b)
         /\ \A i \in DOMAIN b : b[i] \in ToSet(a \o b)
<1> DEFINE s == a \o b
<1>1. /\ \A i \in DOMAIN s : i \in DOMAIN a \/ i - Len(a) \in DOMAIN b
      /\ \A i \in DOMAIN a : i \in DOMAIN s /\ s[i] = a[i]
      /\ \A i \in DOMAIN b : i + Len(a) \in DOMAIN s /\ s[i + Len(a)] = b[i]
      /\ \A i \in DOMAIN s : i \notin DOMAIN a => s[i] = b[i - Len(a)]
  OBVIOUS
<1> HIDE DEF s
<1>2. \A t \in ToSet(s) : (\E i \in DOMAIN a : t = a[i]) \/ (\E i \in DOMAIN b : t = b[i])
  <2> TAKE t \in ToSet(s)
  <2>1. PICK i \in DOMAIN s : t = s[i]
    BY DEF ToSet
  <2> QED BY <1>1, <2>1
<1>3. \A i \in DOMAIN s : s[i] \in ToSet(s)
  BY DEF ToSet
<1>4. /\ \A i \in DOMAIN a : a[i] \in ToSet(s)
      /\ \A i \in DOMAIN b : b[i] \in ToSet(s)
  BY <1>1, <1>3
<1> QED BY <1>2, <1>4 DEF s

\* No task, event or player is left with a pointer to a protocol that was
\* deleted, in any order of logins, take-overs and closing connections:
\* ProtocolGame::login, connect, logout and release.
THEOREM PointersStayLive == Spec => []PointersAreLive
<1>1. Good(World) => PointersAreLive
  <2> SUFFICES ASSUME Good(World) PROVE PointersAreLive
    OBVIOUS
  <2>1. World \in Worlds /\ Core(World)
    BY DEF Good
  <2>2. ClientIsLive
    BY <2>1, WorldFields DEF ClientIsLive, Core, Clients, State
  <2>3. tasks \in Seq(TaskSet) /\ later \in Seq(TaskSet)
    BY <2>1, WorldIs, WorldFields
  <2>4. /\ \A i \in DOMAIN tasks : protocol[tasks[i].protocol].state # "deleted"
        /\ \A i \in DOMAIN later : protocol[later[i].protocol].state # "deleted"
    BY <2>1, WorldFields DEF Core, OnLive, State
  <2>5. TasksOnLiveProtocols
    BY <2>3, <2>4, ToSetOfBoth DEF TasksOnLiveProtocols
  <2> QED BY <2>2, <2>5 DEF PointersAreLive
<1> QED BY <1>1, GoodInvariant, PTL

\* A player who waits to be taken over always has a connect coming that ends it,
\* whoever logs in, out or is kicked meanwhile.
THEOREM ConnectsAreComing == Spec => []ConnectingIsScheduled
<1>1. Good(World) => ConnectingIsScheduled
  <2> SUFFICES ASSUME Good(World), NEW c \in Chars, game[c].isConnecting
               PROVE  \E t \in ToSet(later \o tasks) :
                        t.what = "connect" /\ t.char = c /\ t.id = game[c].id
    BY DEF ConnectingIsScheduled
  <2>1. World \in Worlds /\ Schedules(World)
    BY DEF Good
  <2>2. tasks \in Seq(TaskSet) /\ later \in Seq(TaskSet)
    BY <2>1, WorldIs, WorldFields
  <2>3. \/ \E i \in DOMAIN tasks : Connects(tasks[i], c, game[c].id)
        \/ \E i \in DOMAIN later : Connects(later[i], c, game[c].id)
    BY <2>1, WorldFields DEF Schedules, Scheduled
  <2> QED BY <2>2, <2>3, ToSetOfBoth DEF Connects
<1> QED BY <1>1, GoodInvariant, PTL

-----------------------------------------------------------------------------
(* The waiting list *)

LEMMA InTimeIs ==
  ASSUME NEW s \in Seq(Entries)
  PROVE  /\ InTime(s)[0] = <<>>
         /\ \A n \in 1..Len(s) :
              InTime(s)[n] = IF s[n].late THEN InTime(s)[n - 1]
                                          ELSE Append(InTime(s)[n - 1], s[n])
<1> DEFINE F(h, n) == IF n = 0 THEN <<>>
                      ELSE IF s[n].late THEN h[n - 1] ELSE Append(h[n - 1], s[n])
           Rec(h, m) == h = [n \in 0..m |-> F(h, n)]
           N == {m \in Nat : \E h : Rec(h, m)}
<1>1. InTime(s) = CHOOSE h : Rec(h, Len(s))
  BY DEF InTime
<1>2. \A h : F(h, 0) = <<>>
  OBVIOUS
<1>3. ASSUME NEW g, NEW h, NEW n \in Nat, n # 0, g[n - 1] = h[n - 1]
      PROVE  F(g, n) = F(h, n)
  BY <1>3
<1>4. \A h, n : n # 0 => F(h, n) = IF s[n].late THEN h[n - 1] ELSE Append(h[n - 1], s[n])
  OBVIOUS
<1> HIDE DEF F
<1>5. 0 \in N
  <2> DEFINE g == [n \in 0..0 |-> <<>>]
  <2>1. Rec(g, 0)
    <3>1. \A n \in 0..0 : n = 0
      OBVIOUS
    <3> QED BY <1>2, <3>1
  <2> QED BY <2>1
<1>6. ASSUME NEW m \in N PROVE m + 1 \in N
  <2>1. PICK h : Rec(h, m)
    OBVIOUS
  <2> DEFINE g == [n \in 0..(m + 1) |-> IF n <= m THEN h[n] ELSE F(h, n)]
  <2>2. ASSUME NEW n \in 0..(m + 1) PROVE g[n] = F(g, n)
    <3>1. \A k \in 0..m : h[k] = F(h, k)
      BY <2>1
    <3>2. n # 0 => n - 1 \in 0..m /\ g[n - 1] = h[n - 1]
      OBVIOUS
    <3>3. F(g, n) = F(h, n)
      <4> HIDE DEF g
      <4> QED BY <1>2, <1>3, <3>2
    <3>4. n <= m => n \in 0..m
      OBVIOUS
    <3> QED BY <3>1, <3>3, <3>4
  <2>3. Rec(g, m + 1)
    <3>1. g = [n \in 0..(m + 1) |-> g[n]]
      OBVIOUS
    <3> HIDE DEF g
    <3> QED BY <2>2, <3>1
  <2>4. m + 1 \in Nat
    OBVIOUS
  <2> HIDE DEF g, Rec
  <2> QED BY <2>3, <2>4
<1> HIDE DEF N
<1>7. N = Nat
  <2>1. N \subseteq Nat
    BY DEF N
  <2> QED BY <1>5, <1>6, <2>1, SetOfNaturals
<1>8. \E h : Rec(h, Len(s))
  <2>1. Len(s) \in N
    BY <1>7
  <2> HIDE DEF Rec
  <2> QED BY <2>1 DEF N
<1>9. Rec(InTime(s), Len(s))
  <2> HIDE DEF Rec
  <2> QED BY <1>1, <1>8
<1> DEFINE f == InTime(s)
<1> HIDE DEF f
<1>10. \A n \in 0..Len(s) : f[n] = F(f, n)
  <2>1. f = [n \in 0..Len(s) |-> F(f, n)]
    BY <1>9 DEF f
  <2> QED BY <2>1
<1>11. 0 \in 0..Len(s) /\ \A n \in 1..Len(s) : n \in 0..Len(s) /\ n # 0
  OBVIOUS
<1> QED BY <1>2, <1>4, <1>10, <1>11 DEF f

\* Whoever is j-th of those who came back in time follows j - 1 of them.
\* Who is in time among the first n.
Kept(s, n) == {j \in 1..n : ~s[j].late}

LEMMA KeptMore ==
  ASSUME NEW s, NEW n \in Nat
  PROVE  /\ Cardinality(Kept(s, 0)) = 0 /\ Cardinality(Kept(s, n)) \in Nat
         /\ Cardinality(Kept(s, n + 1)) =
              IF s[n + 1].late THEN Cardinality(Kept(s, n)) ELSE Cardinality(Kept(s, n)) + 1
<1>1. Kept(s, 0) = {}
  BY DEF Kept
<1>2. IsFiniteSet(Kept(s, n)) /\ n + 1 \notin Kept(s, n)
  <2>1. Kept(s, n) \subseteq 1..n /\ IsFiniteSet(1..n)
    BY FS_Interval DEF Kept
  <2> QED BY <2>1, FS_Subset
<1>3. Kept(s, n + 1) = IF s[n + 1].late THEN Kept(s, n) ELSE Kept(s, n) \cup {n + 1}
  <2>1. 1..(n + 1) = (1..n) \cup {n + 1} /\ n + 1 \notin 1..n
    OBVIOUS
  <2> QED BY <2>1 DEF Kept
<1>4. Cardinality(Kept(s, 0)) = 0
  BY <1>1, FS_EmptySet
<1> DEFINE S == Kept(s, n)
<1> HIDE DEF S
<1>5. Cardinality(S) \in Nat /\ Cardinality(S \cup {n + 1}) = Cardinality(S) + 1
  BY <1>2, FS_AddElement, FS_CardinalityType DEF S
<1>6. Kept(s, n + 1) = IF s[n + 1].late THEN S ELSE S \cup {n + 1}
  BY <1>3 DEF S
<1>7. Cardinality(Kept(s, n + 1)) = IF s[n + 1].late THEN Cardinality(S) ELSE Cardinality(S) + 1
  <2> HIDE DEF Kept
  <2> QED BY <1>5, <1>6
<1> QED BY <1>4, <1>5, <1>7 DEF S

\* Cleaning keeps who is in time, in his order: he moves up to right behind
\* those in time before him.
LEMMA InTimeKeeps ==
  ASSUME NEW s \in Seq(Entries)
  PROVE  \A n \in 0..Len(s) :
           /\ InTime(s)[n] \in Seq(Entries)
           /\ \A j \in DOMAIN InTime(s)[n] :
                \E i \in 1..n : InTime(s)[n][j] = s[i] /\ ~s[i].late
                               /\ j = Cardinality(Kept(s, i - 1)) + 1
<1> DEFINE f == InTime(s)
           K(i) == Cardinality(Kept(s, i))
           P(n) == /\ f[n] \in Seq(Entries) /\ Len(f[n]) = K(n)
                   /\ \A j \in DOMAIN f[n] :
                        \E i \in 1..n : f[n][j] = s[i] /\ ~s[i].late /\ j = K(i - 1) + 1
           N == {n \in Nat : n <= Len(s) => P(n)}
<1>0. /\ K(0) = 0
      /\ \A n \in Nat : K(n) \in Nat /\ K(n + 1) = IF s[n + 1].late THEN K(n) ELSE K(n) + 1
  BY KeptMore
<1>1. f[0] = <<>> /\ \A n \in 1..Len(s) : f[n] = IF s[n].late THEN f[n - 1]
                                                ELSE Append(f[n - 1], s[n])
  BY InTimeIs
<1> HIDE DEF f, K
<1>2. 0 \in N
  <2>1. <<>> \in Seq(Entries) /\ DOMAIN <<>> = {} /\ Len(<<>>) = 0
    <3> HIDE DEF Entries
    <3> QED OBVIOUS
  <2>2. P(0)
    <3> HIDE DEF Entries
    <3> QED BY <1>0, <1>1, <2>1
  <2> HIDE DEF P
  <2> QED BY <2>2
<1>3. ASSUME NEW n \in N PROVE n + 1 \in N
  <2>1. SUFFICES ASSUME n + 1 <= Len(s) PROVE P(n + 1)
    OBVIOUS
  <2>2. P(n) /\ n + 1 \in 1..Len(s) /\ n \in Nat
    BY <2>1
  <2>3. f[n + 1] = IF s[n + 1].late THEN f[n] ELSE Append(f[n], s[n + 1])
    BY <1>1, <2>2
  <2>4. s[n + 1] \in Entries
    <3> HIDE DEF Entries
    <3> QED BY <2>2
  <2>5. CASE s[n + 1].late
    <3>1. f[n + 1] = f[n] /\ K(n + 1) = K(n)
      BY <1>0, <2>2, <2>3, <2>5
    <3> QED BY <2>2, <3>1
  <2>6. CASE ~s[n + 1].late
    <3> DEFINE k == f[n]
               e == s[n + 1]
    <3>1. k \in Seq(Entries) /\ e \in Entries /\ f[n + 1] = Append(k, e)
      BY <2>2, <2>3, <2>4, <2>6
    <3>2. /\ \A j \in DOMAIN k : \E i \in 1..n : k[j] = s[i] /\ ~s[i].late /\ j = K(i - 1) + 1
          /\ Len(k) = K(n)
      BY <2>2
    <3> HIDE DEF k, Entries
    <3>3. /\ f[n + 1] \in Seq(Entries) /\ f[n + 1][Len(k) + 1] = e
          /\ DOMAIN f[n + 1] = DOMAIN k \cup {Len(k) + 1} /\ Len(f[n + 1]) = Len(k) + 1
          /\ \A j \in DOMAIN k : f[n + 1][j] = k[j]
      BY <3>1
    <3>4. Len(f[n + 1]) = K(n + 1)
      BY <1>0, <2>2, <2>6, <3>2, <3>3
    <3>5. ASSUME NEW j \in DOMAIN f[n + 1]
          PROVE  \E i \in 1..(n + 1) : f[n + 1][j] = s[i] /\ ~s[i].late /\ j = K(i - 1) + 1
      <4>1. CASE j \in DOMAIN k
        <5>1. PICK i \in 1..n : k[j] = s[i] /\ ~s[i].late /\ j = K(i - 1) + 1
          BY <3>2, <4>1
        <5>2. i \in 1..(n + 1)
          BY <2>2
        <5> QED BY <3>3, <4>1, <5>1, <5>2
      <4>2. CASE j = Len(k) + 1
        <5>1. n + 1 \in 1..(n + 1) /\ (n + 1) - 1 = n
          BY <2>2
        <5> QED BY <2>6, <3>2, <3>3, <4>2, <5>1
      <4> QED BY <3>3, <4>1, <4>2
    <3> QED BY <3>3, <3>4, <3>5
  <2> QED BY <2>5, <2>6
<1> HIDE DEF N
<1>4. N = Nat
  <2>1. N \subseteq Nat
    BY DEF N
  <2> QED BY <1>2, <1>3, <2>1, SetOfNaturals
<1>5. \A n \in 0..Len(s) : P(n)
  BY <1>4 DEF N
<1> QED BY <1>5 DEF f, K

LEMMA Joined ==
  ASSUME NEW T, NEW a \in Seq(T), NEW b \in Seq(T)
  PROVE  /\ a \o b \in Seq(T) /\ Len(a \o b) = Len(a) + Len(b)
         /\ \A i \in 1..(Len(a) + Len(b)) :
              (a \o b)[i] = IF i <= Len(a) THEN a[i] ELSE b[i - Len(a)]
  OBVIOUS

LEMMA InsertedAt ==
  ASSUME NEW T, NEW s \in Seq(T), NEW e \in T, NEW n \in 1..(Len(s) + 1)
  PROVE  /\ InsertAt(s, n, e) \in Seq(T) /\ Len(InsertAt(s, n, e)) = Len(s) + 1
         /\ \A i \in 1..(Len(s) + 1) :
              InsertAt(s, n, e)[i] = IF i < n THEN s[i] ELSE IF i = n THEN e ELSE s[i - 1]
<1> DEFINE a == SubSeq(s, 1, n - 1)
           b == <<e>>
           d == SubSeq(s, n, Len(s))
<1>1. /\ a \in Seq(T) /\ Len(a) = n - 1 /\ \A i \in 1..(n - 1) : a[i] = s[i]
  OBVIOUS
<1>2. b \in Seq(T) /\ Len(b) = 1 /\ b[1] = e
  OBVIOUS
<1>3. /\ d \in Seq(T) /\ Len(d) = Len(s) + 1 - n
      /\ \A i \in 1..(Len(s) + 1 - n) : d[i] = s[n + i - 1]
  OBVIOUS
<1> HIDE DEF a, b, d
<1>4. InsertAt(s, n, e) = (a \o b) \o d
  BY DEF InsertAt, a, b, d
<1> DEFINE f == a \o b
<1>5. /\ f \in Seq(T) /\ Len(f) = n /\ f[n] = e /\ \A i \in 1..(n - 1) : f[i] = s[i]
  <2>1. n \in Nat /\ n >= 1
    OBVIOUS
  <2>2. f \in Seq(T) /\ Len(f) = Len(a) + Len(b)
    BY <1>1, <1>2, Joined
  <2>3. \A i \in 1..(Len(a) + Len(b)) : f[i] = IF i <= Len(a) THEN a[i] ELSE b[i - Len(a)]
    BY <1>1, <1>2, Joined
  <2> HIDE DEF f
  <2>4. Len(f) = n
    BY <1>1, <1>2, <2>1, <2>2
  <2>5. f[n] = b[1]
    BY <1>1, <1>2, <2>1, <2>3
  <2>6. \A i \in 1..(n - 1) : f[i] = s[i]
    BY <1>1, <1>2, <2>1, <2>3
  <2> QED BY <1>2, <2>2, <2>4, <2>5, <2>6
<1> HIDE DEF f
<1> DEFINE g == f \o d
<1>6. /\ g \in Seq(T) /\ Len(g) = Len(s) + 1
      /\ \A i \in 1..n : g[i] = f[i]
      /\ \A i \in (n + 1)..(Len(s) + 1) : g[i] = d[i - n]
  BY <1>3, <1>5, Joined
<1> HIDE DEF g
<1>7. \A i \in 1..(Len(s) + 1) :
        g[i] = IF i < n THEN s[i] ELSE IF i = n THEN e ELSE s[i - 1]
  <2> TAKE i \in 1..(Len(s) + 1)
  <2>1. CASE i < n
    BY <1>5, <1>6, <2>1
  <2>2. CASE i = n
    BY <1>5, <1>6, <2>2
  <2>3. CASE i > n
    <3>1. i - n \in 1..(Len(s) + 1 - n) /\ i \in (n + 1)..(Len(s) + 1)
      BY <2>3
    <3>2. g[i] = d[i - n] /\ d[i - n] = s[n + (i - n) - 1]
      BY <1>3, <1>6, <3>1
    <3>3. n + (i - n) - 1 = i - 1
      OBVIOUS
    <3> QED BY <2>3, <3>2, <3>3
  <2> QED BY <2>1, <2>2, <2>3
<1> QED BY <1>4, <1>6, <1>7 DEF f, g

LEMMA LeastIs ==
  ASSUME NEW S, S \subseteq Nat, S # {}
  PROVE  Least(S) \in S
<1>1. \E i \in S : \A j \in S : i <= j
  BY LeastOf
<1> QED BY <1>1 DEF Least

LEMMA EntryInserted ==
  ASSUME NEW s \in Seq(Entries), NEW c \in Chars, NEW ip \in Addresses \cup {None}
  PROVE  Inserted(s, c, ip) \in Seq(Entries)
<1> DEFINE e == [who |-> c, ip |-> ip, late |-> FALSE]
           behind == {i \in DOMAIN s : s[i].who \notin Premium}
           place == IF c \in Premium /\ behind # {} THEN Least(behind) ELSE Len(s) + 1
<1>1. Inserted(s, c, ip) = InsertAt(s, place, e)
  BY DEF Inserted
<1>2. e \in Entries
  BY DEF Entries
<1>3. place \in 1..(Len(s) + 1)
  <2>1. behind \subseteq DOMAIN s /\ DOMAIN s = 1..Len(s) /\ Len(s) \in Nat
    OBVIOUS
  <2> HIDE DEF behind
  <2>2. behind \subseteq Nat
    BY <2>1
  <2>3. CASE c \in Premium /\ behind # {}
    <3>1. place \in behind
      BY <2>2, <2>3, LeastIs
    <3> HIDE DEF place
    <3> QED BY <2>1, <3>1
  <2>4. CASE ~(c \in Premium /\ behind # {})
    BY <2>1, <2>4
  <2> QED BY <2>3, <2>4
<1> HIDE DEF place, e
<1>4. InsertAt(s, place, e) \in Seq(Entries)
  <2> HIDE DEF Entries
  <2> QED BY <1>2, <1>3, InsertedAt
<1> QED BY <1>1, <1>4

LEMMA AddressRead ==
  ASSUME NEW p \in Protocols, NEW k, NEW i
  PROVE  IpAt(p, k, i) \in {Address[p], None} /\ IpAt(p, k, i) \in Addresses \cup {None}
BY LoginAssumption DEF IpAt

\* Whoever is left on the list has moved up behind those in time before him.
LEMMA CleanedIs ==
  ASSUME ListTyped
  PROVE  /\ Cleaned \in Seq(Entries)
         /\ \A j \in DOMAIN Cleaned :
              \E i \in DOMAIN waiting :
                /\ Cleaned[j] = waiting[i] /\ ~waiting[i].late
                /\ j = Cardinality(Kept(waiting, i - 1)) + 1
<1> DEFINE s == waiting
           n == Len(waiting)
<1>1. s \in Seq(Entries)
  BY DEF ListTyped
<1>2. n \in 0..Len(s) /\ DOMAIN s = 1..n
  BY <1>1
<1> HIDE DEF s, n
<1>3. /\ InTime(s)[n] \in Seq(Entries)
      /\ \A j \in DOMAIN InTime(s)[n] :
           \E i \in 1..n : InTime(s)[n][j] = s[i] /\ ~s[i].late
                          /\ j = Cardinality(Kept(s, i - 1)) + 1
  BY <1>1, <1>2, InTimeKeeps
<1> QED BY <1>2, <1>3 DEF s, n, Cleaned

LEMMA FoundIs ==
  ASSUME NEW s \in Seq(Entries), NEW c, NEW p, NEW k, Found(s, c, p, k) # {}
  PROVE  LET i == Least(Found(s, c, p, k))
         IN  i \in DOMAIN s /\ s[i].who = c /\ s[i].ip = IpAt(p, k, i)
<1> DEFINE S == Found(s, c, p, k)
<1>1. S \subseteq DOMAIN s /\ DOMAIN s \subseteq Nat
  BY DEF Found
<1>2. \A i \in S : s[i].who = c /\ s[i].ip = IpAt(p, k, i)
  BY DEF Found
<1> HIDE DEF S
<1>3. Least(S) \in S
  <2>1. S \subseteq Nat /\ S # {}
    BY <1>1 DEF S
  <2> QED BY <2>1, LeastIs
<1> QED BY <1>1, <1>2, <1>3 DEF S

LEMMA WaitedKeeps ==
  ASSUME ListTyped, NEW c \in Chars, NEW p \in Protocols, NEW k
  PROVE  Waited(c, p, k).list \in Seq(Entries)
<1> DEFINE s == Cleaned
           found == Found(s, c, p, k)
           ip == IpAt(p, k, Len(s) + 1)
<1>1. s \in Seq(Entries) /\ waiting \in Seq(Entries)
  BY CleanedIs DEF ListTyped
<1>2. \/ Waited(c, p, k).list = waiting
      \/ Waited(c, p, k).list = s
      \/ Waited(c, p, k).list = Inserted(s, c, ip)
      \/ found # {} /\ Waited(c, p, k).list = RemoveAt(s, Least(found))
  BY DEF Waited
<1>3. ip \in Addresses \cup {None}
  BY AddressRead
<1> HIDE DEF s, ip
<1>4. Inserted(s, c, ip) \in Seq(Entries)
  BY <1>1, <1>3, EntryInserted
<1>5. CASE found # {}
  <2>1. Least(found) \in DOMAIN s
    BY <1>1, <1>5, FoundIs
  <2> HIDE DEF found, Entries
  <2>2. RemoveAt(s, Least(found)) \in Seq(Entries)
    BY <1>1, <2>1, Removed
  <2> QED BY <1>1, <1>2, <1>4, <2>2
<1>6. CASE found = {}
  BY <1>1, <1>2, <1>4, <1>6
<1> QED BY <1>5, <1>6

LEMMA ListInvariant == Spec => []ListTyped
<1>1. Init => ListTyped
  BY DEF Init, ListTyped, Entries
<1>2. Good(World) /\ ListTyped /\ [Next]_vars => ListTyped'
  <2> SUFFICES ASSUME Good(World), ListTyped, [Next]_vars PROVE ListTyped'
    OBVIOUS
  <2>1. CASE waiting' = waiting
    BY <2>1 DEF ListTyped
  <2>2. CASE LoginNew
    <3> DEFINE p == Head(tasks).protocol
               c == Head(tasks).char
    <3>1. c \in Chars /\ p \in Protocols
      BY <2>2, LoginTaken DEF LoginNew
    <3>2. waiting' = waiting \/ \E k \in 0..Len(waiting) + 1 : waiting' = Waited(c, p, k).list
      BY <2>2 DEF LoginNew
    <3> HIDE DEF p, c
    <3>3. waiting' \in Seq(Entries)
      BY <3>1, <3>2, WaitedKeeps DEF ListTyped
    <3> QED BY <3>3 DEF ListTyped
  <2>3. CASE GetLate
    <3>1. PICK i \in DOMAIN waiting : waiting' = [waiting EXCEPT ![i].late = TRUE]
      BY <2>3 DEF GetLate
    <3>2. waiting \in Seq(Entries)
      BY DEF ListTyped
    <3>3. waiting[i] \in Entries
      <4> HIDE DEF Entries
      <4> QED BY <3>2
    <3> DEFINE e == [waiting[i] EXCEPT !.late = TRUE]
    <3>4. e \in Entries
      BY <3>3 DEF Entries
    <3>5. waiting' = [waiting EXCEPT ![i] = e]
      BY <3>1
    <3> HIDE DEF e, Entries
    <3>6. waiting' \in Seq(Entries)
      BY <3>2, <3>4, <3>5
    <3> QED BY <3>6 DEF ListTyped
  <2>4. waiting' = waiting \/ LoginNew \/ GetLate
    BY DEF Next, vars, RunTask, LoginAgain, DelayedConnect, CloseOrRelease, Logout, Due, Idle,
           Kick, FirstPacket, LogoutPacket, Lost
  <2> QED BY <2>1, <2>2, <2>3, <2>4
<1> QED BY <1>1, <1>2, GoodInvariant, PTL DEF Spec

\* The type of every variable.
THEOREM TypeCorrect == Spec => []TypeOK
<1>1. Good(World) /\ ListTyped => TypeOK
  <2> SUFFICES ASSUME Good(World), ListTyped PROVE TypeOK
    OBVIOUS
  <2>1. World \in Worlds /\ Core(World)
    BY DEF Good
  <2>2. /\ tasks \in Seq(TaskSet) /\ later \in Seq(TaskSet)
        /\ game \in [Chars -> Seats] /\ protocol \in [Protocols -> Records]
    BY <2>1, WorldIs, WorldFields
  <2>3. \A p \in Protocols : protocol[p].refs \in 0..1
    BY <2>1, WorldFields DEF Core, Arrivals
  <2>4. \A p \in Protocols : protocol[p] \in Records
    BY <2>2
  <2>5. \A p \in Protocols : protocol[p] \in [state : ProtocolStates, player : Ids, refs : 0..1]
    BY <2>3, <2>4 DEF Records
  <2>6. protocol \in [Protocols -> [state : ProtocolStates, player : Ids, refs : 0..1]]
    BY <2>2, <2>5
  <2>7. /\ \A i \in DOMAIN tasks : tasks[i] \in TaskSet
        /\ \A i \in DOMAIN later : later[i] \in TaskSet
    BY <2>1, WorldIs, WorldFields
  <2>8. \A i \in DOMAIN waiting : waiting[i] \in Entries
    <3> HIDE DEF Entries
    <3> QED BY DEF ListTyped
  <2> QED BY <2>2, <2>6, <2>7, <2>8 DEF TypeOK, Entries
<1> QED BY <1>1, GoodInvariant, ListInvariant, PTL

-----------------------------------------------------------------------------
(* Who enters the game *)

\* Whoever is not in the game in w is not in v.
NoneEnter(w, v) == \A c \in Chars : w.game[c].id = None => v.game[c].id = None

LEMMA CloseEnters ==
  ASSUME NEW w \in Worlds, NEW p
  PROVE  Close(w, p).game = w.game
<1> DEFINE t == Task("close", p, None, None)
<1> HIDE DEF t
<1> QED BY DEF Close, Worlds, t

LEMMA LeftEnters ==
  ASSUME NEW w, Good(w), NEW p \in Ids, NEW c \in Chars
  PROVE  NoneEnter(w, Left(w, p, c))
<1> DEFINE u == Close(w, p)
           v == [u EXCEPT !.game[c] = Absent]
<1>1. Left(w, p, c) = v
  BY DEF Left
<1>2. Good(u)
  BY CloseGood
<1>3. u \in Worlds /\ w \in Worlds /\ Absent \in Seats /\ Absent.id = None
  BY <1>2 DEF Good, Absent, Seats, Ids
<1>4. u.game = w.game
  BY <1>3, CloseEnters
<1> HIDE DEF u
<1>5. \A d \in Chars : v.game[d] = IF d = c THEN Absent ELSE u.game[d]
  BY <1>3, SeatSet
<1> HIDE DEF v
<1> QED BY <1>1, <1>3, <1>4, <1>5 DEF NoneEnter

LEMMA ConnectEnters ==
  ASSUME NEW w \in Worlds, NEW p \in Protocols, NEW c \in Chars, NEW id
  PROVE  NoneEnter(w, Connect(w, p, c, id))
<1> DEFINE n == w.protocol[p].refs - 1
           f == [w.protocol EXCEPT ![p].refs = n]
           u == [w EXCEPT !.protocol[p].refs = @ - 1]
           v == [u EXCEPT !.game[c] = Connected(@, p), !.protocol[p].player = id]
           Ended(x) == IF w.game[c].id = id /\ w.game[c].client = None
                       THEN [x EXCEPT !.game[c] = Connected(@, p), !.protocol[p].player = id]
                       ELSE Close(x, p)
<1>1. Connect(w, p, c, id) = Ended(u)
  BY DEF Connect
<1>2. w.game \in [Chars -> Seats] /\ w.protocol \in [Protocols -> Records]
  BY WorldIs
<1>3. w.protocol[p].refs \in Int
  <2>1. w.protocol[p] \in Records
    BY <1>2
  <2> QED BY <2>1 DEF Records
<1>4. n \in Int
  BY <1>3
<1> HIDE DEF n
<1>5. f \in [Protocols -> Records]
  BY <1>2, <1>4, RefsSet
<1>6. u.game = w.game /\ u.protocol = f /\ u \in Worlds
  <2> HIDE DEF f
  <2>1. u.game = w.game /\ u.protocol = f /\ u.tasks = w.tasks /\ u.later = w.later
    BY DEF Worlds, f, n
  <2> QED BY <1>5, <2>1 DEF Worlds
<1> HIDE DEF f, u
<1>7. v.game = [w.game EXCEPT ![c] = Connected(w.game[c], p)]
  BY <1>6 DEF Worlds
<1>8. Connected(w.game[c], p).id = w.game[c].id
  <2>1. w.game[c] \in Seats
    BY <1>2
  <2> QED BY <2>1 DEF Connected, Seats
<1>9. \A d \in Chars : v.game[d].id = w.game[d].id
  <2> DEFINE s == Connected(w.game[c], p)
  <2> HIDE DEF v, s, Seats
  <2> QED BY <1>2, <1>7, <1>8 DEF s
<1>10. Close(u, p).game = w.game
  BY <1>6, CloseEnters
<1>11. Ended(u) = v \/ Ended(u) = Close(u, p)
  OBVIOUS
<1> HIDE DEF v, Ended
<1> QED BY <1>1, <1>9, <1>10, <1>11 DEF NoneEnter

LEMMA TakeOverEnters ==
  ASSUME NEW w, Good(w), NEW p \in Protocols, NEW c \in Chars,
         Arrived(w, p, 0), w.game[c].client # None
  PROVE  NoneEnter(w, TakeOver(w, p, c))
<1> DEFINE u == Held(w, p)
           q == w.game[c].client
           x == Close(u, q)
           id == w.game[c].id
<1>1. w \in Worlds /\ Core(w)
  BY DEF Good
<1>2. q \in Ids /\ id \in Protocols
  BY <1>1, WorldIs DEF Ids, Core, Clients
<1>3. TakeOver(w, p, c) = TakenWorld(x, p, c, id)
  BY DEF TakeOver, TakenWorld
<1>4. u \in Worlds /\ u.game = w.game /\ Core(u)
  BY <1>1, HeldIs
<1> HIDE DEF u, q
<1>5. x \in Worlds /\ x.game = u.game
  BY <1>2, <1>4, CloseEnters, CloseCore
<1> HIDE DEF x, id
<1>6. \A d \in Chars : TakenWorld(x, p, c, id).game[d].id = x.game[d].id
  BY <1>2, <1>5, TakenIs
<1> QED BY <1>3, <1>4, <1>5, <1>6 DEF NoneEnter

LEMMA ReleaseEnters ==
  ASSUME NEW w \in Worlds, NEW p \in Protocols, Clients(w)
  PROVE  NoneEnter(w, Release(w, p))
<1> DEFINE u == [w EXCEPT !.game = ClientsWithout(w, p)]
<1>1. Release(w, p) = IF Unheld(w, p) THEN DeletedWorld(u, p) ELSE ClosedWorld(u, p)
  BY DEF Release, DeletedWorld, ClosedWorld
<1>2. u \in Worlds /\ Parted(w, u, p)
  BY ClientsParted
<1> HIDE DEF u
<1>3. DeletedWorld(u, p).game = u.game /\ ClosedWorld(u, p).game = u.game
  BY <1>2, DeletedIs, ClosedIs
<1> QED BY <1>1, <1>2, <1>3 DEF NoneEnter, Parted

LEMMA EntersBecoming ==
  ASSUME NEW w, w.game = game, NEW v, Become(v), NoneEnter(w, v)
  PROVE  \A c \in Chars : ~InGame(c) => game'[c].id = None
BY DEF Become, NoneEnter, InGame

\* Only a first login lets a character in.
LEMMA OnlyLoginEnters ==
  ASSUME Good(World), [Next]_vars, ~LoginNew
  PROVE  \A c \in Chars : ~InGame(c) => game'[c].id = None
<1> DEFINE s == World
<1>1. /\ s.game = game /\ s.tasks = tasks /\ TaskTaken = Dropped(s)
      /\ s \in Worlds /\ Core(s) /\ Schedules(s)
  BY WorldFields DEF Good
<1> HIDE DEF s
<1>2. tasks # <<>> => /\ Dropped(s) \in Worlds /\ Dropped(s).game = game
                      /\ Dropped(s).protocol = s.protocol /\ Head(tasks) \in TaskSet
  BY <1>1, DroppedIs
<1>3. CASE game' = game
  BY <1>3 DEF InGame
<1>4. CASE LoginAgain
  <2> DEFINE w == TaskTaken
             p == Head(tasks).protocol
             c == Head(tasks).char
             u == Held(w, p)
  <2>1. /\ Next1("login")
        /\ Become(IF game[c].client # None THEN TakeOver(w, p, c)
                                           ELSE Connect(u, p, c, game[c].id))
    BY <1>4 DEF LoginAgain
  <2>2. Good(w) /\ Arrived(w, p, 0) /\ p \in Protocols /\ c \in Chars /\ w.game = game
    BY <2>1, LoginTaken
  <2> HIDE DEF w, p, c
  <2>3. u \in Worlds /\ u.game = game
    BY <2>2, HeldIs DEF Good
  <2> HIDE DEF u
  <2>4. CASE game[c].client # None
    <3>1. NoneEnter(w, TakeOver(w, p, c)) /\ Become(TakeOver(w, p, c))
      BY <2>1, <2>2, <2>4, TakeOverEnters
    <3> QED BY <2>2, <3>1, EntersBecoming
  <2>5. CASE game[c].client = None
    <3>1. NoneEnter(u, Connect(u, p, c, game[c].id)) /\ Become(Connect(u, p, c, game[c].id))
      BY <2>1, <2>2, <2>3, <2>5, ConnectEnters
    <3> QED BY <2>3, <3>1, EntersBecoming
  <2> QED BY <2>4, <2>5
<1>5. CASE DelayedConnect
  <2> DEFINE w == Dropped(s)
             t == Head(tasks)
             v == Connect(w, t.protocol, t.char, t.id)
  <2>1. Next1("connect") /\ Become(v)
    BY <1>1, <1>5 DEF DelayedConnect
  <2>2. tasks # <<>> /\ Arrives(Head(s.tasks))
    BY <1>1, <2>1 DEF Next1, Arrives
  <2>3. w \in Worlds /\ w.game = game /\ t.protocol \in Protocols
    BY <1>2, <2>2 DEF TaskSet
  <2>4. t.char \in Chars
    BY <1>1, <2>2, DroppedArrives
  <2> HIDE DEF w, t
  <2>5. NoneEnter(w, v)
    BY <2>3, <2>4, ConnectEnters
  <2> HIDE DEF v
  <2> QED BY <2>1, <2>3, <2>5, EntersBecoming
<1>6. CASE CloseOrRelease
  <2> DEFINE w == Dropped(s)
             p == Head(tasks).protocol
  <2>1. tasks # <<>> /\ Become(Release(w, p))
    BY <1>1, <1>6 DEF CloseOrRelease, Next1
  <2>2. w \in Worlds /\ w.game = game /\ w.protocol = s.protocol /\ p \in Protocols
    BY <1>2, <2>1 DEF TaskSet
  <2> HIDE DEF w, p
  <2>3. Clients(w)
    BY <1>1, <2>2 DEF Core, Clients, State
  <2>4. NoneEnter(w, Release(w, p))
    BY <2>2, <2>3, ReleaseEnters
  <2> QED BY <2>1, <2>2, <2>4, EntersBecoming
<1>7. CASE Logout
  <2> DEFINE w == TaskTaken
             p == Head(tasks).protocol
  <2>1. Next1("logout")
    BY <1>7 DEF Logout
  <2>2. \/ Become(w)
        \/ \E c \in Chars : Become(Left(w, p, c))
        \/ Become(Close(w, p))
    BY <1>7 DEF Logout
  <2>3. s.tasks # <<>> /\ Head(s.tasks).what \in {"login", "logout", "connect"}
        /\ Head(s.tasks).what = "logout"
    BY <1>1, <2>1 DEF Next1
  <2>4. w \in Worlds /\ w.game = game /\ p \in Ids
    BY <1>1, <1>2, <2>3 DEF TaskSet, Ids
  <2>5. Core(w)
    BY <1>1, <2>3, DroppedCore
  <2>6. Schedules(w)
    BY <1>1, <2>3, DroppedSchedules DEF Schedules, Expected
  <2> HIDE DEF w, p
  <2>7. Good(w)
    BY <2>4, <2>5, <2>6 DEF Good
  <2>8. NoneEnter(w, w)
    BY DEF NoneEnter
  <2>9. NoneEnter(w, Close(w, p))
    BY <2>4, CloseEnters DEF NoneEnter
  <2>10. \A c \in Chars : NoneEnter(w, Left(w, p, c))
    BY <2>4, <2>7, LeftEnters
  <2> QED BY <2>2, <2>4, <2>8, <2>9, <2>10, EntersBecoming
<1>8. ASSUME NEW c \in Chars, Idle(c) \/ Kick(c)
      PROVE  \A d \in Chars : ~InGame(d) => game'[d].id = None
  <2>1. Become(Left(s, game[c].client, c))
    BY <1>8 DEF Idle, Kick, s
  <2>2. game[c].client \in Ids
    BY <1>1, WorldIs DEF Ids
  <2>3. NoneEnter(s, Left(s, game[c].client, c))
    BY <2>2, LeftEnters DEF s
  <2> QED BY <1>1, <2>1, <2>3, EntersBecoming
<1>9. ASSUME NEW p \in Protocols, Lost(p)
      PROVE  game' = game
  <2>1. Become(Close(s, p))
    BY <1>9 DEF Lost, s
  <2> QED BY <1>1, <2>1, CloseEnters DEF Become
<1>10. \/ game' = game
       \/ LoginAgain \/ DelayedConnect \/ CloseOrRelease \/ Logout
       \/ \E c \in Chars : Idle(c) \/ Kick(c)
       \/ \E p \in Protocols : Lost(p)
  BY DEF Next, vars, RunTask, Due, GetLate, LogoutPacket, FirstPacket
<1> QED BY <1>3, <1>4, <1>5, <1>6, <1>7, <1>8, <1>9, <1>10

\* A copy of the action of NobodyOvertaken.
NoneOvertaken == \A c \in Chars : Enters(c) /\ MustWait(c) => HisTurn(c)

\* Whoever is let in found the list empty, or his own entry, made in time from
\* his address, and leaves places for all in time before it: WaitingList::login.
THEOREM NoneLosesHisTurn == Spec => NobodyOvertaken
<1>1. Good(World) /\ ListTyped /\ [Next]_vars => [NoneOvertaken]_vars
  <2> SUFFICES ASSUME Good(World), ListTyped, [Next]_vars,
                      NEW c \in Chars, ~InGame(c), game'[c].id # None,
                      c \notin Privileged, ~(PremiumSkips /\ c \in Premium)
               PROVE  HisTurn(c)
    BY DEF NoneOvertaken, Enters, MustWait
  <2>1. LoginNew
    BY OnlyLoginEnters
  <2> DEFINE p == Head(tasks).protocol
             d == Head(tasks).char
             w == TaskTaken
             u == PlayerWorld(w, p, p)
             seat == [id |-> p, client |-> p, isConnecting |-> FALSE]
             v == [u EXCEPT !.game[d] = seat]
  <2>2. /\ Next1("login")
        /\ \/ Become(Close(u, p))
           \/ \E k \in 0..Len(waiting) + 1 : Waited(d, p, k).enters /\ Become(v)
    BY <2>1 DEF LoginNew, PlayerWorld
  <2>3. /\ w \in Worlds /\ Core(w) /\ Arrived(w, p, 0) /\ w.game = game
        /\ p \in Protocols /\ d \in Chars /\ p \in Ids /\ p # None
    BY <2>2, LoginTaken, LoginAssumption DEF Good, Ids
  <2> HIDE DEF p, d, w
  <2>4. u \in Worlds /\ u.game = game
    BY <2>3, PlayerCore
  <2>5. seat \in Seats /\ seat.id = p
    BY <2>3 DEF Seats
  <2> HIDE DEF u, seat
  <2>6. \A e \in Chars : v.game[e] = IF e = d THEN seat ELSE game[e]
    <3>1. u \in Worlds /\ d \in Chars /\ seat \in Seats
      BY <2>3, <2>4, <2>5
    <3>2. \A e \in Chars : v.game[e] = IF e = d THEN seat ELSE u.game[e]
      BY ONLY <3>1, SeatSet
    <3> QED BY <2>4, <3>2
  <2>7. Close(u, p).game = game
    BY <2>4, CloseEnters
  <2> HIDE DEF v
  <2>8. PICK k \in 0..Len(waiting) + 1 : Waited(d, p, k).enters /\ game' = v.game
    BY <2>2, <2>7 DEF Become, InGame
  <2>9. c = d /\ game'[c].id = p
    BY <2>5, <2>6, <2>8 DEF InGame
  <2>10. Online \in Nat /\ Online' = Online + 1
    <3> DEFINE S == {e \in Chars : InGame(e)}
    <3>1. {e \in Chars : game'[e].id # None} = S \cup {c}
      BY <2>3, <2>5, <2>6, <2>8, <2>9 DEF InGame
    <3>2. IsFiniteSet(S) /\ c \notin S
      BY LoginAssumption, FS_Subset
    <3>3. Online' = Cardinality(S \cup {c}) /\ Online = Cardinality(S)
      BY <3>1 DEF Online, InGame
    <3> HIDE DEF S
    <3> QED BY <3>2, <3>3, FS_AddElement, FS_CardinalityType
  <2>11. MaxPlayers \in Nat
    BY LoginAssumption
  <2>12. CASE RoomAndNoQueue
    <3>1. waiting = <<>> /\ Online < MaxPlayers
      BY <2>12 DEF RoomAndNoQueue
    <3> HIDE DEF Online
    <3>2. Online' <= MaxPlayers
      BY <2>10, <2>11, <3>1
    <3> QED BY <3>1, <3>2 DEF HisTurn
  <2>13. CASE ~RoomAndNoQueue
    <3> DEFINE j == Least(Found(Cleaned, c, p, k))
    <3>1. ~Unqueued(c)
      BY <2>13 DEF Unqueued
    <3>2. Found(Cleaned, c, p, k) # {} /\ ~(Online + j > MaxPlayers)
      BY <2>8, <2>9, <3>1 DEF Waited
    <3>3. j \in DOMAIN Cleaned /\ Cleaned[j].who = c /\ Cleaned[j].ip = IpAt(p, k, j)
      BY <3>2, CleanedIs, FoundIs
    <3> HIDE DEF j
    <3>4. PICK i \in DOMAIN waiting :
            /\ Cleaned[j] = waiting[i] /\ ~waiting[i].late
            /\ j = Cardinality(Kept(waiting, i - 1)) + 1
      BY <3>3, CleanedIs
    <3>5. waiting[i].who = c /\ waiting[i].ip \in {Address[game'[c].id], None}
      BY <2>3, <2>9, <3>3, <3>4, AddressRead
    <3>6. Cardinality(Kept(waiting, i - 1)) \in Nat
      <4>1. i - 1 \in Nat
        BY DEF ListTyped
      <4> QED BY <4>1, KeptMore
    <3> HIDE DEF Online
    <3>7. Online' + Cardinality(Kept(waiting, i - 1)) <= MaxPlayers
      BY <2>10, <2>11, <3>2, <3>4, <3>6
    <3>8. HisEntry(c, i)
      BY <3>4, <3>5, <3>7 DEF HisEntry, Kept
    <3> QED BY <3>8 DEF HisTurn
  <2> QED BY <2>12, <2>13
<1> QED BY <1>1, GoodInvariant, ListInvariant, PTL DEF Spec, NobodyOvertaken, NoneOvertaken

=============================================================================
