-------------------------------- MODULE Login --------------------------------
(***************************************************************************)
(* Logging in and out of the game: ProtocolGame of src/src/protocolgame.cpp*)
(* and the waiting list of src/src/waitlist.cpp.                           *)
(*                                                                         *)
(* A character is played by a Player object whose client is a ProtocolGame,*)
(* or has none once the connection is lost.  Who logs in on a character in *)
(* the game takes it over: the old client is disconnected and a second     *)
(* later the new one connects, if it still can.  Meanwhile connections     *)
(* close, the player may leave, and others may try the same.  All of it    *)
(* runs as tasks of the dispatcher; they carry plain pointers to protocols.*)
(*                                                                         *)
(* Left out: bans and accounts (a login may fail for any reason), and what *)
(* a player does in the game.  allowClones is 0 and replaceKickOnLogin set.*)
(***************************************************************************)
EXTENDS FiniteSets, Naturals, Sequences, SequencesExt

CONSTANTS
  Chars,        \* characters
  Protocols,    \* connections to the game's port, each used once
  Addresses,    \* the addresses they come from
  Address,      \* where each comes from
  None,         \* a null pointer, an id that names nobody, and the address 0
  MaxPlayers,   \* configuration: players the server takes
  Privileged,   \* characters that may always log in
  Premium,      \* characters that are queued in front of the others
  PremiumSkips  \* configuration: they do not even queue

ASSUME LoginAssumption ==
  /\ None \notin Chars \cup Protocols \cup Addresses /\ IsFiniteSet(Chars)
  /\ Address \in [Protocols -> Addresses]
  /\ MaxPlayers \in Nat /\ PremiumSkips \in BOOLEAN
  /\ Privileged \subseteq Chars /\ Premium \subseteq Chars

VARIABLES
  game,     \* the characters in the game and their clients
  protocol, \* the protocols
  tasks,    \* tasks queued for the dispatcher
  later,    \* events of the scheduler, in the order they were planned
  waiting   \* WaitingList::waitList

vars == <<game, protocol, tasks, later, waiting>>

\* A Player object is named by the protocol that created it.
Ids == Protocols \cup {None}
Seats == [id : Ids, client : Ids, isConnecting : BOOLEAN]
Absent == [id |-> None, client |-> None, isConnecting |-> FALSE]

\* closing: closeConnection is queued.  closed: it has run.
ProtocolStates == {"unused", "open", "closing", "closed", "deleted"}

Task(what, p, c, id) == [what |-> what, protocol |-> p, char |-> c, id |-> id]
TaskSet == [what : {"login", "logout", "close", "release", "connect"},
            protocol : Protocols, char : Chars \cup {None}, id : Ids]

Init ==
  /\ game = [c \in Chars |-> Absent]
  /\ protocol = [p \in Protocols |-> [state |-> "unused", player |-> None, refs |-> 0]]
  /\ tasks = <<>> /\ later = <<>> /\ waiting = <<>>

InGame(c) == game[c].id # None
Online == Cardinality({c \in Chars : InGame(c)})

-----------------------------------------------------------------------------
(* WaitingList *)

\* Mutant: whoever finds room is let in, others may be waiting.
AnyRoom == Online < MaxPlayers
RoomAndNoQueue == waiting = <<>> /\ Online < MaxPlayers

Unqueued(c) ==
  \/ c \in Privileged
  \/ RoomAndNoQueue
  \/ PremiumSkips /\ c \in Premium

\* What is left of the first n on a list of those who have come back in time.
InTime(s) ==
  LET kept[n \in 0..Len(s)] ==
        IF n = 0 THEN <<>>
        ELSE IF s[n].late THEN kept[n - 1] ELSE Append(kept[n - 1], s[n])
  IN  kept

\* cleanup: the others lose their place.
Cleaned == InTime(waiting)[Len(waiting)]

\* getIP, read the i-th time in a login, when the socket goes after k readings.
IpAt(p, k, i) == IF i <= k THEN Address[p] ELSE None

\* Mutants: whatever the address; and whatever the name.
FoundByName(s, c, p, k) == {i \in DOMAIN s : s[i].who = c}
FoundByAddress(s, c, p, k) == {i \in DOMAIN s : s[i].ip = IpAt(p, k, i)}

\* find: the entries with the name and the address read at each.  A character
\* may have others, with another address.
Found(s, c, p, k) == {i \in DOMAIN s : s[i].who = c /\ s[i].ip = IpAt(p, k, i)}

Least(S) == CHOOSE i \in S : \A j \in S : i <= j

\* A premium player is inserted before the first who is not.
Inserted(s, c, ip) ==
  LET behind == {i \in DOMAIN s : s[i].who \notin Premium}
      place == IF c \in Premium /\ behind # {} THEN Least(behind) ELSE Len(s) + 1
  IN  InsertAt(s, place, [who |-> c, ip |-> ip, late |-> FALSE])

\* WaitingList::login: whether c may enter, and the list that is left.
Waited(c, p, k) ==
  LET s == Cleaned
      found == Found(s, c, p, k)
  IN  IF Unqueued(c) THEN [enters |-> TRUE, list |-> waiting]
      ELSE IF found = {} THEN [enters |-> FALSE, list |-> Inserted(s, c, IpAt(p, k, Len(s) + 1))]
      ELSE IF Online + Least(found) > MaxPlayers THEN [enters |-> FALSE, list |-> s]
      ELSE [enters |-> TRUE, list |-> RemoveAt(s, Least(found))]

\* Time passes, and a player on the list does not try again.
GetLate ==
  /\ \E i \in DOMAIN waiting :
       ~waiting[i].late /\ waiting' = [waiting EXCEPT ![i].late = TRUE]
  /\ UNCHANGED <<game, protocol, tasks, later>>

-----------------------------------------------------------------------------
(* What the tasks do to the whole of the state w = [game, protocol, tasks,   *)
(* later]                                                                    *)

World == [game |-> game, protocol |-> protocol, tasks |-> tasks, later |-> later]
TaskTaken == [World EXCEPT !.tasks = Tail(@)]

\* Connection::close
Close(w, p) ==
  IF p = None \/ w.protocol[p].state # "open" THEN w
  ELSE [w EXCEPT !.protocol[p].state = "closing",
                 !.tasks = Append(@, Task("close", p, None, None))]

\* Mutant: a player keeps the client that goes.
ClientsKept(w, p) == w.game
\* releaseProtocol: the player the protocol plays has no client any more.
ClientsWithout(w, p) ==
  [c \in Chars |-> IF w.game[c].client = p /\ w.game[c].id = w.protocol[p].player
                   THEN [w.game[c] EXCEPT !.client = None] ELSE w.game[c]]

\* Mutant: the protocol does not wait for the event that holds it.
ReleasedAtOnce(w, p) == TRUE
Unheld(w, p) == w.protocol[p].refs = 0

Release(w, p) ==
  LET v == [w EXCEPT !.game = ClientsWithout(w, p)]
  IN  IF Unheld(w, p)
      THEN [v EXCEPT !.protocol[p] = [@ EXCEPT !.state = "deleted", !.player = None]]
      ELSE [v EXCEPT !.protocol[p].state = "closed",
                     !.later = Append(@, Task("release", p, None, None))]

\* Mutant: a player stays connecting.
Taken(seat, p) == [seat EXCEPT !.client = p]
Connected(seat, p) == [seat EXCEPT !.client = p, !.isConnecting = FALSE]

\* Mutant: a protocol that is to connect is not held.
NotHeld(w, p) == w
Held(w, p) == [w EXCEPT !.protocol[p].refs = @ + 1]

\* connect, by the id the player had when it was planned.
Connect(w, p, c, id) ==
  LET v == [w EXCEPT !.protocol[p].refs = @ - 1]
  IN  IF w.game[c].id = id /\ w.game[c].client = None
      THEN [v EXCEPT !.game[c] = Connected(@, p), !.protocol[p].player = id]
      ELSE Close(v, p)

\* A login on a character in the game that has a client.
TakeOver(w, p, c) ==
  [Close(Held(w, p), w.game[c].client) EXCEPT
     !.game[c].isConnecting = TRUE,
     !.later = Append(@, Task("connect", p, c, w.game[c].id))]

\* logout, by a protocol, and removeCreature
Left(w, p, c) == [Close(w, p) EXCEPT !.game[c] = Absent]

-----------------------------------------------------------------------------
(* The tasks *)

Become(w) ==
  /\ game' = w.game /\ protocol' = w.protocol /\ tasks' = w.tasks /\ later' = w.later

Next1(what) == tasks # <<>> /\ Head(tasks).what = what

\* A new Player object; banned, unplaceable and so on, or put on the list, it
\* stays outside and the connection is closed.
LoginNew ==
  /\ Next1("login")
  /\ LET p == Head(tasks).protocol
         c == Head(tasks).char
         w == [TaskTaken EXCEPT !.protocol[p].player = p]
     IN  /\ ~InGame(c)
         /\ \/ Become(Close(w, p)) /\ UNCHANGED waiting
            \/ \E k \in 0..Len(waiting) + 1 :
                 /\ waiting' = Waited(c, p, k).list
                 /\ \/ Become(Close(w, p))
                    \/ /\ Waited(c, p, k).enters
                       /\ Become([w EXCEPT !.game[c] =
                                    [id |-> p, client |-> p, isConnecting |-> FALSE]])

LoginAgain ==
  /\ Next1("login")
  /\ LET p == Head(tasks).protocol
         c == Head(tasks).char
     IN  /\ InGame(c)
         /\ Become(IF game[c].client # None THEN TakeOver(TaskTaken, p, c)
                                            ELSE Connect(Held(TaskTaken, p), p, c, game[c].id))
  /\ UNCHANGED waiting

DelayedConnect ==
  /\ Next1("connect")
  /\ LET t == Head(tasks)
     IN  Become(Connect(TaskTaken, t.protocol, t.char, t.id))
  /\ UNCHANGED waiting

CloseOrRelease ==
  /\ Next1("close") \/ Next1("release")
  /\ Become(Release(TaskTaken, Head(tasks).protocol))
  /\ UNCHANGED waiting

\* The player of the protocol leaves, unless a fight or a script keeps him.  If
\* he is gone already, only the connection is closed.
Logout ==
  /\ Next1("logout")
  /\ LET p == Head(tasks).protocol
         player == protocol[p].player
         here == {c \in Chars : InGame(c) /\ game[c].id = player}
     IN  \/ Become(TaskTaken)
         \/ \E c \in here : Become(Left(TaskTaken, p, c))
         \/ here = {} /\ Become(IF player = None THEN TaskTaken ELSE Close(TaskTaken, p))
  /\ UNCHANGED waiting

\* A task that kicks a player, or finds no sign of him for a minute.
Idle(c) ==
  /\ InGame(c) /\ ~game[c].isConnecting
  /\ Become(Left(World, game[c].client, c))
  /\ UNCHANGED waiting

Kick(c) ==
  /\ InGame(c)
  /\ Become(Left(World, game[c].client, c))
  /\ UNCHANGED waiting

-----------------------------------------------------------------------------
(* The network thread and the scheduler *)

FirstPacket(p, c) ==
  /\ protocol[p].state = "unused"
  /\ protocol' = [protocol EXCEPT ![p].state = "open"]
  /\ tasks' = Append(tasks, Task("login", p, c, None))
  /\ UNCHANGED <<game, later, waiting>>

\* parseLogout
LogoutPacket(p) ==
  /\ protocol[p].state = "open" /\ protocol[p].player # None
  /\ \A i \in DOMAIN tasks : tasks[i] # Task("logout", p, None, None)
  /\ tasks' = Append(tasks, Task("logout", p, None, None))
  /\ UNCHANGED <<game, protocol, later, waiting>>

\* The connection is lost or closed by the client.
Lost(p) ==
  /\ protocol[p].state = "open"
  /\ Become(Close(World, p))
  /\ UNCHANGED waiting

\* An event comes due: a release after 50 ms, a connect after a second, and so
\* after all that was planned before it.
Due ==
  /\ \E i \in DOMAIN later :
       /\ later[i].what = "release" \/ i = 1
       /\ later' = RemoveAt(later, i) /\ tasks' = Append(tasks, later[i])
  /\ UNCHANGED <<game, protocol, waiting>>

RunTask == LoginNew \/ LoginAgain \/ DelayedConnect \/ CloseOrRelease \/ Logout

Next ==
  \/ RunTask \/ Due \/ GetLate
  \/ \E c \in Chars : Idle(c) \/ Kick(c)
  \/ \E p \in Protocols : LogoutPacket(p) \/ Lost(p) \/ \E c \in Chars : FirstPacket(p, c)

Spec == Init /\ [][Next]_vars

-----------------------------------------------------------------------------
(* Properties *)

\* The type of every variable.
TypeOK ==
  /\ game \in [Chars -> Seats]
  /\ protocol \in [Protocols -> [state : ProtocolStates, player : Ids, refs : 0..1]]
  /\ \A i \in DOMAIN tasks : tasks[i] \in TaskSet
  /\ \A i \in DOMAIN later : later[i] \in TaskSet
  /\ \A i \in DOMAIN waiting :
       waiting[i] \in [who : Chars, ip : Addresses \cup {None}, late : BOOLEAN]

\* The client of a player is a protocol that still exists and plays him.
ClientIsLive ==
  \A c \in Chars :
    LET p == game[c].client
    IN  p # None => protocol[p].state # "deleted" /\ protocol[p].player = game[c].id

\* A player who waits to be taken over, whom no timeout removes meanwhile, has a
\* connect coming that ends it.
ConnectingIsScheduled ==
  \A c \in Chars :
    game[c].isConnecting =>
      \E t \in ToSet(later \o tasks) :
        t.what = "connect" /\ t.char = c /\ t.id = game[c].id

\* No task or event is left with a pointer to a deleted protocol.
TasksOnLiveProtocols ==
  \A t \in ToSet(later \o tasks) : protocol[t.protocol].state # "deleted"

\* Players, tasks and events hold plain pointers to protocols, which no order of
\* closing, taking over and leaving leaves behind.
PointersAreLive == ClientIsLive /\ TasksOnLiveProtocols

\* A player who is let in found the list empty or an entry of his own, made in
\* time from the address he comes from, and he takes no place from those before
\* that entry who came back in time.
HisEntry(c, i) ==
  /\ waiting[i].who = c /\ ~waiting[i].late
  /\ waiting[i].ip \in {Address[game'[c].id], None}
  /\ Online' + Cardinality({j \in 1..(i - 1) : ~waiting[j].late}) <= MaxPlayers
HisTurn(c) ==
  \/ waiting = <<>> /\ Online' <= MaxPlayers
  \/ \E i \in DOMAIN waiting : HisEntry(c, i)
Enters(c) == ~InGame(c) /\ game'[c].id # None
MustWait(c) == c \notin Privileged /\ ~(PremiumSkips /\ c \in Premium)
NobodyOvertaken ==
  [][\A c \in Chars : Enters(c) /\ MustWait(c) => HisTurn(c)]_vars
=============================================================================
