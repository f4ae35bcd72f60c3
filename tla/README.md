# A verification project for the pokegame server

TLA+ models of the C++ game server in `src/src/` (an OTServ / The Forgotten
Server 0.4 derivative for a Pokemon game), the TLC configurations that check
them, and TLAPS proofs about them. `PROJECT.json` lists every run, every
property with a mutation of the code that breaks it, the source lines behind
every definition, the hazards and the findings.

Contents: [inventory](#inventory), [plan](#plan),
[modules and code](#modules-and-code), [runs](#runs), [fairness](#fairness),
[proofs](#proofs), [findings](#findings), [what is not modelled](#what-is-not-modelled).

## Inventory

The server is one process with three kinds of threads. The *dispatcher* thread
runs all game logic, one task at a time. The *scheduler* thread turns timers
into dispatcher tasks. The *network* thread runs boost::asio callbacks, parses
packets and posts tasks. Everything else is data the tasks work on.

| component | state | operations | interacts with | hard part | what makes it correct |
|---|---|---|---|---|---|
| Dispatcher (`tasks.*`) | task list, state, one mutex and condition variable | addTask, dispatcherThread, flush, stop, shutdown | every thread posts to it | wakeups, two-phase stop, flush under the lock | no lost wakeup, order kept, nothing left behind at exit |
| Scheduler (`scheduler.*`) | events by due time, set of active ids, last id | addEvent, stopEvent, schedulerThread, stop, shutdown | posts to the dispatcher, called by game tasks | timed waits, a cancel racing the due time, id wrap | fires once, never after a successful cancel, never oversleeps |
| Game state (`game.cpp`) | gameState, services | setGameState, saveGameState, globalSave, shutdown, emergencySave | both threads, database | ordering of save and stop, crash between saves | nothing saved twice or lost across a restart |
| Safe trade (`game.cpp`, `player.cpp`) | per player state, partner, offered item; global map of traded items | request, accept, close; hooks on movement, items, logout | item moves of all players nearby | sequences of legal calls by several players | both sides agree, accepted offers fixed, swap complete |
| Party (`party.*`) | leader, members, invitations; per player party and invitation list | invite, join, revoke, pass, leave, clear | logout, invisibility, chat channel | deletes itself while others point to it | pointers mirror each other, seniority |
| Duel (`duel.*`) | as Party | as Party | Lua dialogs | leadership is not passed on | no dangling leader |
| Market (`iomarket.*`) | offers in memory and in a table, `player->marketItem` | request, sell, buy, cancel, expire, save, load | network thread, mail, money, saving | two threads without a lock, stale item pointer, crash between saves | items and money conserved |
| Waiting list and login (`waitlist.*`, `protocolgame.*`) | queue with time-outs; per player its client, per protocol its player | login, connect, logout, kick, releaseProtocol, cleanup | dispatcher, scheduler, connections | a take-over that connects a second later, retries racing time-outs | pointers between players and protocols are live; who retries in time from the same address keeps his turn |
| Connections (`connection.*`, `protocol.*`, `outputmessage.*`) | state, pending reads and writes, references, output queue | accept, parse, send, close, time-out, sendAll | dispatcher, game protocol | callbacks after close, lock order, reference counts | no use after release, no lost close |
| Houses (`house.*`) | owner, access lists, transfer item | buy, sell by trade, rent, clean | trade, database | a transfer item that outlives the trade | one owner, one transfer at a time |
| Spawns (`spawn.*`) | slots, monsters listed under them, the next check | checkSpawn, spawnMonster, startEvent, removeMonster | scheduler, monsters that die, wander, are convinced | a monster is announced long before it is listed; the check goes on by a count | a slot is filled once, and again |
| Raids (`raids.*`) | running raid, next events | start, execute, reset, clear | scheduler | a cancelled event already due | at most one raid; none is configured in `data/raids/raids.xml` |
| Chat (`chat.*`) | channels, private and party channels keyed by pointer | create, join, leave, invite, exclude | party, login, logout | a channel found by a pointer that changes, address reuse | nobody hears a party he was put out of |
| Depot, mailbox, beds | item lists, sleepers | deposit, mail, sleep | login, saving | offline owners | nothing lost |
| Creatures, combat, spells, conditions, NPCs | numeric state | think, attack, cast | scheduler checks | mostly arithmetic | ranges |
| Map, tiles, items | spatial index, item trees | move, add, remove | everything | size of the data | tree of items |
| Lua scripting and `data/` scripts | script environments | callbacks into the engine | everything | re-entrance | depends on script |
| Database drivers, admin, status, configuration, GUI | connections, settings | queries, commands | start-up | input and output | none stated |

## Plan

Modules in order, most important behaviour first. (Done) marks what exists.

1. `Dispatcher` (done, proved in `TaskEngineProofs`).
2. `Scheduler` (done, proved there).
3. `TimerService`, an abstract specification, and `TaskEngine`, which composes
   1 and 2 and implements it (done, the implementation proved there as well).
4. `Trade` (done, proved in `TradeProofs`).
5. `Party` (done, proved in `PartyProofs`).
6. `Market` (done, proved in `MarketProofs`): offers, money, items and mail, with
   the network thread beside the dispatcher, saving, crash and restart. Left: the
   item selected for sale (`player->marketItem`).
7. `Network` (done, proved in `NetworkProofs`): connection, protocol and output pool on the
   service thread and the dispatcher, whose queue it keeps to what matters.
8. `Login` (done, proved in `LoginProofs`): waiting list, take-over, kick, release.
9. The party channel in `Party` (done, proved with it).
10. `Spawn` (done, proved in `SpawnProofs`).
11. `GameState`: the save points, global save, `emergencySave`
    (`game.cpp:7775-7815`), maintenance (`game.cpp:287`).
12. `House` with the house trade joined to `Trade`; the creature check lists of
    `game.cpp:5358-5412`; login attempts per address (`connection.cpp:103-183`).

Abstract specifications worth stating: the timer service (done), a
mutual-exclusion view of sessions per character.

Every invariant and every action property of a passing run is stated by a
theorem, and so is the refinement; the liveness properties are not, and cannot be
here. Theorems worth proving next are those of the modules to come. Recursion in
modules with theorems is written as recursive functions.

## Modules and code

### Dispatcher

Models `Dispatcher` of `tasks.cpp` with the parts of `outputmessage.cpp` and
`game.cpp` that act on it. `taskList`, `threadState` and `gameState` are the
members of those names; `pc` is the program counter of the dispatcher thread
(`loop` is the head of its while loop, `wait` the condition variable, `taken` a
task in hand, `run` the task running, `sendAll` the end of the frame,
`closing`/`stopping` inside `setGameState(GAME_STATE_SHUTDOWN)`, `flush*` inside
`flush`). `owes` holds the threads between the unlock in `addTask` and their
`notify_one`. `fate`, `ticket` and `accepted` are history: what became of each
task and the order of acceptance.

A critical section is one step, since all state it touches is guarded by the
same mutex. The exception is `shutdown`, which holds the mutex while flushed
tasks run: its program counters are the ones for which `TaskLockFree` is false,
and a task that calls `addTask` there ends in `blocked`. A task is a model
value; what matters of it is whether it is a message release (queued in front),
a `setGameState(SHUTDOWN)`, a `Game::shutdown`, one posted by a signal, and
whether it carries an expiration. When an expiration passes is not predictable,
so `Expire` and `Begin` are both possible. Tasks that touch neither thread are
ordinary tasks that post any number of others (`Spawn`).

### Scheduler

Models `Scheduler` of `scheduler.cpp`. What it has in common with the dispatcher
by name has a prefix here (`schedulerPc`, `schedulerState`, `SchedulerNext`), since
`TaskEngine` extends both. `eventList` is a set with a due time
`cycle` per event (`Tops` are the events the priority queue may have on top:
events of equal time come in any order), `eventIds` and `lastEvent` are the
members, with `MaxEventId` for 0xFFFFFFFF. `deadline` is the time the current
`timed_wait` was given. `returning` and `owes` put the return path of
`addEvent` into steps of its own: notify, then the read of the task's id.
A task is freed (`Freed`) when the dispatcher has run it or the scheduler has
deleted it as stopped. The `pc` value `undefined` stands for `top()` on an
empty queue, after which nothing is claimed. A `timed_wait` that ends by time is
`TimeOut`; if the signal comes first the wait ends as signalled.

The clock (`now`) is bounded by `MaxTime`. `AddEvent` needs the due time within
it, so that every event of a behaviour can become due.

### TaskEngine and TimerService

`TaskEngine` extends both modules and conjoins their actions, over the variables of
both. `HandOver` is the scheduler's `Hand` with the dispatcher's `AddTask` and the
cleared expiration in one step (the scheduler owns the task alone until it is
queued), running tasks call `AddEvent` and `StopEvent`, deleting a task that is an
event is the scheduler's `Consume` (`Delete`), and the four shutdown steps come in
the order of `setGameState` and `Game::shutdown`. A scheduler thread that owes the
dispatcher a signal does nothing else first, and a task inside `addEvent` goes no
further until it has returned.

`TimerService` is what the game relies on: a timer is armed, then cancelled or
due, then fired, or lost by the closing of the service. `TimerOf` is the
refinement mapping: it goes by the scheduler's record of an event until the event
is handed over, and then by the dispatcher's (`HandedTimer`). The service promises
no minimal delay, since the code keeps none (see findings).

### Trade

Models the handlers in `game.cpp` (3959-4193, 4327-4389) with the hooks in
`player.cpp` and `container.cpp`. All run on the dispatcher thread, so each
handler is one step including the closing of trades it causes. `parent` maps an
item to the player, floor tile or item it lies in; `Above` climbs that map, as
`getParent` chains and `isHoldingItem` do in the code. `TRADE_TRANSFER` exists
only within `playerAcceptTrade` and never between steps. Positions are points on
a line, enough to tell range 1 (an item) from range 2 (a partner). The player
inventory is one node: slots and capacity appear as the nondeterministic
outcome of the two test additions the swap begins with. `Destinations` is the
search of `Player::__queryDestination` for a free slot, a stack to merge with or
a container, with the offered item passed over exactly where the code does it:
inside a slot's container tree but not within a container that holds it.
An item merged into a stack is modelled as lying on it. `crashed` records the use
of a null item when both sides accept before there is a counter-offer.
Moving an item (`MoveItem`) is any move a player within reach may make; who may
see it is everyone near, which in the code is everyone within two tiles.

### Party

`group` is the record of all pointers between players and parties: `party` and
`asked` are the player's `party` and `invitePartyList`, `leader`, `members` and
`invited` are the party's; a freed party has no leader. The methods of `Party`
are operators from record to record, so that handlers compose them as the code
does: `Leave` passes the leadership, erases, and disbands, in that order. A
member of `Parties` is an address, which a later party may get again.
`Hide` stands for the two callers outside of the logout that do the same to a
party (the ghost talk action and the TV camera). `ownInvites` is history.
`undefined` records that a deleted party was used.

`users` is `m_users` of the party channel in `chat.cpp`, which exists by the
party's address and is never deleted. `sendClosePrivate` takes a player off it if
he has a client (`linked`) and is still found in the party: `Closed` in
`disband`, nobody in `leave`, which has forgotten the party by then. A player
without a client is not taken off. Login on a character in the game takes him
off all channels (`TakeOver`). `strays` is history: who left the party himself,
or was without a client, while on its channel.

### Market

Models `iomarket.cpp` with the saving around it. `market` is `marketMap`,
`inGame` what the players in the game own, `stored` and `rows` the database (the
players and the table `market_items`). `task` is what the dispatcher is at:
`save` inside the loop of `saveGameState`, `kick` inside
`setGameState(GAME_STATE_SHUTDOWN)`, `insert` between the two statements of
`saveItemsMarket`, `saved` before `Game::shutdown` ends the process. A sale is one
step of the dispatcher. A purchase or cancellation is one request on the network
thread, `net`, in the steps between which the dispatcher may do something else:
the checks on a copy of the offer (`Buy`, `CancelSell`), the change of the map
(`Claim`), one step for each parcel (`Mail`), the removal of the buyer's money
(`Charge`) and the seller's (`Credit`). A cancellation goes through the same
steps with a price of 0. `here` is false once the player of the request has left
the game: the thread goes on with a removed player.

`Mailed` is `playerNewMail`: someone who is not in the game is loaded, given the
parcel and saved, and that save also writes his offers. It waits for the database
(`DatabaseFree`) while the dispatcher is inside `saveItemsMarket`, which holds the
recursive lock of `DBQuery`. `SavePlayer` is one transaction, the DELETE and the
INSERT of `saveItemsMarket` are one each.
What a loop over the map or over the rows lists is `Listing`, a recursive function:
all offers (`Offers`), those of a player (`OffersOf`), or his rows (`RowsOf`).
`Crash` may come between any two steps; `Start` loads the table and numbers the
offers anew. `skipped` is history: who was last saved while the market was empty.

### Network

`net` is one connection with all that hangs on it: the members of `Connection`
by name, those of its `Protocol` (`linked`, `protocolRefs`, `outputBuffer`), its
messages in the pool's two queues, the asynchronous operations and timers under
way (`ops`, `timers`), and the queues in which their completions and the tasks
wait (`io`, `tasks`). Methods are operators from one such record to the next, and
handlers compose them. `Aborted` gives the order in which the operations of a
closed socket end; `Kept` and `Young` are what the loop over `m_addQueue` leaves in
it. A handler under `m_connectionLock` is one step of the
thread that runs it, but for the two points where it wants the pool's lock as
well: `service` and `place` are where the service thread is in the answer to a
packet, and the dispatcher in `sendAll`. Each waits for the lock the other has.
`ToRelease` is what a shared pointer's deleter does when the last one is gone:
the release is put in front of all tasks. After each task `sendAll` runs
(`TaskDone`, `SendNext`).

A message is a number; `GrowOld` makes one old enough to be sent by `sendAll`,
or dropped when it has waited for ten seconds. `Race` is the one place where both
threads change the same reference count without a lock; the model ends there.
External are the completions of boost::asio: an operation ends with or without an
error at any time, or is aborted with its socket; a timer expires; handlers run in
the order of their completion. Timers hold a weak pointer (`Destroyed`).

### Login

`game` gives each character in the game its `Player` object, named by the
protocol that created it, and its `client`; `protocol` the life of each protocol
and the player it points at. `tasks` and `later` are the dispatcher's queue and
the scheduler's list. `World` is the record of these, and the handlers are
operators from one to the next: `Close`, `Release`, `Connect`, `TakeOver` and
`Left`. A handler is one task and one step. Refusals that do not depend on the
state (bans, a script, no place on the map) are one nondeterministic branch of
`LoginNew`. `Waited` is `WaitingList::login` with its cleanup, of which `InTime` is
what it leaves; a time-out is the
flag `late`, which `GetLate` may set at any time. `Premium` with `PremiumSkips`
and `Privileged` are the players the list lets through.

An entry is found by name and address (`Found`, `waitlist.cpp:34`), so a character
may have several. `Address` is where a connection comes from. `getIP` asks the
socket each time it is called, once for every entry looked at and once more for
the entry made, and gives 0 (`None`) as soon as the socket is gone, which the
network may do at any moment: `IpAt(p, k, i)` is the answer to the i-th question if
the socket lives for `k` of them, and `LoginNew` takes any `k`.

### Spawn

`spawnedMap` counts the monsters listed under each slot by what matters of them:
in the zone, outside, or removed and not yet found so. `age` is the time since
`lastSpawn`, `check` the time to the next `checkSpawn`, `coming` the monsters
announced. `CheckSpawn` is the whole of that method: `Reviewed` drops who is
removed and lists those outside under 0, `Chosen` are the first slots that are
due, `Complete` decides whether to look again. `ShowEffect` and `Arrive` are the
later calls of `spawnMonster`. `overlooked` is history: a monster was convinced,
or not placed at startup, which asks for no check. Time is in ticks; a task may be
late by `Lag`, and no more (`Tick`). `SpawnAssumption` asks that a monster
arrives before the next look at the spawn: it takes 4.2 s and the shortest
spawntime of `data/world` is 5. What is left, less than a second, must do for the lag of
all its tasks; no code enforces that, and the properties of the spawn rest on it.

## Runs

| run | instance | shows |
|---|---|---|
| `dispatcher` | 6 tasks of all kinds, 2 producers, fair | the queue through both shutdowns: order, wakeups, every task taken |
| `scheduler` | 3 events, 2 callers, ids 1 and 2 (they wrap), delays 1 (rounded up to 2) and 3, spurious wakeups | no oversleeping, exact stop, ids in range |
| `engine` | 2 events, exit posted by setGameState or by SIGTERM, fair | refinement of `TimerService`; timers decided |
| `trade` | 3 players, all on one spot, or two of them on 3 tiles one, two and three apart, with login and logout; bag holding a pouch; a stack | mutual partners; offers tracked, apart, in reach, fixed; swap complete; consent |
| `party` | 4 players, 2 addresses, self-invitation as in the code, one channel in use | pointers, seniority, survival, and who hears what |
| `network` | a connection of the game's port or of another, 2 messages | no overlapping writes, no use of what is deleted, every close ends |
| `login` | 3 characters, one of them premium, 4 protocols from 2 addresses, 3 in use at once, one place on the server | live pointers, take-overs that end, turns kept |
| `spawn` | 3 slots of 7, 7 and 8 ticks, tasks late by one, 4 monsters | one monster a slot, looked after and refilled |
| `market` | 2 players, an offer of 2 items in parcels of 1, 3 calls, 2 runs of the process, one tick | goods and coins accounted for; the table against the market |
| `scheduler_early`, `trade_denied`, `market_saved` | as the runs above | violations, see findings |

Why the bounds are enough. The dispatcher's properties relate at most two tasks,
the exit task and one producer: one task of each kind and two producers give all
their orders. A scheduler needs an event waited for, an earlier one, and one
stopped or equal: three; over two ids, so that the third wraps onto a taken one.
Times up to 4 admit a short, a long and a late event. In the engine, due times
are the scheduler's affair: one delay and one tick are enough for the two
threads to meet in every order. Trade properties relate two trades (three
players: two cannot have two trades) and items nested twice with something to
merge; range needs a distance that is within a partner's reach and not an
item's, and one that is within neither. A party needs a leader, two members to
choose the successor from and an invited player; two addresses admit reuse of a
freed one. In the market, one offer that is bought whole or in two parts, in two
parcels, lets the dispatcher in between all steps; three calls are an offer, a
partial purchase and a cancellation of the rest, before and after the one
restart; the tick is what an offer needs to run out. A connection shows
overlapping writes with one message written and one queued; its two initial
states are a protocol that speaks first and one that is made for the first packet.
One place on the server, three characters of whom
one is premium, and four protocols give two protocols of one character (a
take-over) beside a queue of two whom the premium one may pass; three come from one address and one
from another, so that a retry may come from either. The intervals of
a spawn are the shortest `SpawnAssumption` allows, where an announced monster and
the next check are closest; one of three slots is slower than the check; four
monsters are one more than the slots.

Three runs bound the state space by a named constraint. `ThreeOnOneSpot` (trade)
leaves out three players who are not all on one spot, since who is out of reach
is seen with two. `FewAtATime` (party) leaves out states with users on
both channels, with more than one self-invitation, or with more than one player
in the game without a client. `ThreeAtATime` (login) leaves out states with all
four protocols in use: one that is taken over, the one that takes it over and one
that tries to log in meanwhile are three.
Symmetry is used for the events of the scheduler, for players and parties and
for the protocols of the login from one address, which nothing tells apart, and in no run that
checks a liveness property. Deadlock is checked for the spawn, which never ends;
the other configurations say `CHECK_DEADLOCK FALSE`, because there the process
or the connection may end: it exits, waits for its own lock, uses what is null or
freed, or reaches the bound of time.

Some properties make exceptions, each of them something the code does.
`EveryTaskTaken` and `ShutdownEnds` admit the self-deadlock of `flush`.
`StopIsExact` speaks of events whose id no other listed event has. `SwapIsComplete`
names its two exceptions, both of which TLC reaches if they are removed.
`PointersAgree` excepts who invited himself to his own party. `ClosedInTheEnd`
excepts the unlocked reference count, and the two threads that wait for each
other's lock. `LooksWhileShort` excepts a monster that was convinced or not placed
at startup, and `SlotRefilled` speaks of the first `SpawnRate + 1` slots: others
may starve. Of the parts of `Accounted`, the one about coins admits coins from a
buyer who can no longer pay; of `TableFollowsMarket`, the one about players who
are not in the game leaves out those saved while the market was empty. Goods are
accounted for while the process runs: what a crash loses or doubles is the
difference between memory and table, which nothing bounds other than
`TableFollowsMarket`.

## Fairness

Weak fairness of the two threads' next steps and of the notify steps of other
threads: they are operating-system threads with no lock to starve on other than
mutexes held for a few instructions (the one long holder is modelled). Weak
fairness of the clock. No fairness for posting tasks, adding or stopping events,
starting a shutdown or spurious wakeups: nothing in the code obliges anyone.

In `Network`, weak fairness of the two threads, of the timers and of time passing.
Strong fairness of running tasks: the dispatcher's `sendAll` comes between any
two tasks, and other tasks of the game run before one of the connection, but tasks
are taken in their order and each has its turn. No fairness for the completion of
an operation, which a silent peer may withhold for ever, nor for anything the peer or the game does.

In `Spawn`, weak fairness of the clock, of the check and of the announced
monsters' tasks, all of them timers of the scheduler. Strong fairness of a
monster's arrival for each slot: a place is found for it in the end if
it is tried for again and again. No fairness for deaths and walks.

## Proofs

All theorems are proved by `tlapm` for every value of the constants that the
named assumptions allow. A theorem has the form `Spec => []Inv`,
`Spec => [][A]_vars` or, for the refinement, `EngineSpec => Timers!Spec`; the
inductive invariant behind it is named below.

| assumption | asks | because |
|---|---|---|
| `TasksAssumption` | the kinds of tasks are sets of tasks; no task is both a message release and a shutdown | the code posts each from a place of its own |
| `SchedulerAssumption` | delays, ids, the tick and the bound of time are numbers, positive where the code has no zero | `createSchedulerTask` and `addEvent` |
| `TaskEngineAssumption` | events are ordinary tasks with an expiration; the scheduler thread posts tasks and adds no events; the dispatcher's thread is none of the other producers | `createSchedulerTask`; the code of the two loops |
| `MarketAssumption` | finitely many players; counts and prices of offers are positive | the accounts; `sellMarket` refuses 0 |
| `TradeAssumption` | finitely many items; containers and stacks are different items; a first placement has no cycle | `Item` and `Container`; parents are set one at a time |
| `PartyAssumption` | finitely many addresses; the null pointer is none of them | memory |
| `LoginAssumption` | finitely many characters; no connection comes from the address 0 | the accounts; IP |
| `MaxMessagesAssumption` | at least one message | the pool |
| `SpawnAssumption` | finitely many slots, at most as many as the bound on monsters; an announced monster arrives before the next check | a spawn file; `data/world`: 4.2 s against 5 |

`TaskEngineProofs`, the dispatcher. `TypeCorrect` is inductive by itself. `WakeupNeverLost`:
the property is inductive over types, since a list becomes non-empty only in
`Enqueue`, which either leaves a debt of a signal or finds the list non-empty, and a
debt is paid by waking the thread. `NothingLeftAtExit` needs the strengthening
`Accounting`: every accepted task is in the list, in the dispatcher's hand, in
flush's hand, or done with; at `exited` the list is empty and both hands are.
`OrdinaryTasksInOrder` and `OnlyLatecomersFlushed` rest on `OrderInv`, about the
tickets of acceptance: behind an ordinary task of the list there are only ordinary
ones, and tickets rise from it; an ordinary task in hand is older than all of
them; and what `flush` has in hand was accepted after the exit task that runs it.

The scheduler. `ListInv` ties the fates of events to the list (an event is
listed exactly when its fate says so) and the deadline to the list: while the
thread waits with a time-out, some listed event is due at that time or before.
The last is why `stopEvent` leaves events in the list, and yields
`TimeoutsAreSound`. `NeverOversleeps` and `IdsNeverOutliveEvents` follow
with one case per action; the latter also while ids wrap. `StoppingIsExact` adds
`StopInv`: of listed events with an id of their own, the id is active exactly if the
event was not stopped, and what the thread has decided about the event in its
hand agrees.

The two together. `EngineRunsBoth` shows that a behaviour of the engine is one of the
dispatcher and one of the scheduler, so that the theorems about each hold of the
server (`EngineIsSafe`). The invariant of the refinement is theirs with `Coupling`:
an event is new to the dispatcher exactly while the scheduler has not handed it
over, an event is deleted only when it is done, one that was handed over has no
expiration left (so that it is run and never dropped), and the dispatcher accepts
tasks as long as the scheduler runs (so that none is refused). Each action is then
shown to be a step of `TimerService` or a stutter. One hypothesis remains: that ids
are not reused (`IdsDiffer`), since `stopEvent` of an event whose id another listed
event has would cancel the other. `IdsAreDifferent` shows that it holds if there are no
more events than ids, by counting: until it wraps, `lastEvent` is the number of ids
given out. `EngineIsTimerService` therefore asks `Cardinality(Events) <= MaxEventId`: the
theorem speaks of a server that has added fewer than 2^32 events. The run checks the
same without the wrap; what happens when ids wrap is the run `scheduler`.

`TradeProofs`. The first inductive invariant is `TradeInv`: types, mutual partners,
tracked offers and `NoOfferYet` (a player who was only asked has offered
nothing). Mutuality alone is not inductive: that a third player is not left with
a partner who has gone needs that closing one side closes the other, which
`CloseMutual` and `CloseOffers` prove for any set of players that close at once.
`OffersStayInPlace` is about item trees of any depth. `Above` climbs `parent`, and
the lemmas on it say what a climb meets when one item moves: the same as before for
items that do not hold the moved one, and the climb from the new place for those
that do. The invariant is `PlaceInv`: the tree has no cycle (`Forest`),
no offered item lies in a stack, and offers are apart and in reach. The action
properties follow from both invariants: `AcceptedOffersKept`, since
every move that would touch an offer closes its trade; `ConsentNeeded`;
`SwapsAreComplete`, where the second half of the swap starts from the tree that the
first left.

`SpawnProofs`. That a slot never gets two monsters (`Exclusive`) is not inductive: it
takes `ArrivesFirst`, that every announced monster, with each of its remaining
tasks as late as allowed, arrives before the next check. `CheckSpawn` announces and
sets the next check in one step, so the assumption on the intervals establishes
it, and `Tick` takes as much from both sides. `SpawnKeepsLooking` is inductive over
types: only `CheckSpawn` stops looking, and steps that lose a monster ask for a
check or are excepted. That counts stay bounded (`Bounded`) is about their sum over
all slots, and needs to know of each step what it does to that sum.

`MarketProofs`. `Inv` is `TypeOK` with what ties a request to the market (`RequestOK`:
until it claims it, the copy that a request works on is the offer in the map;
once the parcels are out it holds no goods; and what is sent back goes to the
seller) and `LeftOK` (only `saveGameState` has players left to save). `TypeOK` alone is
not inductive: that `Claim` takes no more than there is needs the copy to be true,
which holds because only the one network thread changes offers that exist.
`NothingLostOrMade` follows from `Inv` by what each step does to three sums: what the
players own, what the market lists and what the request has claimed. The sums run
over any finite set of players and any number of offers, and change at one place
at a time, but for a sale, which adds a term, and a claim, which may remove one.
`TableFollows` has two halves. That the rows of an offline player are his offers
is inductive beside `Inv`, with one lemma for each way in which rows, market, or
who is offline can change. That what is offered is in the table once the server has
saved is about sums again, since requests go on: a claim only lowers the market's
(`ClaimLists`), and the save of a player who gets mail replaces his rows by his
offers. Both rest on lemmas on `Listing`: it depends on the sellers' offers only
(`ListingAlike`), of a listing it is the listing of both sets of sellers
(`ListingTwice`), of two lists the two listings (`ListingBoth`), and it counts as much of a
player as the market does (`ListedSum`).

`SumLemmas`. The sums of the community modules are folds over sets. Since no induction
rule with an operator parameter can be used, each induction is stated about the
set of numbers, or the family of subsets, for which the claim is true, and shown to
leave none out. What follows holds for all finite sets: a sum splits, changes by
what one term changes, and is zero or bounded as its terms are.
The module also has what is left of a list without one of its elements.

`PartyProofs`. The invariant `PartyInv` is `TypeOK` with `SoundNow`: pointers mirror each
other (`Mirrored`), members are distinct and not their leader (`Orderly`), an
invitation is in both lists (`Invitations`) but for a player's to his own party
(`SelfInvited`), no needless party is kept (`Needed`), and whoever hears a channel
from outside is a stray (`Heard`, `Inside`). The methods call each other, so each
has lemmas about a record of pointers `w` rather than about a step. Within a method
the invariant is broken: `Falling` is what `disband` may assume of a party
that is about to go. The loop that clears all invitations of a player, in any
order and with parties that disband on the way, is a recursive function over
the set of what is left, and its lemma an induction over those sets.
`LeadersSucceeded` goes through the same methods again with `Spared` and
`Departed`, which relate the parties before and after.

`LoginProofs`. `Good` speaks of a world `w`: tasks and events name protocols in use
(`OnLive`), a close is queued exactly once and last (`Closings`), a release exactly
once while a protocol is closed (`Releases`), a login or connect at most once and
for a protocol that nothing else ends first (`Arrivals`), players and their clients
point at each other (`Clients`), and who waits for a take-over has its connect
coming (`Schedules`). `PointersStayLive` and `ConnectsAreComing` follow from it.
Each handler is a composition, and has a lemma for every world it passes through.
`NoneLosesHisTurn` adds the type of the list (`ListTyped`), that only a login admits
anyone, and what the cleanup leaves of a list of any length: whoever is in time moves
up behind as many as are in time before him (`CleanedIs`). It does not need entries to
be different, and they are not: the code may list a character several times.

`NetworkProofs`. The invariant `NetInv` is `TypeOK`, the place of the service thread, and
`Whole(net)`, which has two halves. `Solid` holds at every point of every
method: references are counted by the messages in use, at most one read and one write are
begun or queued for completion, one message is with the socket, a connection lets go of its protocol
before it is deleted, its socket is deleted last. The other half holds only
between steps, since a method closes the socket before it changes the state:
an open connection has asked for a read unless the service thread is busy with its
packet (`Alive`), a write is pending exactly if a message is with the socket
(`Pending`), and one request to close is under way if and only if the state says so
(`Requested`). Each method has a lemma on what it changes and one on what it
preserves; the theorems follow for any number of messages.

Only model-checked: liveness and everything under fairness (`EveryTaskTaken`,
`ShutdownEnds`, `EveryTimerDecided`, `ClosedInTheEnd`, `SlotRefilled`),
since fairness is defined by ENABLED, which the prover does not treat; and the
three violations, which are behaviours TLC finds.

## Findings

1. An idle scheduler executes the next event at once, without its delay
   (`scheduler.cpp:49-59`): the wait for a signal leaves `ret` false, which the
   code below takes for a time-out. Run `scheduler_early`. In the same way a signal
   for an event that was already taken ends a wait on an empty list, and `top()` of
   the empty queue is taken. In the server other timers are always listed, which
   keeps both rare.
2. A trade refused by the script that says "trade cancelled" is not cancelled.
   Run `trade_denied`. Both players stay in `TRADE_ACCEPT` until one closes.
3. A player saved while the market is empty keeps the rows of offers that were
   sold or cancelled (`iomarket.cpp:842`, and 797 for the whole table), and the
   next start offers them again. Run `market_saved`.

Seen while modelling, without a statement in the repository to hold against it:

- Trade: both sides may accept before the counter-offer, and the null item is then
  used (`game.cpp:4176`).
- Party: a player who leaves a party he invited himself to keeps an invitation to
  it (`party.cpp:96-98`, `game.cpp:6080-6082`), which is used after the party is
  freed when he logs out. `leave` forgets the party before it closes the channel
  (`party.cpp:100-101`), so who leaves goes on hearing it, and the later parties at
  that address, since party channels are never deleted.
- Chat: `removeUserFromAllChannels` increments an iterator it has erased
  (`chat.cpp:507-512`) for the owner of a private channel.
- Shutdown: `flush` may wait for its own lock; `Scheduler::shutdown` finds events in
  a list its comment expects to be empty (`scheduler.cpp:161`).
- Market: the seller of an offer is paid when the buyer no longer can pay
  (`iomarket.cpp:507-508`); a crash between the two statements of `saveItemsMarket`
  leaves no offers (`iomarket.cpp:803-836`).
- Network: an answer takes the connection's lock and then the pool's, `sendAll` the
  other way round; reference counts are changed by both threads without a lock; the
  branch for slow connections (`connection.cpp:490`) needs more pending writes than
  the one there ever is; `isDisabled` (`connection.cpp:103-113`) dereferences `end()`
  for an address that never tried.
- Login: the case of `protocolgame.cpp:274` never arises, since `m_eventConnect` is a
  member of the new protocol; who arrives while the list has only expired entries is
  queued behind nobody, since the cleanup comes after the test; a waiting player who
  retries from another address, or whose socket is gone by the time the task runs (his
  address is then 0), is not found (`waitlist.cpp:34`), is listed again at the end and
  loses his turn to those behind his first entry; the take-over of a
  player who has meanwhile left is answered as if he were in the game.
- Spawn: every announcing call of `spawnMonster` makes a monster that is neither
  placed nor deleted; with `RATE_SPAWN` 1 the slots after the second may never be
  served; monsters outside their zone are listed under 0 and count as slots that are
  filled, so that a slot may stay empty for good; two monsters would come to a slot if a
  spawntime were below 4.2 s, or if tasks were late by more than is left of it, which
  nothing in the code bounds.

## What is not modelled

Each component without a module is in `PROJECT.json` with its reason. Left out of
modelled ones: the walk to an item out of reach before a trade request, the limit
of 100 items and the request script (each only refuses), the exchange of an item
with the one in an occupied slot (two `MoveItem` steps), house trades, scripts
that close a trade from within the swap, and what the swap does to trades of third
parties (`player.cpp:1943-1953` would close those whose offers it touches; `CompleteAccept`
leaves them open); shared experience, points and icons of parties; private, guild and public channels. Kicking and saving
during shutdown are left out of `Dispatcher` and `TaskEngine` and are steps of `Market`. Of the market: the pointer to the item
selected for sale and the item's attributes; the second currency and its flat
fee, the limits on prices and counts (each only refuses); the listings; what two
threads do to one `std::map` or container at once, each access being one step;
the time between loading and saving a player who gets mail; several items for one
payment; the difference between backpack and depot. A removed player's object is
taken to stay allocated while a request uses it. House rent, map storage,
maintenance (`game.cpp:287`) and `emergencySave` (`game.cpp:7775-7815`) are left out
of saving. Of the scheduler: changes of the clock (`scheduler.cpp:52`). Of the
network: accepting connections, login attempts per address, checksums and
encryption, what a packet contains. Of the spawn: NPCs, and the raids, none of
which is configured. The duel is a copy of the party
whose invitations are disabled in the shipped scripts
(`data/creaturescripts/creaturescripts.xml:25`).
