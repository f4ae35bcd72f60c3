-------------------------------- MODULE Spawn --------------------------------
(***************************************************************************)
(* A Spawn of src/src/spawn.{h,cpp}: a place on the map with numbered      *)
(* slots, each for one monster, which a task fills again from time to      *)
(* time.  A new monster is announced by three magic effects, each in a     *)
(* task of its own, before it is placed.                                   *)
(*                                                                         *)
(* All of it runs in tasks of the dispatcher, so a task is one step.  Time *)
(* is counted in ticks: a task waits for so many, and may be late by Lag.  *)
(* Monsters of one slot that do the same are told apart only by number.    *)
(***************************************************************************)
EXTENDS FiniteSetsExt, Integers

CONSTANTS
  Slots,        \* keys of spawnMap
  Interval,     \* spawnBlock_t::interval of every slot, in ticks
  DefaultInterval, \* DEFAULTSPAWN_INTERVAL, a minute
  Step,         \* 1400 ms, the time between two effects
  Lag,          \* how late a task may run
  SpawnRate,    \* RATE_SPAWN
  MaxMonsters,  \* bound on the monsters of the spawn
  None          \* no task

CheckInterval == Min({DefaultInterval} \cup {Interval[s] : s \in Slots})
Effects == 3

\* The spawn times of data/world leave a monster that is announced the time to
\* arrive before the next look at its slot.
ASSUME SpawnAssumption ==
  /\ Slots \subseteq Nat \ {0} /\ IsFiniteSet(Slots) /\ Slots # {}
  /\ Interval \in [Slots -> Nat] /\ DefaultInterval \in Nat
  /\ Step \in Nat \ {0} /\ Lag \in Nat /\ SpawnRate \in Nat \ {0}
  /\ CheckInterval > Effects * (Step + Lag)
  /\ MaxMonsters \in Nat /\ Cardinality(Slots) <= MaxMonsters
  /\ None \notin Int

VARIABLES
  spawnedMap,  \* how many monsters are listed under a slot, or 0, by state
  age,         \* ticks since lastSpawn of every slot, as far as they matter
  check,       \* ticks to the run of checkSpawn; None without checkSpawnEvent
  coming,      \* the announced: slot, effects to go, ticks to the next
  overlooked   \* a slot was left empty without asking for checkSpawn

vars == <<spawnedMap, age, check, coming, overlooked>>

Ids == Slots \cup {0}
States == {"inZone", "outside", "removed"}
Nobody == [st \in States |-> 0]

Many(map, id) == map[id]["inZone"] + map[id]["outside"] + map[id]["removed"]
Size(map) == SumFunction([id \in Ids |-> Many(map, id)])

\* Spawns::startup: every slot gets its monster, if that finds a place.
Init ==
  \E placed \in SUBSET Slots :
    /\ spawnedMap = [id \in Ids |-> [Nobody EXCEPT
                        !["inZone"] = IF id \in placed THEN 1 ELSE 0]]
    /\ age = [s \in Slots |-> IF s \in placed THEN 0 ELSE Interval[s]]
    /\ check = None /\ coming = {}
    /\ overlooked = (placed # Slots)

-----------------------------------------------------------------------------
(* Tasks of the spawn *)

AllOutside == SumFunction([id \in Ids |-> spawnedMap[id]["outside"]])

\* Mutant: those found outside are listed once more and keep their slot.
ReviewedTwice ==
  [id \in Ids |-> [spawnedMap[id] EXCEPT !["removed"] = 0,
                      !["outside"] = IF id \in Slots THEN @ ELSE AllOutside]]
\* Monsters that were removed go; those found outside keep no slot.
Reviewed ==
  [id \in Ids |->
    [Nobody EXCEPT !["inZone"] = spawnedMap[id]["inZone"],
                   !["outside"] = IF id \in Slots THEN 0 ELSE AllOutside]]

\* Mutant: lastSpawn of every empty slot is now.
ReviewedAgeOfEmpty ==
  [s \in Slots |-> IF Many(Reviewed, s) = 0 THEN 0 ELSE age[s]]
\* lastSpawn of a slot whose monster was found removed is now.
ReviewedAge ==
  [s \in Slots |-> IF spawnedMap[s]["removed"] > 0 THEN 0 ELSE age[s]]

Due(s) == Many(Reviewed, s) = 0 /\ ReviewedAge[s] >= Interval[s]

\* The first SpawnRate of the slots that are due, in the order of the map.
Chosen ==
  {s \in Slots : Due(s) /\ Cardinality({t \in Slots : t < s /\ Due(t)}) < SpawnRate}

\* Mutant: the next look is as far off as the next effect.
NextStep == Step
NextCheck == CheckInterval

\* Mutant: one monster is enough to go on with.
Peopled(map) == Size(map) # 0
Complete(map) == Size(map) >= Cardinality(Slots)

CheckSpawn ==
  /\ check # None /\ check <= 0
  /\ spawnedMap' = Reviewed
  /\ age' = ReviewedAge
  /\ coming' = coming \cup {[slot |-> s, left |-> Effects - 1, wait |-> Step] : s \in Chosen}
  /\ check' = IF Complete(Reviewed) THEN None ELSE NextCheck
  /\ overlooked' = FALSE

\* spawnMonster, with effects left to show; without, it places the monster.
ShowEffect(c) ==
  /\ c \in coming /\ c.wait <= 0 /\ c.left > 0
  /\ coming' = (coming \ {c}) \cup {[c EXCEPT !.left = @ - 1, !.wait = Step]}
  /\ UNCHANGED <<spawnedMap, age, check, overlooked>>

Arrive(c) ==
  /\ c \in coming /\ c.wait <= 0 /\ c.left = 0
  /\ Size(spawnedMap) < MaxMonsters
  /\ coming' = coming \ {c}
  /\ spawnedMap' = [spawnedMap EXCEPT ![c.slot]["inZone"] = @ + 1]
  /\ age' = [age EXCEPT ![c.slot] = 0]
  /\ UNCHANGED <<check, overlooked>>

\* placeCreature finds no place.
FailToArrive(c) ==
  /\ c \in coming /\ c.wait <= 0 /\ c.left = 0
  /\ coming' = coming \ {c}
  /\ UNCHANGED <<spawnedMap, age, check, overlooked>>

-----------------------------------------------------------------------------
(* What becomes of its monsters *)

Moved(id, from, to) ==
  /\ spawnedMap[id][from] > 0
  /\ spawnedMap' = [spawnedMap EXCEPT ![id][from] = @ - 1, ![id][to] = @ + 1]

Wander(id) ==
  /\ Moved(id, "inZone", "outside") \/ Moved(id, "outside", "inZone")
  /\ UNCHANGED <<age, check, coming, overlooked>>

\* Mutant: only the monster of a slot has the spawn look after it.
AskedBySlot(id) == IF check = None /\ id \in Slots THEN CheckInterval ELSE check
\* startEvent
Asked(id) == IF check = None THEN CheckInterval ELSE check

\* Killed or despawned: onCreatureDisappear.
Disappear(id) ==
  /\ Moved(id, "inZone", "removed") \/ Moved(id, "outside", "removed")
  /\ check' = Asked(id)
  /\ UNCHANGED <<age, coming, overlooked>>

\* convinceCreature takes the monster out of the spawn, which is not told.
Convince(id) ==
  /\ \E st \in {"inZone", "outside"} :
       /\ spawnedMap[id][st] > 0
       /\ spawnedMap' = [spawnedMap EXCEPT ![id][st] = @ - 1]
  /\ overlooked' = TRUE
  /\ UNCHANGED <<age, check, coming>>

\* No task is later than Lag.
Tick ==
  /\ check # None => check > -Lag
  /\ \A c \in coming : c.wait > -Lag
  /\ check' = IF check = None THEN None ELSE check - 1
  /\ coming' = {[c EXCEPT !.wait = @ - 1] : c \in coming}
  /\ age' = [s \in Slots |-> IF age[s] < Interval[s] THEN age[s] + 1 ELSE age[s]]
  /\ UNCHANGED <<spawnedMap, overlooked>>

Next ==
  \/ CheckSpawn
  \/ \E c \in coming : ShowEffect(c) \/ Arrive(c) \/ FailToArrive(c)
  \/ \E id \in Ids : Wander(id) \/ Disappear(id) \/ Convince(id)
  \/ Tick

\* Time goes on, tasks that are due are run, and a monster finds a place when
\* it is tried again and again: the tile exists, or addMonster had refused it.
Fairness ==
  /\ WF_vars(Tick) /\ WF_vars(CheckSpawn)
  /\ WF_vars(\E c \in coming : ShowEffect(c) \/ Arrive(c) \/ FailToArrive(c))
  /\ \A s \in Slots : SF_vars(\E c \in coming : c.slot = s /\ Arrive(c))

Spec == Init /\ [][Next]_vars /\ Fairness

-----------------------------------------------------------------------------
(* Properties *)

\* The type of every variable.
TypeOK ==
  /\ spawnedMap \in [Ids -> [States -> 0..MaxMonsters]]
  /\ age \in [Slots -> Nat] /\ \A s \in Slots : age[s] <= Interval[s]
  /\ check \in {None} \cup -Lag..CheckInterval
  /\ coming \subseteq [slot : Slots, left : 0..Effects - 1, wait : -Lag..Step]
  /\ overlooked \in BOOLEAN

\* A slot never has two monsters, nor one while another is announced for it:
\* the next look at it comes when the announced one is in the map.
OneMonsterPerSlot ==
  \A s \in Slots :
    Many(spawnedMap, s) + Cardinality({c \in coming : c.slot = s}) <= 1

\* The spawn stops looking after its slots only with as many monsters listed as
\* it has slots, unless a monster was convinced, or not placed at startup.
LooksWhileShort ==
  check = None /\ ~overlooked
    => /\ Size(spawnedMap) >= Cardinality(Slots)
       /\ \A id \in Ids : spawnedMap[id]["removed"] = 0

\* A slot without a monster gets one, as long as the spawn looks after it.  With
\* SpawnRate 1 that is so of the two slots of the lowest ids only: if their
\* monsters keep dying, one of the two is due whenever the spawn looks, and the
\* rest waits.
Alive(s) == spawnedMap[s]["inZone"] + spawnedMap[s]["outside"] > 0
ServedFirst(s) == Cardinality({t \in Slots : t < s}) <= SpawnRate
SlotRefilled ==
  \A s \in Slots : ServedFirst(s) => (~Alive(s) ~> Alive(s) \/ check = None)
=============================================================================
