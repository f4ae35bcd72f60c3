----------------------------- MODULE SpawnProofs -----------------------------
(***************************************************************************)
(* Theorems about a Spawn, for every set of slots, any intervals and any   *)
(* lateness of the tasks under which an announced monster has the time to  *)
(* arrive before the next look at its slot.                                *)
(***************************************************************************)
EXTENDS Spawn, SumLemmas

\* The ticks an announced monster may still take, every task as late as it gets.
Remaining(c) == c.wait + Lag + c.left * (Step + Lag)

\* The spawn does not look at its slots before all that is announced arrived.
ArrivesFirst == check # None => \A c \in coming : Remaining(c) < check

\* No slot has two monsters, two announced, or one of each.
Exclusive ==
  /\ \A s \in Slots : Many(spawnedMap, s) <= 1
  /\ \A c \in coming : Many(spawnedMap, c.slot) = 0
  /\ \A c, d \in coming : c.slot = d.slot => c = d

\* The counts of the slots are bounded because their sum is.
Bounded == Size(spawnedMap) <= MaxMonsters

-----------------------------------------------------------------------------
(* Times and counts *)

\* The least interval is one of them, and long enough for three effects.
LEMMA Intervals ==
  /\ CheckInterval \in Nat /\ CheckInterval > 3 * (Step + Lag)
  /\ Step \in Nat \ {0} /\ Lag \in Nat /\ Effects = 3
<1> DEFINE all == {DefaultInterval} \cup {Interval[s] : s \in Slots}
<1>1. all \subseteq Nat /\ all # {}
  BY SpawnAssumption
<1> HIDE DEF all
<1>2. PICK x \in all : \A y \in all : ~ (<<y, x>> \in OpToRel(<, Nat))
  BY <1>1, NatLessThanWellFounded, WFMin
<1>3. \A y \in all : x <= y
  <2>1. \A y \in all : ~ (y < x)
    BY <1>1, <1>2 DEF OpToRel
  <2>2. \A y \in all : y \in Nat /\ x \in Nat
    BY <1>1
  <2> QED BY <2>1, <2>2
<1>4. Min(all) \in all
  BY <1>3 DEF Min
<1>5. CheckInterval \in Nat
  BY <1>1, <1>4 DEF CheckInterval, all
<1> QED BY <1>5, SpawnAssumption DEF Effects

LEMMA FiniteIds == IsFiniteSet(Ids) /\ Slots \subseteq Ids /\ 0 \in Ids /\ 0 \notin Slots
  BY SpawnAssumption, FS_AddElement DEF Ids

Maps == [Ids -> [States -> Nat]]
Counts(map) == [id \in Ids |-> Many(map, id)]

LEMMA SizeOf ==
  ASSUME NEW map \in Maps
  PROVE  /\ Size(map) = SumFunctionOnSet(Counts(map), Ids) /\ Size(map) \in Nat
         /\ \A id \in Ids : /\ Counts(map)[id] = Many(map, id) /\ Many(map, id) \in Nat
                            /\ Many(map, id) <= Size(map)
                            /\ \A st \in States : map[id][st] <= Many(map, id)
<1>1. Size(map) = SumFunctionOnSet(Counts(map), Ids)
  BY DEF Size, SumFunction, Counts
<1>2. \A id \in Ids : /\ Counts(map)[id] = Many(map, id) /\ Many(map, id) \in Nat
                      /\ \A st \in States : map[id][st] <= Many(map, id)
  BY DEF Counts, Many, Maps, States
<1> QED BY <1>1, <1>2, FiniteIds, SumOfNaturals

LEMMA Within ==
  ASSUME NEW map \in Maps, Size(map) <= MaxMonsters
  PROVE  map \in [Ids -> [States -> 0..MaxMonsters]]
<1>1. \A id \in Ids, st \in States : map[id][st] \in 0..MaxMonsters
  <2> SUFFICES ASSUME NEW id \in Ids, NEW st \in States PROVE map[id][st] \in 0..MaxMonsters
    OBVIOUS
  <2>1. map[id][st] \in Nat
    BY DEF Maps
  <2>2. /\ map[id][st] <= Many(map, id) /\ Many(map, id) <= Size(map)
        /\ Many(map, id) \in Nat /\ Size(map) \in Nat
    BY SizeOf
  <2> QED BY <2>1, <2>2, SpawnAssumption
<1> QED BY <1>1 DEF Maps

\* Moving a monster from one state to another changes no count.
LEMMA MovedKeeps ==
  ASSUME spawnedMap \in Maps, NEW id \in Ids,
         NEW from \in States, NEW to \in States, from # to, Moved(id, from, to)
  PROVE  /\ spawnedMap' \in Maps
         /\ \A i \in Ids : Many(spawnedMap', i) = Many(spawnedMap, i)
         /\ Size(spawnedMap') = Size(spawnedMap)
<1>1. spawnedMap' \in Maps
  BY DEF Moved, Maps
<1>2. ASSUME NEW i \in Ids PROVE Many(spawnedMap', i) = Many(spawnedMap, i)
  <2>1. CASE i = id
    <3>1. spawnedMap'[id] = [spawnedMap[id] EXCEPT ![from] = @ - 1, ![to] = @ + 1]
      BY DEF Moved, Maps
    <3> QED BY <2>1, <3>1 DEF Many, Maps, States
  <2>2. CASE i # id
    BY <2>2 DEF Moved, Many, Maps
  <2> QED BY <2>1, <2>2
<1>3. Counts(spawnedMap') = Counts(spawnedMap)
  BY <1>2 DEF Counts
<1> QED BY <1>1, <1>2, <1>3, SizeOf

\* checkSpawn's cleaning keeps every monster it does not find removed.
LEMMA ReviewedCounts ==
  ASSUME spawnedMap \in Maps
  PROVE  /\ Reviewed \in Maps
         /\ Size(Reviewed) <= Size(spawnedMap)
         /\ \A s \in Slots : Many(Reviewed, s) <= Many(spawnedMap, s)
         /\ \A id \in Ids : Reviewed[id]["removed"] = 0
<1> DEFINE out == [id \in Ids |-> spawnedMap[id]["outside"]]
           inside == [id \in Ids |-> spawnedMap[id]["inZone"]]
           gone == [id \in Ids |-> spawnedMap[id]["removed"]]
           gathered == [id \in Ids |-> IF id = 0 THEN AllOutside ELSE 0]
           both == [id \in Ids |-> inside[id] + out[id]]
           Sum(f) == SumFunctionOnSet(f, Ids)
<1>1. \A id \in Ids : out[id] \in Nat /\ inside[id] \in Nat /\ gone[id] \in Nat
  BY DEF Maps, States
<1>2. AllOutside = Sum(out)
  BY DEF AllOutside, SumFunction
<1>3. AllOutside \in Nat
  BY <1>1, <1>2, FiniteIds, SumOfNaturals
<1>4. \A id \in Ids :
        Reviewed[id] = [Nobody EXCEPT !["inZone"] = inside[id],
                                      !["outside"] = gathered[id]]
  BY FiniteIds DEF Reviewed, Ids
<1>5. /\ Reviewed \in Maps
      /\ \A id \in Ids : Reviewed[id]["removed"] = 0
      /\ \A id \in Ids : Many(Reviewed, id) = inside[id] + gathered[id]
      /\ \A id \in Ids : Many(spawnedMap, id) = inside[id] + out[id] + gone[id]
  <2>1. \A id \in Ids : /\ Reviewed[id] \in [States -> Nat]
                        /\ Reviewed[id]["removed"] = 0
                        /\ Reviewed[id]["inZone"] = inside[id]
                        /\ Reviewed[id]["outside"] = gathered[id]
    <3>1. \A id \in Ids : inside[id] \in Nat /\ gathered[id] \in Nat
      BY <1>1, <1>3
    <3> HIDE DEF inside, gathered
    <3>2. ASSUME NEW id \in Ids
          PROVE  /\ Reviewed[id] \in [States -> Nat]
                 /\ Reviewed[id]["removed"] = 0
                 /\ Reviewed[id]["inZone"] = inside[id]
                 /\ Reviewed[id]["outside"] = gathered[id]
      <4>1. /\ inside[id] \in Nat /\ gathered[id] \in Nat
            /\ Reviewed[id] = [Nobody EXCEPT !["inZone"] = inside[id],
                                            !["outside"] = gathered[id]]
        BY <1>4, <3>1
      <4> QED BY <4>1 DEF Nobody, States
    <3> QED BY <3>2
  <2>2. Reviewed \in Maps
    BY <2>1 DEF Reviewed, Maps
  <2> QED BY <1>1, <1>3, <2>1, <2>2 DEF Many
<1>6. Sum(gathered) = Sum(out)
  <2>1. \A id \in Ids : gathered[id] \in Int
    BY <1>3
  <2>2. Sum(gathered) = gathered[0] + SumFunctionOnSet(gathered, Ids \ {0})
    BY <2>1, FiniteIds, SumSplit
  <2>3. SumFunctionOnSet(gathered, Ids \ {0}) = 0
    <3>1. IsFiniteSet(Ids \ {0}) /\ \A id \in Ids \ {0} : gathered[id] = 0
      BY FiniteIds, FS_RemoveElement
    <3> QED BY <3>1, SumOfZeros
  <2>4. gathered[0] = AllOutside
    BY FiniteIds
  <2> HIDE DEF gathered, out
  <2> QED BY <1>2, <1>3, <2>2, <2>3, <2>4
<1>7. Size(Reviewed) = Sum(inside) + Sum(gathered)
  <2>1. \A id \in Ids : /\ inside[id] \in Int /\ gathered[id] \in Int
                        /\ Counts(Reviewed)[id] = inside[id] + gathered[id]
    BY <1>1, <1>3, <1>5 DEF Counts
  <2> HIDE DEF inside, gathered
  <2> QED BY <1>5, <2>1, FiniteIds, SumOfTwo, SizeOf
<1>8. Sum(both) = Sum(inside) + Sum(out)
  <2>1. \A id \in Ids : inside[id] \in Int /\ out[id] \in Int /\ both[id] = inside[id] + out[id]
    BY <1>1
  <2> HIDE DEF inside, out, both
  <2> QED BY <2>1, FiniteIds, SumOfTwo
<1>9. Sum(both) <= Size(spawnedMap)
  <2>1. \A id \in Ids : /\ both[id] \in Int /\ Counts(spawnedMap)[id] \in Int
                        /\ both[id] <= Counts(spawnedMap)[id]
    BY <1>1, <1>5 DEF Counts
  <2> HIDE DEF both
  <2> QED BY <2>1, FiniteIds, SumAtMost, SizeOf
<1>10. \A s \in Slots : Many(Reviewed, s) <= Many(spawnedMap, s)
  <2>1. \A s \in Slots : s \in Ids /\ gathered[s] = 0
    BY FiniteIds
  <2> HIDE DEF gathered, inside, out, gone
  <2> QED BY <1>1, <1>5, <2>1
<1>11. Size(Reviewed) <= Size(spawnedMap)
  <2> HIDE DEF Sum
  <2> QED BY <1>6, <1>7, <1>8, <1>9
<1> QED BY <1>5, <1>10, <1>11

\* A change at one slot changes the size by as much.
LEMMA SizeChanged ==
  ASSUME NEW old \in Maps, NEW new \in Maps, NEW id \in Ids,
         \A i \in Ids : i # id => Many(new, i) = Many(old, i)
  PROVE  Size(new) = Size(old) + (Many(new, id) - Many(old, id))
<1> DEFINE before == Counts(old)
           after == Counts(new)
<1>1. /\ \A i \in Ids : before[i] \in Int /\ after[i] \in Int
      /\ \A i \in Ids \ {id} : before[i] = after[i]
  BY SizeOf
<1>2. /\ Size(old) = SumFunctionOnSet(before, Ids) /\ before[id] = Many(old, id)
      /\ Size(new) = SumFunctionOnSet(after, Ids) /\ after[id] = Many(new, id)
  BY SizeOf
<1> HIDE DEF before, after
<1>3. SumFunctionOnSet(after, Ids)
        = SumFunctionOnSet(before, Ids) + (after[id] - before[id])
  BY <1>1, FiniteIds, SumChanged
<1> QED BY <1>2, <1>3

\* A monster more, or less, in one state of one slot.
LEMMA CountChanged ==
  ASSUME spawnedMap \in Maps, NEW id \in Ids, NEW st \in States, NEW n \in Nat,
         spawnedMap' = [spawnedMap EXCEPT ![id][st] = n]
  PROVE  /\ spawnedMap' \in Maps
         /\ \A i \in Ids : i # id => Many(spawnedMap', i) = Many(spawnedMap, i)
         /\ Many(spawnedMap', id) = Many(spawnedMap, id) + (n - spawnedMap[id][st])
         /\ Size(spawnedMap') = Size(spawnedMap) + (n - spawnedMap[id][st])
<1>1. spawnedMap' \in Maps
  BY DEF Maps
<1>2. \A i \in Ids : i # id => Many(spawnedMap', i) = Many(spawnedMap, i)
  BY DEF Many, Maps
<1>3. Many(spawnedMap', id) = Many(spawnedMap, id) + (n - spawnedMap[id][st])
  <2>1. spawnedMap'[id] = [spawnedMap[id] EXCEPT ![st] = n]
    BY DEF Maps
  <2> QED BY <2>1 DEF Many, Maps, States
<1>4. Size(spawnedMap')
        = Size(spawnedMap) + (Many(spawnedMap', id) - Many(spawnedMap, id))
  <2> DEFINE new == spawnedMap'
  <2>1. new \in Maps /\ \A i \in Ids : i # id => Many(new, i) = Many(spawnedMap, i)
    BY <1>1, <1>2
  <2> HIDE DEF new
  <2>2. Size(new) = Size(spawnedMap) + (Many(new, id) - Many(spawnedMap, id))
    BY <2>1, SizeChanged
  <2> QED BY <2>2 DEF new
<1>5. spawnedMap[id][st] \in Nat /\ Many(spawnedMap, id) \in Nat
  BY SizeOf DEF Maps
<1> DEFINE many == Many(spawnedMap', id)
           size == Size(spawnedMap')
<1>6. many = Many(spawnedMap, id) + (n - spawnedMap[id][st])
  BY <1>3
<1>7. size = Size(spawnedMap) + (many - Many(spawnedMap, id)) /\ Size(spawnedMap) \in Nat
  BY <1>4, SizeOf
<1> HIDE DEF many, size
<1>8. size = Size(spawnedMap) + (n - spawnedMap[id][st])
  BY <1>5, <1>6, <1>7
<1>9. Size(spawnedMap') = Size(spawnedMap) + (n - spawnedMap[id][st])
  BY <1>8 DEF size
<1> QED BY <1>1, <1>2, <1>3, <1>9

\* With at most one monster for every slot there are not more than slots, and
\* with exactly one as many.
LEMMA OneEach ==
  ASSUME NEW map \in Maps, NEW placed \in SUBSET Slots,
         \A id \in Ids : Many(map, id) = IF id \in placed THEN 1 ELSE 0
  PROVE  /\ Size(map) <= Cardinality(Slots)
         /\ placed = Slots => Size(map) = Cardinality(Slots)
<1> DEFINE full == [id \in Ids |-> IF id = 0 THEN 0 ELSE 1]
           counted == Counts(map)
<1>1. SumFunctionOnSet(full, Ids) = Cardinality(Slots)
  <2>1. Ids \ {0} = Slots
    BY FiniteIds DEF Ids
  <2>2. \A id \in Ids : full[id] \in Int
    OBVIOUS
  <2>3. full[0] = 0 /\ \A s \in Slots : full[s] = 1
    BY FiniteIds
  <2> HIDE DEF full
  <2>4. SumFunctionOnSet(full, Ids) = full[0] + SumFunctionOnSet(full, Slots)
    BY <2>1, <2>2, FiniteIds, SumSplit
  <2>5. SumFunctionOnSet(full, Slots) = Cardinality(Slots)
    BY <2>3, SpawnAssumption, SumOfOnes
  <2>6. Cardinality(Slots) \in Nat
    BY SpawnAssumption, FS_CardinalityType
  <2> QED BY <2>3, <2>4, <2>5, <2>6
<1>2. \A id \in Ids : /\ counted[id] \in Int /\ full[id] \in Int
                      /\ counted[id] <= full[id]
                      /\ placed = Slots => full[id] <= counted[id]
  <2>1. \A id \in Ids : counted[id] = IF id \in placed THEN 1 ELSE 0
    BY DEF Counts
  <2> QED BY <2>1, FiniteIds DEF Ids
<1>3. Size(map) = SumFunctionOnSet(counted, Ids) /\ Size(map) \in Nat
  BY SizeOf
<1> HIDE DEF counted, full
<1>4. SumFunctionOnSet(counted, Ids) <= SumFunctionOnSet(full, Ids)
  <2>1. \A id \in Ids : counted[id] \in Int /\ full[id] \in Int /\ counted[id] <= full[id]
    BY <1>2
  <2> QED BY <2>1, FiniteIds, SumAtMost
<1>5. ASSUME placed = Slots
      PROVE  SumFunctionOnSet(full, Ids) <= SumFunctionOnSet(counted, Ids)
  <2>1. \A id \in Ids : full[id] \in Int /\ counted[id] \in Int /\ full[id] <= counted[id]
    BY <1>2, <1>5
  <2> QED BY <2>1, FiniteIds, SumAtMost
<1>6. Cardinality(Slots) \in Nat
  BY SpawnAssumption, FS_CardinalityType
<1> QED BY <1>1, <1>3, <1>4, <1>5, <1>6

\* So it is at startup.
LEMMA StartupCounts ==
  ASSUME NEW placed \in SUBSET Slots,
         spawnedMap = [id \in Ids |-> [Nobody EXCEPT
                          !["inZone"] = IF id \in placed THEN 1 ELSE 0]]
  PROVE  /\ spawnedMap \in Maps
         /\ \A id \in Ids : /\ Many(spawnedMap, id) = IF id \in placed THEN 1 ELSE 0
                            /\ spawnedMap[id]["removed"] = 0
         /\ Size(spawnedMap) <= Cardinality(Slots)
         /\ placed = Slots => Size(spawnedMap) = Cardinality(Slots)
<1>1. ASSUME NEW id \in Ids
      PROVE  /\ spawnedMap[id] \in [States -> Nat]
             /\ spawnedMap[id]["removed"] = 0
             /\ Many(spawnedMap, id) = IF id \in placed THEN 1 ELSE 0
  <2>1. spawnedMap[id] = [Nobody EXCEPT !["inZone"] = IF id \in placed THEN 1 ELSE 0]
    OBVIOUS
  <2> QED BY <2>1 DEF Nobody, States, Many
<1>2. spawnedMap \in Maps
  BY <1>1 DEF Maps
<1> QED BY <1>1, <1>2, OneEach

-----------------------------------------------------------------------------
(* The type *)

Kinds == [slot : Slots, left : 0..Effects - 1, wait : -Lag..Step]

LEMMA Records ==
  ASSUME coming \subseteq Kinds
  PROVE  \A c \in coming :
           /\ c.slot \in Slots /\ c.slot \in Ids
           /\ c.left \in 0..2 /\ c.wait \in Int /\ -Lag <= c.wait /\ c.wait <= Step
           /\ c = [slot |-> c.slot, left |-> c.left, wait |-> c.wait]
<1>1. \A c \in coming : /\ c.slot \in Slots /\ c.left \in 0..Effects - 1
                        /\ c.wait \in -Lag..Step
                        /\ c = [slot |-> c.slot, left |-> c.left, wait |-> c.wait]
  BY DEF Kinds
<1> QED BY <1>1, FiniteIds, Intervals

\* What a task makes of the announced monster, field by field.
LEMMA Changed ==
  ASSUME NEW c \in Kinds, NEW n \in 0..Effects - 1, NEW w \in -Lag..Step
  PROVE  /\ [c EXCEPT !.left = n, !.wait = w] \in Kinds
         /\ [c EXCEPT !.left = n, !.wait = w].slot = c.slot
         /\ [c EXCEPT !.left = n, !.wait = w].left = n
         /\ [c EXCEPT !.left = n, !.wait = w].wait = w
         /\ [c EXCEPT !.wait = w] \in Kinds
         /\ [c EXCEPT !.wait = w].slot = c.slot
         /\ [c EXCEPT !.wait = w].left = c.left
         /\ [c EXCEPT !.wait = w].wait = w
  BY DEF Kinds

\* How the counts change: what moves keeps them, what arrives adds one, what is
\* convinced takes one, and nothing else grows.
LEMMA MapsFromType ==
  ASSUME TypeOK
  PROVE  spawnedMap \in Maps
<1>1. 0..MaxMonsters \subseteq Nat
  BY SpawnAssumption
<1> QED BY <1>1 DEF TypeOK, Maps

LEMMA ArriveCounts ==
  ASSUME TypeOK, NEW c \in coming, Arrive(c)
  PROVE  /\ spawnedMap' \in Maps
         /\ \A i \in Ids : i # c.slot => Many(spawnedMap', i) = Many(spawnedMap, i)
         /\ Many(spawnedMap', c.slot) = Many(spawnedMap, c.slot) + 1
         /\ Size(spawnedMap') = Size(spawnedMap) + 1
         /\ \A i \in Ids : spawnedMap'[i]["removed"] = spawnedMap[i]["removed"]
<1> DEFINE slot == c.slot
           n == spawnedMap[slot]["inZone"] + 1
<1>1. slot \in Ids /\ spawnedMap \in Maps
  BY Records, MapsFromType DEF TypeOK, Kinds
<1>2. n \in Nat /\ spawnedMap[slot]["inZone"] \in Nat /\ "inZone" \in States
  BY <1>1 DEF Maps, States
<1>3. spawnedMap' = [spawnedMap EXCEPT ![slot]["inZone"] = n]
  BY DEF Arrive
<1>4. n - spawnedMap[slot]["inZone"] = 1
  BY <1>2
<1>5. \A i \in Ids : spawnedMap'[i]["removed"] = spawnedMap[i]["removed"]
  BY <1>1, <1>3 DEF Maps, States
<1> HIDE DEF n, slot
<1>6. /\ spawnedMap' \in Maps
      /\ \A i \in Ids : i # slot => Many(spawnedMap', i) = Many(spawnedMap, i)
      /\ Many(spawnedMap', slot) = Many(spawnedMap, slot) + (n - spawnedMap[slot]["inZone"])
      /\ Size(spawnedMap') = Size(spawnedMap) + (n - spawnedMap[slot]["inZone"])
  BY <1>1, <1>2, <1>3, CountChanged
<1> QED BY <1>4, <1>5, <1>6 DEF slot

LEMMA ConvinceCounts ==
  ASSUME TypeOK, NEW id \in Ids, Convince(id)
  PROVE  /\ spawnedMap' \in Maps
         /\ \A i \in Ids : Many(spawnedMap', i) <= Many(spawnedMap, i)
         /\ Size(spawnedMap') <= Size(spawnedMap)
<1>1. spawnedMap \in Maps
  BY MapsFromType
<1>2. PICK st \in {"inZone", "outside"} :
        /\ spawnedMap[id][st] > 0
        /\ spawnedMap' = [spawnedMap EXCEPT ![id][st] = @ - 1]
  BY DEF Convince
<1> DEFINE n == spawnedMap[id][st] - 1
<1>3. st \in States /\ spawnedMap[id][st] \in Nat /\ n \in Nat
  BY <1>1, <1>2 DEF Maps, States
<1>4. spawnedMap' = [spawnedMap EXCEPT ![id][st] = n]
  BY <1>2
<1>5. n - spawnedMap[id][st] = -1
  BY <1>3
<1> HIDE DEF n
<1>6. /\ spawnedMap' \in Maps
      /\ \A i \in Ids : i # id => Many(spawnedMap', i) = Many(spawnedMap, i)
      /\ Many(spawnedMap', id) = Many(spawnedMap, id) + (n - spawnedMap[id][st])
      /\ Size(spawnedMap') = Size(spawnedMap) + (n - spawnedMap[id][st])
  BY <1>1, <1>3, <1>4, CountChanged
<1>7. Size(spawnedMap) \in Nat /\ \A i \in Ids : Many(spawnedMap, i) \in Nat
  BY <1>1, SizeOf
<1> DEFINE new == spawnedMap'
<1>8. /\ new \in Maps
      /\ \A i \in Ids : i # id => Many(new, i) = Many(spawnedMap, i)
      /\ Many(new, id) = Many(spawnedMap, id) - 1
      /\ Size(new) = Size(spawnedMap) - 1
  BY <1>5, <1>6, <1>7
<1> HIDE DEF new
<1>9. /\ \A i \in Ids : Many(new, i) <= Many(spawnedMap, i)
      /\ Size(new) <= Size(spawnedMap)
  BY <1>7, <1>8
<1> QED BY <1>8, <1>9 DEF new

\* The steps that only move monsters, all of them named with the two states.
LEMMA MovingSteps ==
  ASSUME TypeOK, NEW id \in Ids, Wander(id) \/ Disappear(id)
  PROVE  /\ spawnedMap' \in Maps
         /\ \A i \in Ids : Many(spawnedMap', i) = Many(spawnedMap, i)
         /\ Size(spawnedMap') = Size(spawnedMap)
<1>1. PICK from \in States, to \in States : from # to /\ Moved(id, from, to)
  BY DEF Wander, Disappear, States
<1> QED BY <1>1, MapsFromType, MovedKeeps

LEMMA TypeInit == Init => TypeOK /\ Bounded
<1> SUFFICES ASSUME Init PROVE TypeOK /\ Bounded
  OBVIOUS
<1>1. PICK placed \in SUBSET Slots :
        /\ spawnedMap = [id \in Ids |-> [Nobody EXCEPT
                            !["inZone"] = IF id \in placed THEN 1 ELSE 0]]
        /\ age = [s \in Slots |-> IF s \in placed THEN 0 ELSE Interval[s]]
        /\ check = None /\ coming = {}
        /\ overlooked = (placed # Slots)
  BY DEF Init
<1>2. /\ spawnedMap \in Maps /\ Size(spawnedMap) <= Cardinality(Slots)
  BY <1>1, StartupCounts
<1>3. Size(spawnedMap) \in Nat
  BY <1>2, SizeOf
<1>4. Cardinality(Slots) \in Nat /\ Cardinality(Slots) <= MaxMonsters /\ MaxMonsters \in Nat
  BY SpawnAssumption, FS_CardinalityType
<1>5. Size(spawnedMap) <= MaxMonsters
  BY <1>2, <1>3, <1>4
<1>6. age \in [Slots -> Nat] /\ \A s \in Slots : age[s] <= Interval[s]
  BY <1>1, SpawnAssumption
<1>7. spawnedMap \in [Ids -> [States -> 0..MaxMonsters]]
  BY <1>2, <1>5, Within
<1> QED BY <1>1, <1>5, <1>6, <1>7 DEF TypeOK, Bounded

LEMMA TypeStep == TypeOK /\ Bounded /\ [Next]_vars => TypeOK' /\ Bounded'
<1> SUFFICES ASSUME TypeOK, Bounded, [Next]_vars PROVE TypeOK' /\ Bounded'
  OBVIOUS
<1> USE Intervals
<1>0. /\ spawnedMap \in Maps /\ Size(spawnedMap) \in Nat /\ Size(spawnedMap) <= MaxMonsters
      /\ MaxMonsters \in Nat /\ coming \subseteq Kinds
  BY MapsFromType, SizeOf, SpawnAssumption DEF TypeOK, Bounded, Kinds
<1>r. \A c \in coming :
        /\ c.slot \in Slots /\ c.slot \in Ids
        /\ c.left \in 0..2 /\ c.wait \in Int /\ -Lag <= c.wait /\ c.wait <= Step
        /\ c = [slot |-> c.slot, left |-> c.left, wait |-> c.wait]
  BY <1>0, Records
<1> DEFINE Fits == spawnedMap' \in Maps /\ Size(spawnedMap') <= MaxMonsters
<1>m. ASSUME Fits PROVE spawnedMap' \in [Ids -> [States -> 0..MaxMonsters]] /\ Bounded'
  <2> DEFINE new == spawnedMap'
  <2>1. new \in Maps /\ Size(new) <= MaxMonsters
    BY <1>m
  <2> HIDE DEF new
  <2>2. new \in [Ids -> [States -> 0..MaxMonsters]]
    BY <2>1, Within
  <2> QED BY <2>1, <2>2 DEF new, Bounded
<1>1. CASE CheckSpawn
  <2>1. Fits
    <3>1. /\ Reviewed \in Maps /\ Size(Reviewed) <= Size(spawnedMap)
      BY <1>0, ReviewedCounts
    <3>2. Size(Reviewed) \in Nat
      BY <3>1, SizeOf
    <3> DEFINE new == Reviewed
    <3>3. new \in Maps /\ Size(new) \in Nat /\ Size(new) <= Size(spawnedMap)
      BY <3>1, <3>2
    <3> HIDE DEF new
    <3>4. Size(new) <= MaxMonsters
      BY <1>0, <3>3
    <3> QED BY <3>3, <3>4, <1>1 DEF CheckSpawn, new
  <2>2. age' \in [Slots -> Nat] /\ \A s \in Slots : age'[s] <= Interval[s]
    BY <1>1, SpawnAssumption DEF CheckSpawn, ReviewedAge, TypeOK
  <2>3. check' \in {None} \cup -Lag..CheckInterval
    <3>1. CheckInterval \in -Lag..CheckInterval
      OBVIOUS
    <3> QED BY <1>1, <3>1 DEF CheckSpawn, NextCheck
  <2>4. coming' \subseteq Kinds
    <3>1. 2 \in 0..Effects - 1 /\ Step \in -Lag..Step /\ Effects - 1 = 2
      OBVIOUS
    <3>2. \A s \in Chosen : s \in Slots
      BY DEF Chosen
    <3>3. \A s \in Chosen : [slot |-> s, left |-> Effects - 1, wait |-> Step] \in Kinds
      BY <3>1, <3>2 DEF Kinds
    <3> QED BY <1>0, <1>1, <3>3 DEF CheckSpawn
  <2> QED BY <1>1, <1>m, <2>1, <2>2, <2>3, <2>4 DEF CheckSpawn, TypeOK, Kinds
<1>2. ASSUME NEW c \in coming, ShowEffect(c) PROVE TypeOK' /\ Bounded'
  <2>1. coming' \subseteq Kinds
    <3>1. c \in Kinds /\ c.left - 1 \in 0..Effects - 1 /\ Step \in -Lag..Step
      BY <1>0, <1>2, <1>r DEF ShowEffect
    <3>3. [c EXCEPT !.left = c.left - 1, !.wait = Step] \in Kinds
      BY <3>1, Changed
    <3> QED BY <1>0, <1>2, <3>3 DEF ShowEffect
  <2> QED BY <1>2, <2>1 DEF ShowEffect, TypeOK, Kinds, Bounded
<1>3. ASSUME NEW c \in coming, Arrive(c) PROVE TypeOK' /\ Bounded'
  <2>1. Fits
    <3> DEFINE new == spawnedMap'
    <3>1. new \in Maps /\ Size(new) = Size(spawnedMap) + 1
      BY <1>3, ArriveCounts
    <3>2. Size(spawnedMap) < MaxMonsters
      BY <1>3 DEF Arrive
    <3> HIDE DEF new
    <3>3. Size(new) <= MaxMonsters
      BY <1>0, <3>1, <3>2
    <3> QED BY <3>1, <3>3 DEF new
  <2>2. age' \in [Slots -> Nat] /\ \A s \in Slots : age'[s] <= Interval[s]
    <3> DEFINE slot == c.slot
    <3>1. slot \in Slots /\ Interval \in [Slots -> Nat] /\ age' = [age EXCEPT ![slot] = 0]
      BY <1>3, <1>r, SpawnAssumption DEF Arrive
    <3>2. age \in [Slots -> Nat] /\ \A s \in Slots : age[s] <= Interval[s]
      BY DEF TypeOK
    <3> HIDE DEF slot
    <3> QED BY <3>1, <3>2
  <2>3. coming' \subseteq Kinds /\ check' = check /\ overlooked' = overlooked
    BY <1>0, <1>3 DEF Arrive
  <2> QED BY <1>m, <2>1, <2>2, <2>3 DEF TypeOK, Kinds
<1>4. ASSUME NEW c \in coming, FailToArrive(c) PROVE TypeOK' /\ Bounded'
  BY <1>4 DEF FailToArrive, TypeOK, Bounded
<1>5. ASSUME NEW id \in Ids, Wander(id) \/ Disappear(id) PROVE TypeOK' /\ Bounded'
  <2>1. Fits
    BY <1>0, <1>5, MovingSteps
  <2>2. CheckInterval \in -Lag..CheckInterval
    OBVIOUS
  <2>3. check' \in {None} \cup -Lag..CheckInterval
    BY <1>5, <2>2 DEF Wander, Disappear, Asked, TypeOK
  <2>4. UNCHANGED <<age, coming, overlooked>>
    BY <1>5 DEF Wander, Disappear
  <2> QED BY <1>m, <2>1, <2>3, <2>4 DEF TypeOK
<1>6. ASSUME NEW id \in Ids, Convince(id) PROVE TypeOK' /\ Bounded'
  <2>1. Fits
    <3> DEFINE new == spawnedMap'
    <3>1. new \in Maps /\ Size(new) <= Size(spawnedMap)
      BY <1>6, ConvinceCounts
    <3> HIDE DEF new
    <3>2. Size(new) \in Nat
      BY <3>1, SizeOf
    <3>3. Size(new) <= MaxMonsters
      BY <1>0, <3>1, <3>2
    <3> QED BY <3>1, <3>3 DEF new
  <2>2. UNCHANGED <<age, check, coming>> /\ overlooked' = TRUE
    BY <1>6 DEF Convince
  <2> QED BY <1>m, <2>1, <2>2 DEF TypeOK
<1>7. CASE Tick
  <2>1. age' \in [Slots -> Nat] /\ \A s \in Slots : age'[s] <= Interval[s]
    BY <1>7, SpawnAssumption DEF Tick, TypeOK
  <2>2. check' \in {None} \cup -Lag..CheckInterval
    BY <1>7, SpawnAssumption DEF Tick, TypeOK
  <2>3. coming' \subseteq Kinds
    <3>1. ASSUME NEW c \in coming PROVE [c EXCEPT !.wait = @ - 1] \in Kinds
      <4>1. c.wait > -Lag
        BY <1>7 DEF Tick
      <4>2. c \in Kinds /\ c.wait - 1 \in -Lag..Step /\ c.left \in 0..Effects - 1
        BY <1>0, <1>r, <4>1
      <4> QED BY <4>2, Changed
    <3> QED BY <1>7, <3>1 DEF Tick
  <2> QED BY <1>7, <2>1, <2>2, <2>3 DEF Tick, TypeOK, Kinds, Bounded
<1>8. CASE UNCHANGED vars
  BY <1>8 DEF vars, TypeOK, Bounded
<1> QED BY <1>1, <1>2, <1>3, <1>4, <1>5, <1>6, <1>7, <1>8 DEF Next

\* Every variable keeps its type, and the spawn its bound on the monsters.
THEOREM TypeCorrect == Spec => []TypeOK
<1>1. Init => TypeOK /\ Bounded
  BY TypeInit
<1>2. TypeOK /\ Bounded /\ [Next]_vars => TypeOK' /\ Bounded'
  BY TypeStep
<1> QED BY <1>1, <1>2, PTL DEF Spec

-----------------------------------------------------------------------------
(* One monster for every slot *)

\* What is announced takes no longer than three effects and their delays.
LEMMA RemainingBound ==
  ASSUME coming \subseteq Kinds
  PROVE  \A c \in coming :
           /\ Remaining(c) \in Nat /\ Remaining(c) <= 3 * (Step + Lag)
           /\ Remaining(c) < CheckInterval
<1> SUFFICES ASSUME NEW c \in coming
             PROVE  /\ Remaining(c) \in Nat /\ Remaining(c) <= 3 * (Step + Lag)
                    /\ Remaining(c) < CheckInterval
  OBVIOUS
<1>1. /\ c.left \in 0..2 /\ c.wait \in Int /\ -Lag <= c.wait /\ c.wait <= Step
  BY Records
<1>2. /\ c.left = 0 => c.left * (Step + Lag) = 0
      /\ c.left = 1 => c.left * (Step + Lag) = Step + Lag
      /\ c.left = 2 => c.left * (Step + Lag) = 2 * (Step + Lag)
  BY Intervals
<1> QED BY <1>1, <1>2, Intervals DEF Remaining

LEMMA NothingComingWhenDue ==
  ASSUME TypeOK, ArrivesFirst, check # None, check <= 0
  PROVE  coming = {}
<1>1. coming \subseteq Kinds /\ check \in Int
  BY Intervals DEF TypeOK, Kinds
<1>2. \A c \in coming : Remaining(c) \in Nat /\ Remaining(c) < check
  BY <1>1, RemainingBound DEF ArrivesFirst
<1> QED BY <1>1, <1>2

LEMMA ArrivesFirstStep == TypeOK /\ TypeOK' /\ ArrivesFirst /\ [Next]_vars => ArrivesFirst'
<1> SUFFICES ASSUME TypeOK, TypeOK', ArrivesFirst, [Next]_vars, check' # None,
                    NEW d \in coming'
             PROVE  Remaining(d) < check'
  BY DEF ArrivesFirst, Remaining
<1>0. /\ coming \subseteq Kinds /\ coming' \subseteq Kinds
      /\ check # None => check \in Int
      /\ check' \in Int /\ None \notin Int
  BY Intervals, SpawnAssumption DEF TypeOK, Kinds
<1>a. Remaining(d) \in Nat /\ Remaining(d) < CheckInterval
  <2> DEFINE now == coming'
  <2>1. now \subseteq Kinds /\ d \in now
    BY <1>0
  <2> HIDE DEF now
  <2>2. /\ d.left \in 0..2 /\ d.wait \in Int /\ -Lag <= d.wait /\ d.wait <= Step
    <3>1. d \in Kinds
      BY <2>1
    <3> QED BY <3>1, Intervals DEF Kinds
  <2>3. /\ d.left = 0 => d.left * (Step + Lag) = 0
        /\ d.left = 1 => d.left * (Step + Lag) = Step + Lag
        /\ d.left = 2 => d.left * (Step + Lag) = 2 * (Step + Lag)
    BY Intervals
  <2> QED BY <2>2, <2>3, Intervals DEF Remaining
<1>1. CASE CheckSpawn
  BY <1>1, <1>a DEF CheckSpawn, NextCheck
<1>2. ASSUME NEW c \in coming, ShowEffect(c) PROVE Remaining(d) < check'
  <2>1. /\ check' = check /\ c.wait <= 0 /\ c.left > 0
        /\ coming' = (coming \ {c}) \cup {[c EXCEPT !.left = @ - 1, !.wait = Step]}
    BY <1>2 DEF ShowEffect
  <2>2. CASE d \in coming
    BY <2>1, <2>2 DEF ArrivesFirst
  <2>3. CASE d = [c EXCEPT !.left = @ - 1, !.wait = Step]
    <3>1. /\ c \in Kinds /\ c.left \in 1..2 /\ c.wait \in Int /\ -Lag <= c.wait
      BY <1>0, <2>1, Records
    <3>2. c.left - 1 \in 0..Effects - 1 /\ Step \in -Lag..Step
      BY <3>1, Intervals
    <3> DEFINE e == [c EXCEPT !.left = @ - 1, !.wait = Step]
    <3>e. e.left = c.left - 1 /\ e.wait = Step
      BY <3>1, <3>2 DEF Kinds
    <3>d. d = e
      BY <2>3
    <3> HIDE DEF e
    <3>3. d.left = c.left - 1 /\ d.wait = Step
      BY <3>e, <3>d
    <3>4. /\ c.left = 1 => c.left * (Step + Lag) = Step + Lag
          /\ c.left = 2 => c.left * (Step + Lag) = 2 * (Step + Lag)
          /\ d.left = 0 => d.left * (Step + Lag) = 0
          /\ d.left = 1 => d.left * (Step + Lag) = Step + Lag
      BY Intervals
    <3>5. Remaining(d) <= Remaining(c)
      BY <3>1, <3>3, <3>4, Intervals DEF Remaining
    <3>6. Remaining(c) < check /\ Remaining(c) \in Nat
      BY <1>0, <2>1, RemainingBound DEF ArrivesFirst
    <3> QED BY <1>0, <1>a, <2>1, <3>5, <3>6
  <2> QED BY <2>1, <2>2, <2>3
<1>3. ASSUME NEW c \in coming, Arrive(c) \/ FailToArrive(c) PROVE Remaining(d) < check'
  BY <1>3 DEF Arrive, FailToArrive, ArrivesFirst
<1>4. ASSUME NEW id \in Ids, Wander(id) \/ Disappear(id) \/ Convince(id)
      PROVE  Remaining(d) < check'
  <2>1. coming' = coming /\ (check' = check \/ check' = CheckInterval)
    BY <1>4 DEF Wander, Disappear, Convince, Asked
  <2> QED BY <1>a, <2>1 DEF ArrivesFirst
<1>5. CASE Tick
  <2>1. /\ check # None /\ check' = check - 1
        /\ \A c \in coming : c.wait > -Lag
        /\ coming' = {[c EXCEPT !.wait = @ - 1] : c \in coming}
    BY <1>5 DEF Tick
  <2>2. PICK c \in coming : d = [c EXCEPT !.wait = @ - 1]
    BY <2>1
  <2>3. /\ c \in Kinds /\ c.left \in 0..Effects - 1 /\ c.wait \in Int /\ c.left \in 0..2
        /\ c.wait - 1 \in -Lag..Step
    BY <1>0, <2>1, Records, Intervals
  <2>4. d.left = c.left /\ d.wait = c.wait - 1
    BY <2>2, <2>3, Changed
  <2>5. c.left * (Step + Lag) \in Int
    BY <2>3, Intervals
  <2>6. Remaining(d) = Remaining(c) - 1
    BY <2>3, <2>4, <2>5, Intervals DEF Remaining
  <2>7. Remaining(c) < check /\ Remaining(c) \in Nat
    BY <1>0, <2>1, RemainingBound DEF ArrivesFirst
  <2> QED BY <1>0, <2>1, <2>6, <2>7
<1>6. CASE UNCHANGED vars
  BY <1>6 DEF vars, ArrivesFirst
<1> QED BY <1>1, <1>2, <1>3, <1>4, <1>5, <1>6 DEF Next

LEMMA ExclusiveStep ==
  TypeOK /\ ArrivesFirst /\ Exclusive /\ [Next]_vars => Exclusive'
<1> SUFFICES ASSUME TypeOK, ArrivesFirst, Exclusive, [Next]_vars PROVE Exclusive'
  OBVIOUS
<1>0. /\ coming \subseteq Kinds /\ spawnedMap \in Maps
      /\ \A id \in Ids : Many(spawnedMap, id) \in Nat
      /\ \A c \in coming : c.slot \in Slots /\ c.slot \in Ids
      /\ Slots \subseteq Ids
  <2>1. coming \subseteq Kinds /\ spawnedMap \in Maps
    BY MapsFromType DEF TypeOK, Kinds
  <2> QED BY <2>1, SizeOf, Records, FiniteIds
<1> DEFINE new == spawnedMap'
           now == coming'
           Good == /\ \A s \in Slots : Many(new, s) <= 1
                   /\ \A c \in now : Many(new, c.slot) = 0
                   /\ \A c, d \in now : c.slot = d.slot => c = d
<1>g. SUFFICES Good
  BY DEF Exclusive, Many
<1>e. /\ \A s \in Slots : Many(spawnedMap, s) <= 1
      /\ \A c \in coming : Many(spawnedMap, c.slot) = 0
      /\ \A c, d \in coming : c.slot = d.slot => c = d
  BY DEF Exclusive
<1>1. CASE CheckSpawn
  <2>1. coming = {}
    BY <1>1, NothingComingWhenDue DEF CheckSpawn
  <2>2. /\ new = Reviewed
        /\ now = {[slot |-> s, left |-> Effects - 1, wait |-> Step] : s \in Chosen}
    BY <1>1, <2>1 DEF CheckSpawn
  <2>3. /\ \A s \in Slots : Many(Reviewed, s) <= Many(spawnedMap, s)
        /\ \A s \in Slots : Many(Reviewed, s) \in Nat
    BY <1>0, ReviewedCounts, SizeOf
  <2>4. \A s \in Chosen : s \in Slots /\ Many(Reviewed, s) = 0
    BY DEF Chosen, Due
  <2>5. \A c \in now : c.slot \in Chosen
                       /\ c = [slot |-> c.slot, left |-> Effects - 1, wait |-> Step]
    BY <2>2
  <2>6. \A c, d \in now : c.slot = d.slot => c = d
    <3> HIDE DEF now
    <3> QED BY <2>5
  <2>7. \A s \in Slots : Many(Reviewed, s) <= 1
    <3> SUFFICES ASSUME NEW s \in Slots PROVE Many(Reviewed, s) <= 1
      OBVIOUS
    <3> DEFINE m == Many(Reviewed, s)
               n == Many(spawnedMap, s)
    <3>1. m <= n /\ n <= 1 /\ m \in Nat /\ n \in Nat
      BY <1>0, <1>e, <2>3
    <3> HIDE DEF m, n
    <3>2. m <= 1
      BY <3>1
    <3> QED BY <3>2 DEF m
  <2>8. \A c \in now : Many(Reviewed, c.slot) = 0
    BY <2>4, <2>5
  <2> HIDE DEF now
  <2>9. new = Reviewed
    BY <2>2
  <2> QED BY <2>6, <2>7, <2>8, <2>9
<1>2. ASSUME NEW c \in coming, ShowEffect(c) PROVE Good
  <2> DEFINE e == [c EXCEPT !.left = @ - 1, !.wait = Step]
  <2>1. /\ new = spawnedMap /\ now = (coming \ {c}) \cup {e}
    BY <1>2 DEF ShowEffect
  <2>2. e.slot = c.slot
    <3>1. c \in Kinds /\ c.left \in 1..2
      BY <1>0, <1>2, Records DEF ShowEffect
    <3>2. c.left - 1 \in 0..Effects - 1 /\ Step \in -Lag..Step
      BY <3>1, Intervals
    <3> QED BY <3>1, <3>2 DEF Kinds
  <2> HIDE DEF e, now, new
  <2>3. /\ \A s \in Slots : Many(new, s) <= 1
        /\ \A d \in now : Many(new, d.slot) = 0
    BY <1>e, <2>1, <2>2
  <2>4. \A d, f \in now : d.slot = f.slot => d = f
    BY <1>e, <2>1, <2>2
  <2> QED BY <2>3, <2>4
<1>3. ASSUME NEW c \in coming, Arrive(c) PROVE Good
  <2>1. now = coming \ {c}
    BY <1>3 DEF Arrive
  <2>2. /\ \A i \in Ids : i # c.slot => Many(new, i) = Many(spawnedMap, i)
        /\ Many(new, c.slot) = Many(spawnedMap, c.slot) + 1
    BY <1>3, ArriveCounts
  <2>3. Many(spawnedMap, c.slot) = 0
    BY <1>e
  <2>4. Many(new, c.slot) = 1
    BY <2>2, <2>3
  <2> HIDE DEF new, now
  <2>5. \A s \in Slots : Many(new, s) <= 1
    <3> SUFFICES ASSUME NEW s \in Slots PROVE Many(new, s) <= 1
      OBVIOUS
    <3>1. CASE s = c.slot
      BY <2>4, <3>1
    <3>2. CASE s # c.slot
      <4>1. Many(new, s) = Many(spawnedMap, s)
        BY <1>0, <2>2, <3>2
      <4> QED BY <1>e, <4>1
    <3> QED BY <3>1, <3>2
  <2>6. \A d \in now : Many(new, d.slot) = 0
    <3> SUFFICES ASSUME NEW d \in now PROVE Many(new, d.slot) = 0
      OBVIOUS
    <3>1. d \in coming /\ d.slot # c.slot
      BY <1>e, <2>1
    <3>2. Many(new, d.slot) = Many(spawnedMap, d.slot)
      BY <1>0, <2>2, <3>1
    <3> QED BY <1>e, <3>1, <3>2
  <2>7. \A d, f \in now : d.slot = f.slot => d = f
    BY <1>e, <2>1
  <2> QED BY <2>5, <2>6, <2>7
<1>4. ASSUME NEW c \in coming, FailToArrive(c) PROVE Good
  <2>1. now \subseteq coming /\ new = spawnedMap
    BY <1>4 DEF FailToArrive
  <2> HIDE DEF now, new
  <2> QED BY <1>e, <2>1
<1>5. ASSUME NEW id \in Ids, Wander(id) \/ Disappear(id) PROVE Good
  <2>1. now = coming
    BY <1>5 DEF Wander, Disappear
  <2>2. \A i \in Ids : Many(new, i) = Many(spawnedMap, i)
    BY <1>5, MovingSteps
  <2> HIDE DEF now, new
  <2>3. \A i \in Slots : Many(new, i) = Many(spawnedMap, i)
    BY <1>0, <2>2
  <2>4. \A s \in Slots : Many(new, s) <= 1
    <3> SUFFICES ASSUME NEW s \in Slots PROVE Many(new, s) <= 1
      OBVIOUS
    <3>1. Many(new, s) = Many(spawnedMap, s) /\ Many(spawnedMap, s) <= 1
      BY <1>e, <2>3
    <3> QED BY <3>1
  <2>5. \A c \in now : Many(new, c.slot) = 0
    BY <1>0, <1>e, <2>1, <2>3
  <2> QED BY <1>e, <2>1, <2>4, <2>5
<1>6. ASSUME NEW id \in Ids, Convince(id) PROVE Good
  <2>1. now = coming
    BY <1>6 DEF Convince
  <2>2. /\ \A i \in Ids : Many(new, i) <= Many(spawnedMap, i)
        /\ new \in Maps
    BY <1>6, ConvinceCounts
  <2> HIDE DEF now, new
  <2>3. \A i \in Ids : Many(new, i) \in Nat
    BY <2>2, SizeOf
  <2>4. ASSUME NEW s \in Slots
        PROVE  Many(new, s) <= 1 /\ (Many(spawnedMap, s) = 0 => Many(new, s) = 0)
    <3> DEFINE m == Many(new, s)
               n == Many(spawnedMap, s)
    <3>1. m <= n /\ n <= 1 /\ m \in Nat /\ n \in Nat
      BY <1>0, <1>e, <2>2, <2>3
    <3> HIDE DEF m, n
    <3>2. m <= 1 /\ (n = 0 => m = 0)
      BY <3>1
    <3> QED BY <3>2 DEF m, n
  <2>5. \A c \in now : Many(new, c.slot) = 0
    BY <1>0, <1>e, <2>1, <2>4
  <2> QED BY <1>e, <2>1, <2>4, <2>5
<1>7. CASE Tick
  <2>1. /\ new = spawnedMap
        /\ now = {[c EXCEPT !.wait = @ - 1] : c \in coming}
        /\ \A c \in coming : c.wait > -Lag
    BY <1>7 DEF Tick
  <2>2. ASSUME NEW c \in coming PROVE [c EXCEPT !.wait = @ - 1].slot = c.slot
    <3>1. c \in Kinds /\ 0 \in 0..Effects - 1 /\ c.wait - 1 \in -Lag..Step
      BY <1>0, <2>1, Records, Intervals
    <3> QED BY <3>1, Changed
  <2>3. \A d \in now : \E c \in coming : d = [c EXCEPT !.wait = @ - 1] /\ d.slot = c.slot
    BY <2>1, <2>2
  <2> HIDE DEF now, new
  <2>4. \A c, d \in now : c.slot = d.slot => c = d
    BY <1>e, <2>3
  <2>5. \A d \in now : Many(new, d.slot) = 0
    BY <1>e, <2>1, <2>3
  <2> QED BY <1>e, <2>1, <2>4, <2>5
<1>8. CASE UNCHANGED vars
  BY <1>8, <1>e DEF vars
<1> QED BY <1>1, <1>2, <1>3, <1>4, <1>5, <1>6, <1>7, <1>8 DEF Next

LEMMA OneFromExclusive ==
  ASSUME TypeOK, Exclusive
  PROVE  OneMonsterPerSlot
<1> SUFFICES ASSUME NEW s \in Slots
             PROVE  Many(spawnedMap, s) + Cardinality({c \in coming : c.slot = s}) <= 1
  BY DEF OneMonsterPerSlot
<1> DEFINE announced == {c \in coming : c.slot = s}
           many == Many(spawnedMap, s)
<1>1. many \in Nat /\ many <= 1
  BY MapsFromType, SizeOf, FiniteIds DEF Exclusive
<1>2. CASE announced = {}
  <2>1. Cardinality(announced) = 0
    BY <1>2, FS_EmptySet
  <2> HIDE DEF announced, many
  <2>2. many + Cardinality(announced) <= 1
    BY <1>1, <2>1
  <2> QED BY <2>2 DEF announced, many
<1>3. CASE announced # {}
  <2>1. PICK c \in announced : TRUE
    BY <1>3
  <2>2. announced = {c} /\ many = 0
    BY <2>1 DEF Exclusive
  <2>3. Cardinality(announced) = 1
    BY <2>2, FS_Singleton
  <2> HIDE DEF announced, many
  <2>4. many + Cardinality(announced) <= 1
    BY <2>2, <2>3
  <2> QED BY <2>4 DEF announced, many
<1> QED BY <1>2, <1>3

LEMMA ExclusiveInvariant == Spec => [](TypeOK /\ ArrivesFirst /\ Exclusive)
<1>1. Init => TypeOK /\ Bounded /\ ArrivesFirst /\ Exclusive
  <2> SUFFICES ASSUME Init PROVE TypeOK /\ Bounded /\ ArrivesFirst /\ Exclusive
    OBVIOUS
  <2>1. check = None /\ coming = {}
    BY DEF Init
  <2>2. PICK placed \in SUBSET Slots :
          spawnedMap = [id \in Ids |-> [Nobody EXCEPT
                            !["inZone"] = IF id \in placed THEN 1 ELSE 0]]
    BY DEF Init
  <2>3. \A id \in Ids : Many(spawnedMap, id) = IF id \in placed THEN 1 ELSE 0
    BY <2>2, StartupCounts
  <2>4. \A s \in Slots : Many(spawnedMap, s) <= 1
    BY <2>3, FiniteIds
  <2> QED BY <2>1, <2>4, TypeInit DEF ArrivesFirst, Exclusive
<1>2. TypeOK /\ Bounded /\ ArrivesFirst /\ Exclusive /\ [Next]_vars
        => TypeOK' /\ Bounded' /\ ArrivesFirst' /\ Exclusive'
  BY TypeStep, ArrivesFirstStep, ExclusiveStep
<1> QED BY <1>1, <1>2, PTL DEF Spec

\* A slot never has two monsters, nor one while another is announced for it,
\* however late the tasks are: an announced monster is in the map before the
\* spawn looks at its slots again.
THEOREM SlotsHoldOne == Spec => []OneMonsterPerSlot
  BY ExclusiveInvariant, OneFromExclusive, PTL

-----------------------------------------------------------------------------
(* The spawn goes on looking while it is short of monsters *)

LEMMA LooksStep == TypeOK /\ LooksWhileShort /\ [Next]_vars => LooksWhileShort'
<1> SUFFICES ASSUME TypeOK, LooksWhileShort, [Next]_vars, check' = None, ~overlooked'
             PROVE  /\ Size(spawnedMap') >= Cardinality(Slots)
                    /\ \A id \in Ids : spawnedMap'[id]["removed"] = 0
  BY DEF LooksWhileShort, Size, Many
<1> DEFINE new == spawnedMap'
           n == Cardinality(Slots)
           Done == Size(new) >= n /\ \A id \in Ids : new[id]["removed"] = 0
<1>g. SUFFICES Done
  OBVIOUS
<1>0. /\ spawnedMap \in Maps /\ Size(spawnedMap) \in Nat /\ n \in Nat
      /\ check # None => check \in Int
      /\ CheckInterval # None /\ \A i \in Int : i # None
  BY MapsFromType, SizeOf, SpawnAssumption, Intervals, FS_CardinalityType DEF TypeOK
<1>e. check = None /\ ~overlooked
        => Size(spawnedMap) >= n /\ \A id \in Ids : spawnedMap[id]["removed"] = 0
  BY DEF LooksWhileShort
<1>1. CASE CheckSpawn
  <2>1. new = Reviewed /\ Complete(Reviewed)
    BY <1>0, <1>1 DEF CheckSpawn, NextCheck
  <2>2. \A id \in Ids : Reviewed[id]["removed"] = 0
    BY <1>0, ReviewedCounts
  <2>3. Size(Reviewed) >= n
    BY <2>1 DEF Complete
  <2> QED BY <2>1, <2>2, <2>3
<1>2. ASSUME NEW c \in coming, ShowEffect(c) PROVE Done
  BY <1>2, <1>e DEF ShowEffect
<1>3. ASSUME NEW c \in coming, Arrive(c) PROVE Done
  <2>1. check = None /\ ~overlooked
    BY <1>3 DEF Arrive
  <2>2. /\ Size(new) = Size(spawnedMap) + 1
        /\ \A i \in Ids : new[i]["removed"] = spawnedMap[i]["removed"]
    BY <1>3, ArriveCounts
  <2> HIDE DEF new, n
  <2>3. Size(new) >= n
    BY <1>0, <1>e, <2>1, <2>2
  <2> QED BY <1>e, <2>1, <2>2, <2>3
<1>4. ASSUME NEW c \in coming, FailToArrive(c) PROVE Done
  BY <1>4, <1>e DEF FailToArrive
<1>5. ASSUME NEW id \in Ids, Wander(id) PROVE Done
  <2>1. check = None /\ ~overlooked
    BY <1>5 DEF Wander
  <2>2. Size(new) = Size(spawnedMap)
    BY <1>5, MovingSteps
  <2>3. \A i \in Ids : new[i]["removed"] = spawnedMap[i]["removed"]
    BY <1>0, <1>5 DEF Wander, Moved, Maps, States
  <2> HIDE DEF new, n
  <2>4. Size(new) >= n
    BY <1>e, <2>1, <2>2
  <2> QED BY <1>e, <2>1, <2>3, <2>4
<1>6. ASSUME NEW id \in Ids, Disappear(id) PROVE Done
  BY <1>0, <1>6 DEF Disappear, Asked
<1>7. ASSUME NEW id \in Ids, Convince(id) PROVE Done
  BY <1>7 DEF Convince
<1>8. CASE Tick
  <2>1. check = None
    BY <1>0, <1>8 DEF Tick
  <2> QED BY <1>8, <1>e, <2>1 DEF Tick
<1>9. CASE UNCHANGED vars
  BY <1>9, <1>e DEF vars
<1> QED BY <1>1, <1>2, <1>3, <1>4, <1>5, <1>6, <1>7, <1>8, <1>9 DEF Next

\* A spawn that no longer looks after its slots has as many monsters as it has
\* slots and has cleaned up after the removed, unless a monster was convinced,
\* or not placed at startup.
THEOREM SpawnKeepsLooking == Spec => []LooksWhileShort
<1>1. Init => TypeOK /\ Bounded /\ LooksWhileShort
  <2> SUFFICES ASSUME Init PROVE TypeOK /\ Bounded /\ LooksWhileShort
    OBVIOUS
  <2>1. PICK placed \in SUBSET Slots :
          /\ spawnedMap = [id \in Ids |-> [Nobody EXCEPT
                              !["inZone"] = IF id \in placed THEN 1 ELSE 0]]
          /\ overlooked = (placed # Slots)
    BY DEF Init
  <2>2. /\ placed = Slots => Size(spawnedMap) = Cardinality(Slots)
        /\ \A id \in Ids : spawnedMap[id]["removed"] = 0
    BY <2>1, StartupCounts
  <2>3. Cardinality(Slots) \in Nat
    BY SpawnAssumption, FS_CardinalityType
  <2>4. LooksWhileShort
    <3> DEFINE n == Cardinality(Slots)
               size == Size(spawnedMap)
    <3>1. ~overlooked => placed = Slots
      BY <2>1
    <3>2. n \in Nat /\ (placed = Slots => size = n)
      BY <2>2, <2>3
    <3> HIDE DEF n, size
    <3>3. ~overlooked => size >= n
      BY <3>1, <3>2
    <3> QED BY <2>2, <3>3 DEF LooksWhileShort, n, size
  <2> QED BY <2>4, TypeInit
<1>2. TypeOK /\ Bounded /\ LooksWhileShort /\ [Next]_vars
        => TypeOK' /\ Bounded' /\ LooksWhileShort'
  BY TypeStep, LooksStep
<1> QED BY <1>1, <1>2, PTL DEF Spec

=============================================================================
