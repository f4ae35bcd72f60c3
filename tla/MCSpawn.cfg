CONSTANTS
  None = None
  Slots = {1, 2, 3}
  Interval <- MCInterval
  DefaultInterval = 7
  Step = 1
  Lag = 1
  SpawnRate = 1
  MaxMonsters = 4
SPECIFICATION Spec
INVARIANTS TypeOK OneMonsterPerSlot LooksWhileShort
PROPERTIES SlotRefilled
