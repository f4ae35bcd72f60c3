CONSTANTS
  ann = ann  bob = bob  cid = cid
  bag = bag  pouch = pouch  coins = coins  None = None
  Players = {ann, bob}
  Positions <- Point
  Items = {bag, pouch, coins}
  Containers = {bag, pouch}
  Stacks = {coins}
  Placements <- StartPlacements
SPECIFICATION Spec
INVARIANTS DeniedTradeIsCancelled
CHECK_DEADLOCK FALSE
