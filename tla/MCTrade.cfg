CONSTANTS
  ann = ann  bob = bob  cid = cid
  bag = bag  pouch = pouch  coins = coins  None = None
  Players = {ann, bob, cid}
  Positions <- Line
  Items = {bag, pouch, coins}
  Containers = {bag, pouch}
  Stacks = {coins}
  Placements <- StartPlacements
SPECIFICATION Spec
CONSTRAINT ThreeOnOneSpot
INVARIANTS TypeOK OffersTracked OffersInPlace PartnersMutual
PROPERTIES AcceptedOfferFixed SwapIsComplete NothingWithoutConsent
CHECK_DEADLOCK FALSE
