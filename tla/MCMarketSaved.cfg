CONSTANTS
  ann = ann  bob = bob
  Players = {ann, bob}
  InitialGoods <- Goods2
  InitialCoins <- Coins40
  Counts = {2}
  Prices = {20}
  MailSize = 1
  IdRange = 3
  Lifetime = 1
  MaxTime = 1
  MaxCalls = 3
  MaxStarts = 2
SPECIFICATION Spec
INVARIANT MarketSaved
CHECK_DEADLOCK FALSE
