CONSTANTS
  ann = ann  bob = bob  cid = cid  p1 = p1  p2 = p2  p3 = p3  p4 = p4  home = home  away = away  None = None
  Chars = {ann, bob, cid}
  Protocols = {p1, p2, p3, p4}
  Addresses = {home, away}
  Address <- MCAddress
  MaxPlayers = 1
  Privileged = {}
  Premium = {cid}
  PremiumSkips = FALSE
SPECIFICATION Spec
SYMMETRY Symm
CONSTRAINT ThreeAtATime
INVARIANTS TypeOK PointersAreLive ConnectingIsScheduled
PROPERTIES NobodyOvertaken
CHECK_DEADLOCK FALSE
