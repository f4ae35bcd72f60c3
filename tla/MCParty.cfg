CONSTANTS
  ann = ann  bob = bob  cid = cid  dan = dan  g1 = g1  g2 = g2  None = None
  Players = {ann, bob, cid, dan}
  Parties = {g1, g2}
SPECIFICATION Spec
CONSTRAINT FewAtATime
SYMMETRY Symm
INVARIANTS TypeOK PointersAgree OutsidersAreStrays
PROPERTIES Succession
CHECK_DEADLOCK FALSE
