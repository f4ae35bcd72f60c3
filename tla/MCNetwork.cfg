CONSTANTS
  MaxMessages = 2
SPECIFICATION Spec
INVARIANTS TypeOK OneWriteAtATime NothingDangles
PROPERTIES ClosedInTheEnd
CHECK_DEADLOCK FALSE
