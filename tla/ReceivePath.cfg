SPECIFICATION PathSpec
CHECK_DEADLOCK FALSE
CONSTANTS
  r0 = r0  r1 = r1  r2 = r2  r3 = r3
  Requests <- MCRequests
  Unanswered = Unanswered
  MaxRequests = 2
  MaxSequence = 4
  MaxConnections = 2
  Base = 5
  HeaderSize = 2
  MaxFrame = 7
  Compaction = 4
  Rate = 1
  Loads <- MCLoads
SYMMETRY Symmetry
INVARIANTS TypeOK  StreamIntact LegalFramesPass
