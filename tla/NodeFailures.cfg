SPECIFICATION FairSpec
CONSTANTS
  Nodes = {n1, n2}
  Users = {u1}
  Workers = {w1, w2}
  None = None
  MaxTable = 1
  Grace = 2
  SweepLimit = 1
  StartLimit = 1
INVARIANTS
  RestartHidesNothing
  GraceIsKept
  AbortedTablesAreEmpty

  
