\* A quiet table over two hands, and a faulty one over two rooms.
SPECIFICATION Spec
CHECK_DEADLOCK FALSE
CONSTANTS
  u1 = u1  u2 = u2  r1 = r1  Users <- MCUsers
  None = None  Timer = Timer  Fresh = Fresh
  RequestIds <- FreshOnly
  Setups <- SteadyOrFaulty
  MaxAttempts = 1
  BuyIn = 1
SYMMETRY Symmetry
INVARIANTS FenceHasOneOwner  FenceGuardsLog ClosedRoomIsRefunded StoredHandIsPlayed
