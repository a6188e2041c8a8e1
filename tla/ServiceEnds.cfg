\* Everything fails and every thread keeps running.
SPECIFICATION FairSpec
CHECK_DEADLOCK FALSE
CONSTANTS
  u1 = u1  u2 = u2  r1 = r1  Users <- MCUsers
  None = None  Timer = Timer  Fresh = Fresh
  RequestIds <- ReusedId
  Setups <- OnlyOneRoom
  MaxAttempts = 2
  BuyIn = 1
PROPERTIES OperationEnds RefundEnds
