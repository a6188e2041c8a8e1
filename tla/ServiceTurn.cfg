\* Nothing fails and every thread keeps running.
SPECIFICATION FairSpec
CHECK_DEADLOCK FALSE
CONSTANTS
  u1 = u1  u2 = u2  r1 = r1  Users <- MCUsers
  None = None  Timer = Timer  Fresh = Fresh
  RequestIds <- FreshOnly
  Setups <- OnlyOneHand
  MaxAttempts = 1
  BuyIn = 1
PROPERTIES TurnEnds
