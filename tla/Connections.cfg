SPECIFICATION FairSessionSpec
CONSTANTS
  u1 = u1
  u2 = u2
  w1 = w1
  w2 = w2
  Players = {u1, u2}
  StorageWorkers = {w1, w2}
  Room = Room
  Nil = Nil
  MaxConns = 2
  MaxTokens = 2
  RoomQueue = 1
  Loads <- MCLoads
PROPERTIES
  IdentityIsStable
  OnlyLaterTakesOver
  BindingSettles
CHECK_DEADLOCK FALSE
