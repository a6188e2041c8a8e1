SPECIFICATION FairThreadsSpec
CONSTANTS
  StorageWorkers = {w1, w2}
  Coordinator = co
  Handles = {h1, h2}
  Pool = {h1}
  MaxPending = 2
  Posters = 1
  NoHandle = NoHandle
INVARIANTS
  EveryHandleOnce
  NoLostWakeup
PROPERTIES
  ShutdownEnds
CHECK_DEADLOCK FALSE
