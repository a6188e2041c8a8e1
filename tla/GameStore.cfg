\* The MySQL store against the in-memory one, under two loads.
SPECIFICATION Spec
CONSTANTS
  Tables = {t1}
  Users = {u1, u2}
  Keys = {k1, k2}
  HandNumbers = {1, 2}
  Requests = {1}
  Sequences = {1, 2}
  ActionTypes = {"call"}
  ActionRows <- MCActionRows
  MaxPlayers = 2
  MinBuyIn = 1
  MaxBuyIn = 1
  InitialBalance = 1
  None = None
  SeatNos = {0, 1, 2}
  Amounts = {1}
  Callers = {c1, c2}
  Loads <- MoneyOrHistory
SYMMETRY Symmetry
CHECK_DEADLOCK FALSE
INVARIANTS
  LedgerExplainsWallets
  ConservesChips
  HandHoldsItsStacks
  ReceiptsAreBacked
PROPERTIES
  ImplementsContract
  HistoryIsFinal
