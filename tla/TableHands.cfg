SPECIFICATION Spec
CONSTANTS
  Players = {p1, p2, p3}
  NoPlayer = NoPlayer
  NoSeat = NoSeat
  MinPlayers = 2
  MaxPlayers = 3
  SmallBlind = 1
  BigBlind = 2
  MinBuyIn = 1
  MaxBuyIn = 4
  Strengths = {0, 1, 2}
  MaxTableChips = 5
SYMMETRY Symmetry
VIEW View
INVARIANTS
  ActorCanAct
PROPERTIES
  ChipsConservedButOrphans
