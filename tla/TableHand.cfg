SPECIFICATION OneFairHand
CONSTANTS
  Players = {0, 1, 2}
  NoPlayer = NoPlayer
  NoSeat = NoSeat
  MinPlayers = 2
  MaxPlayers = 3
  SmallBlind = 1
  BigBlind = 2
  MinBuyIn = 1
  MaxBuyIn = 6
  Strengths = {0, 1, 2}
  MaxTableChips = 12
INVARIANTS
  BetsMatched
  OnlyBlindsStrand
  SidePotsFair
PROPERTIES
  RaiseReopens
  RoundClosesFairly
  HandEnds
CHECK_DEADLOCK FALSE
