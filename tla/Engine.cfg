CONSTANTS
  MaxSeats = 3
  SmallBlind = 1
  BigBlind = 2
  MaxAnte = 2
  NoSeat = NoSeat
  Ranks = {1, 2, 3}
  MaxHands = 2
  OneHandStacks = {1, 2, 4, 7}
  SessionStacks = {0, 1, 3, 6}
  StartingTables <- AllTables
SPECIFICATION FairSpec
CHECK_DEADLOCK FALSE
INVARIANTS TypeOK PotsHoldEveryChip NobodySeesAStreetCheaply EarlyRevealEndsBetting
           BetIsStanding TopStakeContends LoopMakesThesePots
PROPERTIES ImplementsCustody WinBoundedByStake FullRaiseReopens BustedSitOut HandsEnd
