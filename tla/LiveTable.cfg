CONSTANTS
  MaxSeats = 3
  FirstSeats = {0, 1, 2}
  Users = {ann, bob}
  Nobody = Nobody
  NoSeat = NoSeat
  Balance = 2
  BuyInSize = 1
  RebuySize = 1
  Ante = 1
  DealMayEndHand = TRUE
  MaxChips = 5
  MaxRequests = 5
  MaxGames = 1
  MaxHands = 2

SPECIFICATION Spec
CHECK_DEADLOCK FALSE

INVARIANTS TypeOK BookAgrees NetIsReal OnlyDealtInPlay HeldSeatStaysFree SettlementClears
PROPERTIES PutOffIsDone ClosedGameIsPaid
SYMMETRY AnyPlayers
