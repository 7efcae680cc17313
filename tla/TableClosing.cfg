CONSTANTS
  Players = {ann, bob}
  Seats = {s1, s2}
  Nobody = Nobody
  Handlers = {h1, h2}
  OpeningBalance = 1
  StartingChips = 2
  RebuySize = 1
  NeverLeft = NeverLeft
  MaxRequests = 2
  Closers = {terminate, timer}

SPECIFICATION ClosingSpec
CHECK_DEADLOCK FALSE

INVARIANTS ClosingReturnsChips
